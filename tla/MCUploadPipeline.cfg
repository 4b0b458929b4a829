CONSTANTS
    good = good
    longer = longer
    refused = refused
    truncated = truncated
    Serials <- MCSerials
    Lower <- MCLower
    Paths <- MCPaths
    Serial <- MCSerial
    Contents = {good, longer, refused, truncated}
    Absent = Absent
    Conns = {1, 2}
    NumHandles = 1
    Matches <- MCMatches
    Size <- MCSize
    Poison = {truncated}
    Rejected = {refused}
    Limit = 2
    NumIngest = 1
    Scenarios <- MCScenarios
SPECIFICATION Spec
INVARIANTS
    ListedIsStored
    AckedIsKept
PROPERTIES
    EventuallyIngested
    ManifestTakesEffect
\* With no uPMU in the manifest the ingester sleeps "forever" (ingester.go:230).
CHECK_DEADLOCK FALSE
