CONSTANTS
    KeyNos <- MCKeyNos
    BadKeyNo <- MCBadKeyNo
    Paths <- MCPaths
    ProvPath <- MCProvPath
    RotPath <- MCRotPath
    MaxRuns = 3
    MaxFaults = 1
    DiskFaults = FALSE

SPECIFICATION Spec
INVARIANT TypeOK
PROPERTY WriteBeforeChange

CHECK_DEADLOCK FALSE
