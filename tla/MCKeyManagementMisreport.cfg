CONSTANTS
    KeyNos <- MCKeyNos
    BadKeyNo <- MCBadKeyNo
    Paths <- MCPaths
    ProvPath <- MCProvPath
    RotPath <- MCRotPath
    MaxRuns = 3
    MaxFaults = 0
    DiskFaults = FALSE

SPECIFICATION Spec


INVARIANT ReportedChangeApplied

CHECK_DEADLOCK FALSE
