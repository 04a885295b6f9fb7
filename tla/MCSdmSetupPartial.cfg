SPECIFICATION Spec
CONSTANTS
    Urls <- MCUrls
    UrlLen <- MCUrlLen
    PrefixLen <- MCPrefixLen
    SdmKeyNos <- MCSdmKeyNos
    FileNos = {2}
    NdefFileNo = 2
    ChunkMax = 255
    FileSize = 256
    Refusals = FALSE
    BlankNlen = 0
    CardT0 = FALSE
    PastEnds = {"6C"}
    MaxRuns = 3
    MaxFaults = 1
INVARIANT SdmConsistentAtRest
CHECK_DEADLOCK FALSE
