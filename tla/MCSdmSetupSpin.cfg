SPECIFICATION Spec
CONSTANTS
    Urls <- MCUrls
    UrlLen <- MCUrlLen
    PrefixLen <- MCPrefixLen
    SdmKeyNos <- MCSdmKeyNos
    FileNos = {2, 3}
    NdefFileNo = 2
    ChunkMax = 255
    FileSize = 256
    Refusals = TRUE
    BlankNlen = 300
    CardT0 = FALSE
    PastEnds = {"short"}
    MaxRuns = 1
    MaxFaults = 0
PROPERTY RunEnds
CHECK_DEADLOCK FALSE
