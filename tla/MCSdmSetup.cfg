SPECIFICATION Spec
CONSTANTS
    Urls <- MCUrls
    UrlLen <- MCUrlLen
    PrefixLen <- MCPrefixLen
    SdmKeyNos <- MCSdmKeyNos
    FileNos = {2, 3}
    NdefFileNo = 2
    ChunkMax = 255
    FileSize = 256
    Refusals = TRUE
    BlankNlen = 300
    CardT0 = FALSE
    PastEnds = {"error", "6C"}
    MaxRuns = 3
    MaxFaults = 1
INVARIANT TypeOK
INVARIANT TemplateWrittenWhole
CHECK_DEADLOCK FALSE
INVARIANT ReadWithinBuffer
