CONSTANTS
    CommModes <- MCCommModes
    ARs <- MCARs
    OptsSet <- MCAllOpts
    Metas <- MCAllMetas
    Files <- MCFiles
    Ctrs <- MCCtrs
    Offsets <- MCOffsets
    FileType = 3
    FileSize = 256

SPECIFICATION Spec

INVARIANT RoundTrip

CHECK_DEADLOCK FALSE
