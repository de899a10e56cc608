SPECIFICATION Spec
CONSTANTS
    Signal <- MCSignal
    Blocksizes = {0, 1, 3}
    DefaultBlocksize = 2
    MinBlocksize = 2
    MaxBlocksize = 3
    FrameSizes = {1, 2}
    NoMinimum = 9
    Templates <- MCTemplates
    MetadataLists <- MCMetadataLists
    Clients = {"stream", "pipe", "file", "seekonly"}
    Verifies = {TRUE}
    Miscodes = TRUE
    Placeholder = 99
    MaxStreams = 2
    MaxFaults = 1
INVARIANTS
    Lossless
    NoFalseAlarm
    HeaderTrue
    SeekPointsTrue
CHECK_DEADLOCK FALSE
