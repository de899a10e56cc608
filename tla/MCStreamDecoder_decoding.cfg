SPECIFICATION Spec
CONSTANTS
    Files <- MCFiles
    Targets = {0, 3, 7, 8, 13, 20, 21, 22}
    Operations = {"single", "metadata", "stream", "skip", "seek", "flush", "reset", "finish"}
    Checks = {TRUE}
    Chunk = 64
    Patience = 1
    Placeholder = 99
    MaxCalls = 4
    MaxFaults = 1
INVARIANTS
    InPlace
    SeekLands
    SeekFinds
    DamageIsLocal
    Md5Vouches
PROPERTY
    CallsEnd
CHECK_DEADLOCK FALSE
