SPECIFICATION Spec
CONSTANTS
    Files <- MCUnsized
    Targets = {0, 3, 7, 8, 13, 20, 21}
    Operations = {"metadata", "seek"}
    Checks = {TRUE}
    Chunk = 64
    Patience = 1
    Placeholder = 99
    MaxCalls = 4
    MaxFaults = 0
INVARIANT
    SeekFindsUnsized
CHECK_DEADLOCK FALSE
