SPECIFICATION Spec
CONSTANTS
    s1 = s1
    s2 = s2
    s3 = s3
    Nobody = Nobody
    Sessions = {s1, s2, s3}
    MaxBlocks = 2
    Latency = 1
SYMMETRY Symmetry
CHECK_DEADLOCK FALSE
INVARIANTS
    NeverFails
    OwnStream
    NothingLeaks
