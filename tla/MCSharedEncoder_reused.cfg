SPECIFICATION Spec
CONSTANTS
    s1 = s1
    s2 = s2
    s3 = s3
    Nobody = Nobody
    Sessions = {s1, s2}
    MaxBlocks = 2
    Latency = 1
CHECK_DEADLOCK FALSE
INVARIANT ComplainsRightly
