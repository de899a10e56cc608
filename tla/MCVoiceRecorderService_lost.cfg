SPECIFICATION Spec
CONSTANTS
    s1 = s1
    s2 = s2
    s3 = s3
    Nobody = Nobody
    Sessions = {s1, s2}
    Strategies <- SendAlways
    Extension <- OneEncoder
    MaxBlocks = 1
    Patience = "notified"
    StopPolicies = {"SEND"}
    NaturalEnds = {"IDLE"}
    DiskFaults = {}
    Moments = {m1}
    m1 = m1
    m2 = m2
CHECK_DEADLOCK FALSE
INVARIANT StopStops
