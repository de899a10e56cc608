SPECIFICATION Spec
CONSTANTS
    s1 = s1
    s2 = s2
    s3 = s3
    Nobody = Nobody
    Sessions = {s1, s2}
    Strategies <- SendOrAsk
    Extension <- TwoEncoders
    MaxBlocks = 1
    Patience = "none"
    StopPolicies = {"SEND", "CANCELED"}
    NaturalEnds = {"INTERRUPTED", "IDLE", "MAX"}
    DiskFaults = {"open", "write", "close"}
    Moments = {m1, m2}
    m1 = m1
    m2 = m2
SYMMETRY Moments2
CHECK_DEADLOCK FALSE
INVARIANTS
    SentOnce
PROPERTIES
    SessionsSpec
