SPECIFICATION FairSpec
CONSTANTS
    s1 = s1
    s2 = s2
    s3 = s3
    Nobody = Nobody
    Sessions = {s1, s2}
    Strategies <- EveryPolicy
    Extension <- OneEncoder
    MaxBlocks = 2
    Patience = "quiet"
    StopPolicies = {"SEND", "CANCELED"}
    NaturalEnds = {"INTERRUPTED", "IDLE", "MAX"}
    DiskFaults = {"open", "write"}
    Moments = {m1}
    m1 = m1
    m2 = m2
CHECK_DEADLOCK FALSE
INVARIANTS
    CancelledNeverSent
    SendsOwnAudio
    StopStops
PROPERTIES
    WishedAudioSent
