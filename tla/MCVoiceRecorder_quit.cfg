SPECIFICATION FairSpec
CONSTANTS
    MaxRecordDuration = 2
    SpeechTimeout = 2
    Gaps = {1}
    MaxGap = 1
    LeadIn = 0
    Latency = 0
    EncoderFaults = {}
    Reentrant = FALSE
    MicMayDie = FALSE
PROPERTY EveryStopAnnounced
