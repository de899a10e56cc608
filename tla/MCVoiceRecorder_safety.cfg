SPECIFICATION FairSpec
CONSTANTS
    MaxRecordDuration = 3
    SpeechTimeout = 2
    Gaps = {1, 2}
    MaxGap = 2
    LeadIn = 1
    Latency = 2
    EncoderFaults = {"checked", "unchecked"}
    Reentrant = TRUE
    MicMayDie = TRUE
INVARIANTS
    AudioComplete
PROPERTIES
    StopIsFinal
    SessionSpec
    RecordingEnds
    StopEnds
