SPECIFICATION Spec
CONSTANTS
    MaxRecordDuration = 2
    SpeechTimeout = 0
    Gaps = {1}
    MaxGap = 1
    LeadIn = 0
    Latency = 0
    EncoderFaults = {}
    Reentrant = FALSE
    MicMayDie = FALSE
INVARIANT DurationWithinMax
