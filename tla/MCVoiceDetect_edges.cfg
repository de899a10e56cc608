SPECIFICATION ScanSpec
CONSTANTS
    AMPLITUDE_THRESHOLD = 1500
    Blocks <- EdgeBlocks
INVARIANTS
    HeardIsLoud
    SilentIsQuiet
