SPECIFICATION Spec
CONSTANTS
    Channels = 2
    BitsPerSample = 3
    WideSamples = 2
    Blocksize = 4
    Blocks <- MCBlocks
    MaxFixedOrder = 2
    MaxRiceOrder = 2
    ShortLen = 1
    LongLen = 2
    Coefficients <- MCCoefficients
    Shifts = {1}
    LooseFrames = 2
    SampleRate = 655355
    Headers <- MCHeaders
    Damages = {1, 129, 240}
    Settings <- MCSettings
CHECK_DEADLOCK FALSE
INVARIANTS
    Lossless
    InStep
    HeadersHold
