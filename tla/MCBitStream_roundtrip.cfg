SPECIFICATION Spec
CONSTANTS
    BitsPerByte = 2
    BytesPerWord = 2
    DefaultCapacity = 1
    Increment = 2
    Memory = 5
    ReaderCapacity = 2
    RawItems <- MCRawItems
    UnaryItems <- MCUnaryItems
    RiceBlocks <- MCRiceBlocks
    Parameters <- MCParameters
    ByteBlocks <- MCByteBlocks
    MaxItems = 2
CHECK_DEADLOCK FALSE
INVARIANTS
    WriterExact
    RoundTrip
    CrcCovers
