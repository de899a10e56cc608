SPECIFICATION Spec
VIEW MCView
CONSTANTS
    Prefix <- MCPrefix
    Audio <- MCAudio
    Ids <- MCIds
    LengthLimit = 64
    NewBlocks <- MCNew
    MaxRoom = 20
    Faults = {"io"}
    Starts <- MCStarts
CHECK_DEADLOCK FALSE
INVARIANTS
    StaysSound
    CheckInStep
PROPERTIES
    EditsAsAsked
    PaddingKept
    WritesTheChain
