SPECIFICATION Spec
VIEW MCView
CONSTANTS
    Prefix <- MCPrefix
    Audio <- MCAudio
    Ids <- MCIds
    LengthLimit = 64
    NewBlocks <- MCNew
    MaxRoom = 20
    Faults = {"io"}
    Starts <- MCStarts
PROPERTY TrueIsWritten
CHECK_DEADLOCK FALSE
