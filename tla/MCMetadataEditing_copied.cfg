SPECIFICATION Spec
VIEW MCView
CONSTANTS
    Prefix <- MCPrefix
    Audio <- MCAudio
    Ids <- MCIds
    LengthLimit = 64
    NewBlocks <- MCCopies
    MaxRoom = 20
    Faults = {}
    Starts <- MCStarts
INVARIANTS
    StaysSound
CHECK_DEADLOCK FALSE
