SPECIFICATION DrawingSpec
CONSTANTS
    ChunkSize = 18
    ChunkSizeAbout = 17
    MinInline = 2
    MaxInline = 3
    MinMasks = 2
    MaxMasks = 3
    MaxSameMasks = 4
    MinImages = 2
    MaxImages = 3
    MinTexts = 3
    MaxTexts = 4
    Contents <- BrokenPages
INVARIANT
    OnlyWholeGroupsAreReplaced
CHECK_DEADLOCK FALSE
