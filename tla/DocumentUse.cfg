SPECIFICATION UseSpec
CONSTANTS
    Encoded <- EncodedFiles
    Lengths <- ReadLengths
    MinBuffer = 1
    Block = 3
    Texts <- ParsedTexts
    Commands <- SomeCommands
    Reserved <- ReservedWords
    ScanBlock = 5
    Following = 4
    MaxArgs = 4
    PathOps <- SomePathOps
    MaxInvalid = 1
    Functions <- SomeFunctions
    MaxStack = 6
    NumDocs = 2
    PageCounts <- MCPageCounts
    MaxScale = 3
    FullScale = 1
    MaxDraws = 2
    MaxUpdates = 2
    Editors = {"e", "f"}
    Phrases = {"a", "b"}
    Colors = {"black", "red"}
    Right = 2
    MaxSize = 2
    MaxActs = 7
    ChunkSize = 18
    ChunkSizeAbout = 17
    MinInline = 2
    MaxInline = 3
    MinMasks = 2
    MaxMasks = 3
    MaxSameMasks = 4
    MinImages = 2
    MaxImages = 3
    MinTexts = 3
    MaxTexts = 4
    Contents <- SomePages
    Pages = {1, 2}
    Old <- OldOf
    Catalog = 5
    Entries = 6
    Bitmaps = {"logo", "photo"}
    Masked = {"logo"}
    Documents <- AllDocuments
    Requests <- SomeRequests
    Concurrent = FALSE
INVARIANTS
    StreamsDecode
    ContentParses
    RightCodeComputes
    ViewsRenderOnce
    ViewsFinish
    ViewsAgree
    PagesDrawn
    CanvasGivenBack
    UndoneIsAsBefore
    StorageIsShown
    FileIsAsAsked
CHECK_DEADLOCK FALSE
