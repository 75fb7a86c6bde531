SPECIFICATION ReadingSpec
CONSTANTS
    MaxChunks = 3
    MaxReads = 2
    MaxRanges = 2
    Cancels = TRUE
    Chunks = 3
    Plans <- AllPlans
    Files <- MCFiles
    MaxMissing = 2
    Refs <- MCRefs
    Graphs <- MCGraphs
    Keys <- MCKeys
    Pieces = 2
    StreamSets <- MCStreams
    BadSets <- MCBad
    Trees <- MCTrees
    MaxCleanups = 1
    Failures = {"script", "request"}
    MaxPrompts = 2
    WaitsForData = TRUE
    MaxWaits = 2
    Tasks = {1, 2}
    Unread = {2}
INVARIANTS
    HostGivesTheFile
    HostGivesTheRange
    ServerGivesTheFile
    XRefIsNewest
    LoadedIsComplete
    PagesAreThose
    DocumentHasOneOutcome
PROPERTIES
    DocumentGoesQuiet
    EverythingEnds
CHECK_DEADLOCK FALSE
