SPECIFICATION EnsureSpec
CONSTANTS
    Length = 5
    ChunkSize = 2
    DisableAutoFetch = TRUE
    Streaming = TRUE
    Failures = TRUE
    Longer = FALSE
    Aborts = TRUE
    MaxRequests = 4
    MaxCalls = 1
    Job <- Jobs
    Program <- Programs
INVARIANTS
    OnlyWrittenBytesRead
    NoRetryInVain
PROPERTIES
    EnsureEnds
CHECK_DEADLOCK FALSE
