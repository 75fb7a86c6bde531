SPECIFICATION FairSpec
CONSTANTS
    Length = 5
    ChunkSize = 2
    DisableAutoFetch = FALSE
    Streaming = TRUE
    Failures = TRUE
    Longer = TRUE
    Aborts = TRUE
    MaxRequests = 3
INVARIANTS
    LoadedIsWritten
    PromisesTellTheTruth
    NoDoubleFetch
    LoadedStreamOnTime
    WorkGoesOn
PROPERTIES
    ImplementsLoader
    RequestsSettle
CHECK_DEADLOCK FALSE
