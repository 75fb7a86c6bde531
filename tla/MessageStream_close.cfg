SPECIFICATION BusySpec
CONSTANTS
    HighWaterMark = 1
    Sizes = {1}
    MaxChunks = 1
    MaxReads = 1
    CloseAddresses <- OwnAddress
    Handlers = {"ready"}
    Failing = FALSE
PROPERTIES
    ReaderTold
CHECK_DEADLOCK FALSE
