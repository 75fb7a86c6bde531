SPECIFICATION BusySpec
CONSTANTS
    HighWaterMark = 2
    Sizes = {1, 2}
    MaxChunks = 5
    MaxReads = 2
    CloseAddresses <- BothAddresses
    Handlers = {"ready", "pull"}
    Failing = TRUE
INVARIANTS
    NoHandlerThrows
    Delivery
    Backpressure
PROPERTIES
    RecordReleased
    ReaderToldIfAddressed
CHECK_DEADLOCK FALSE
