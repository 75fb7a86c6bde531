SPECIFICATION Spec
CONSTANTS
    NumTasks = 2
    Intents = {display, print}
    PrintIntents = {print}
    MaxEvals = 2
    ChunkSize = 3
    ChunkSizeAbout = 2
    Pages <- MCPages
    Large = {"b"}
    ExecutionSteps = 2
INVARIANTS
    LiveTasksAreFed
    DoneMeansDrawn
    DestroyedIsQuiet
CHECK_DEADLOCK FALSE
PROPERTIES
    RendersSettle
