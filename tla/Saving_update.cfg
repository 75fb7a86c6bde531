SPECIFICATION SavingSpec
CONSTANTS
    Pages = {1, 2}
    Old <- OldOf
    Catalog = 5
    Entries = 6
    Bitmaps = {"logo"}
    Masked = {}
    Documents <- TreeAndTable
    Requests <- UntaggedRequests
    Concurrent = FALSE
INVARIANTS
    SavedIsTheDocument
CHECK_DEADLOCK FALSE
