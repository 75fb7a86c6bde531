SPECIFICATION XRefSpec
CONSTANTS
    Files <- ShortFile
    MaxMissing = 1
INVARIANTS
    ResumeIsTransparent
CHECK_DEADLOCK FALSE
