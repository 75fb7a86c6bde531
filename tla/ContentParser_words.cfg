SPECIFICATION ParserSpec
CONSTANTS
    Texts <- LongTexts
    Commands <- SomeCommands
    Reserved <- ReservedWords
    ScanBlock = 5
    Following = 4
    MaxArgs = 4
    PathOps <- SomePathOps
    MaxInvalid = 1
INVARIANTS
    LongWordsAreRead
CHECK_DEADLOCK FALSE
