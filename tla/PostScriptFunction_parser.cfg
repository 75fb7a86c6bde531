SPECIFICATION FunctionSpec
CONSTANTS
    Functions <- SomeFunctions
    MaxStack = 6
INVARIANTS
    ParsedIsCode
CHECK_DEADLOCK FALSE
