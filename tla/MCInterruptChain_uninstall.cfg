SPECIFICATION FairSpec
CONSTANTS
    Count = 3
    Handlers <- MCHandlers
    Code <- MCCode
PROPERTIES
    ShiftsDown
CHECK_DEADLOCK FALSE
