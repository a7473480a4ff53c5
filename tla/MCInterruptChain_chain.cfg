SPECIFICATION FairSpec
CONSTANTS
    Count = 3
    Handlers <- MCHandlers
    Code <- MCCode
INVARIANTS
    Terminated
    OnlyHalfWrittenStrays
PROPERTIES
    ImplementsHandlerList
    EveryoneServed
    ServedAndReturned
CHECK_DEADLOCK FALSE
