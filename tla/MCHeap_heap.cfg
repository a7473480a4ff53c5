SPECIFICATION FairSpec
CONSTANTS
    Threads = {1, 2}
    First = 65508
    End = 65530
    Calls <- MCCalls
    Values = {"v"}
INVARIANTS
    TypeOK
    ListSound
    NoSpuriousENOMEM
    InfoTiles
    HeadersIntact
PROPERTIES
    ImplementsAllocator
    CallsReturn
CHECK_DEADLOCK FALSE
