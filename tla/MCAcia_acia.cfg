SPECIFICATION FairSpec
CONSTANTS
    Byte = 4
    RxSize = 4
    Fullish = 2
    Emptyish = 1
    TxSize = 4
    Lag = 1
    Numbers = 2
INVARIANTS
PROPERTIES
    RxInOrder
    TxInOrder
    FlowControlHolds
    OnlyFlushStrands
    OnlyReceiveStalls
    WriterProceeds
