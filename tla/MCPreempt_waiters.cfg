SPECIFICATION Spec
CONSTANTS
    s1 = s1
    MaxThreads = 4
    Ticks = 4
    Sems = {s1}
    InitValue <- OneUnit
    IntMax = 2
    MayWait = {0, 1}
    MayPost = {0, 1}
    MayCreate = {0}
    MayExit = {}
    MayGoOn = {}
INVARIANTS
    WaitersFit
