SPECIFICATION Spec
CONSTANTS
    s1 = s1
    MaxThreads = 4
    Ticks = 4
    Sems = {s1}
    InitValue <- OneUnit
    IntMax = 2
    MayWait = {0, 1, 2, 3}
    MayPost = {0, 1, 2, 3}
    MayCreate = {0, 1}
    MayExit = {0, 1, 2, 3}
    MayGoOn = {}
INVARIANTS
    NoLostWakeup
    NoStaleWaiter
    RunnerAwake
PROPERTIES
    ImplementsSemaphore
