SPECIFICATION Spec
CONSTANTS
    s1 = s1
    MaxThreads = 4
    Ticks = 4
    Sems = {s1}
    InitValue <- OneUnit
    IntMax = 2
    MayWait = {}
    MayPost = {}
    MayCreate = {0}
    MayExit = {1}
    MayGoOn = {}
INVARIANTS
    NewThreadsAwake
