SPECIFICATION LockFairSpec
CONSTANTS
    s1 = s1
    MaxThreads = 4
    Ticks = 4
    Sems = {s1}
    InitValue <- OneUnit
    IntMax = 2
    MayWait = {1, 2, 3}
    MayPost = {1, 2, 3}
    MayCreate = {0}
    MayExit = {2}
    MayGoOn = {}
INVARIANTS
    MutualExclusion
PROPERTIES
    ReadyThreadsRun
    WokenUp
    FreeUnitTaken
