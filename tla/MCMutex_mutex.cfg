SPECIFICATION FairSpec
CONSTANTS
    Threads = {1, 2, 3}
    Builds = {"z80", "8080"}
    CountMax = 2
    InitTypes = {0, 1, 2}
    MayTry <- TryOnZ80
    MayTimed = {2}
INVARIANTS
    Exclusion
    SpinExclusion
    CountExact
    NoStrandedWaiter
    QueueExact
    SpinReleased
    ResultsAgree
PROPERTIES
    CallsReturn
