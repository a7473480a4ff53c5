SPECIFICATION FairSpec
CONSTANTS
    Threads = {1, 2, 3}
    Builds = {"z80", "8080"}
INVARIANTS
    AtMostOnce
    ReturnsAfterFunc
PROPERTIES
    PollersReturn
