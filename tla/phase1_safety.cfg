SPECIFICATION Spec
CONSTANTS
    MAXPROC = 5
    PidLimit = 32768
    MaxPid = 7
    Priorities = {2, 3}
    Calls = {"fork1", "badFork", "join", "quit", "zap", "blockMe", "unblockProc", "misuse"}
    JoinsFirst = TRUE
    SoleZapper = TRUE
    KernelPreempt = FALSE
INVARIANTS
    ReadyListComplete
    HighestPriorityRuns
    FamilyListed
    JoinWaitsForChild
    ZapWaitsForTarget
    NeverCrashes
PROPERTIES
    ZapReturnsAfterQuit
