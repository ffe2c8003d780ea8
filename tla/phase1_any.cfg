SPECIFICATION Spec
CONSTANTS
    MAXPROC = 4
    PidLimit = 6
    MaxPid = 8
    Priorities = {2, 3}
    Calls = {"fork1", "badFork", "join", "quit", "zap", "blockMe", "unblockProc", "misuse"}
    JoinsFirst = FALSE
    SoleZapper = FALSE
    KernelPreempt = TRUE
INVARIANTS
    TypeOK
    
