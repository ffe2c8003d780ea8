SPECIFICATION Spec
CONSTANTS
    MAXPROC = 5
    PidLimit = 32768
    MaxPid = 7
    Priorities = {2, 3}
    Calls = {"fork1", "quit", "zap"}
    JoinsFirst = FALSE
    SoleZapper = TRUE
    KernelPreempt = FALSE
PROPERTIES
    ZapReturnsAfterQuit
