SPECIFICATION ProgramsSpec
CONSTANTS
    MAXPROC = 5
    PidLimit = 32768
    MaxPid = 7
    Priorities = {2, 3}
    Calls = {"fork1", "badFork", "join", "quit"}
    JoinsFirst = TRUE
    SoleZapper = TRUE
    KernelPreempt = FALSE
INVARIANTS
    TestsPass
PROPERTIES
    FreeProgramsComplete
