SPECIFICATION Spec
CONSTANTS
    Procs = {p1, p2}
    NULL = NULL
    MAXMBOX = 3
    MAXSLOTS = 1
    Devices = 2
    Ticks = 2
    Capacities = {0, 1}
    SlotSizes = {1}
    Sizes = {1, 2}
    IntSize = 1
    Calls = {"create", "release", "send", "condSend", "receive", "condReceive", "waitDevice",
             "quit", "zap", "interrupt"}
    Careful = TRUE
SYMMETRY ProcSymmetry
VIEW LiveState
INVARIANTS TypeOK NoNeedlessWait
PROPERTY DeliversInOrder
