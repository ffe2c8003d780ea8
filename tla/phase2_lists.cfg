SPECIFICATION Spec
CONSTANTS
    Procs = {p1, p2, p3}
    NULL = NULL
    MAXMBOX = 3
    MAXSLOTS = 1
    Devices = 2
    Ticks = 1
    Capacities = {0, 1}
    SlotSizes = {1}
    Sizes = {1}
    IntSize = 1
    Calls = {"create", "release", "send", "receive", "waitDevice", "interrupt"}
    Careful = TRUE
SYMMETRY ProcSymmetry
VIEW LiveState
INVARIANTS BlockedIsListed
