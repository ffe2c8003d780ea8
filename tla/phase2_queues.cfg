SPECIFICATION Spec
CONSTANTS
    Procs = {p1, p2, p3}
    NULL = NULL
    MAXMBOX = 2
    MAXSLOTS = 2
    Devices = 1
    Ticks = 1
    Capacities = {0, 2}
    SlotSizes = {2}
    Sizes = {1, 2}
    IntSize = 1
    Calls = {"create", "send", "receive", "condReceive"}
    Careful = TRUE
SYMMETRY ProcSymmetry
VIEW LiveState
INVARIANTS SlotsAccounted
PROPERTY DeliversInOrder
