SPECIFICATION Spec
CONSTANTS
    Procs = {p1, p2, p3}
    NULL = NULL
    MAXMBOX = 3
    MAXSLOTS = 1
    Devices = 1
    Ticks = 2
    Capacities = {0}
    SlotSizes = {1}
    Sizes = {1}
    IntSize = 1
    Calls = {"create", "send", "receive"}
    Careful = FALSE
SYMMETRY ProcSymmetry
PROPERTY FromIndicatedMailbox
