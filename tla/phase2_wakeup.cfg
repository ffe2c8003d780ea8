SPECIFICATION Spec
CONSTANTS
    Procs = {p1, p2}
    NULL = NULL
    MAXMBOX = 2
    MAXSLOTS = 1
    Devices = 2
    Ticks = 2
    Capacities = {0, 1}
    SlotSizes = {1}
    Sizes = {1}
    IntSize = 1
    Calls = {"waitDevice", "zap", "interrupt"}
    Careful = TRUE
PROPERTY WakesWhenDeviceSends
