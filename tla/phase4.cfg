SPECIFICATION MCSpec
CONSTANTS
    p1 = p1
    p2 = p2
    p3 = p3
    NULL = NULL
    Procs = {p1, p2, p3}
    Seconds = {1, 2}
    Horizon = 2
    IntMax = 2
    TrackOf <- MCTrackOf
    Asks <- MCAsks
    TrackSize = 2
    Tracks = 3
    MaxFaults = 1
    MaxUnits = 2
    TerminalUsers = {p1, p2}
    Keys <- MCKeys
    MaxLine = 2
    MaxLines = 1
    Lengths = {2}
    MaxLinesWritten = 2
CHECK_DEADLOCK FALSE
INVARIANTS
    Phase4TypeOK
    NeverEarly
    ScanOrder
    ServedWhole
    NoIdleDriver
    InputKept
    CountIsOwn
    OutputWhole
    WriterWillHear
PROPERTIES
    NobodyOversleeps
    SleepersWake
    RequestsAnswered
