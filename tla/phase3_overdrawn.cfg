SPECIFICATION MCSpec
CONSTANTS
    p1 = p1
    p2 = p2
    p3 = p3
    Procs = {p1, p2, p3}
    NULL = NULL
    MAXSEMS = 2
    MaxMutexes = 2
    Values = {0, 1}
    MaxCount = 1
    Takers <- MCTakers
    Root = p1
    Funcs = {f, g}
    Priorities = {1, 2}
    MaxSpawns = 1
    JoinsFirst = TRUE
    Pagers = {g1, g2}
    PagesOf <- MCPagesOf
    frames = 2
    blocks = 2
CHECK_DEADLOCK FALSE
INVARIANTS
    NeverOverdrawn
