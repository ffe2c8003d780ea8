SPECIFICATION MCFairSpec
CONSTANTS
    p1 = p1
    p2 = p2
    p3 = p3
    Procs = {p1, p2, p3}
    NULL = NULL
    MAXSEMS = 2
    MaxMutexes = 2
    Values = {0, 1}
    MaxCount = 2
    Takers <- MCTakers
    Root = p1
    Funcs = {f, g}
    Priorities = {1, 2}
    MaxSpawns = 3
    JoinsFirst = TRUE
    Pagers = {g1, g2}
    PagesOf <- MCPagesOf
    frames = 2
    blocks = 2
CHECK_DEADLOCK FALSE
INVARIANTS
    Phases35TypeOK
    
    SleeperListed
    RunsItsFunction
    
    
    
    
PROPERTIES
    
    CallsReturn
    
