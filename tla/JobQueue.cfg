CONSTANTS
    k1 = k1
    p1 = p1
    p2 = p2
    Keys = {k1}
    Procs = {p1, p2}
    NoProc = NoProc
    MaxAttempts = 2
    Concurrency = 2
    MaxIds = 2
    MaxStarts = 3
SPECIFICATION Spec
SYMMETRY SymmetricProcs
INVARIANTS
    
    OverlapNeedsStaleLock
PROPERTIES
    ImplementsQueue
CHECK_DEADLOCK FALSE
