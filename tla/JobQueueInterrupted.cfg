CONSTANTS
    k1 = k1
    k2 = k2
    p1 = p1
    Keys = {k1, k2}
    Procs = {p1}
    NoProc = NoProc
    MaxAttempts = 2
    Concurrency = 1
    MaxIds = 1
    MaxStarts = 2
SPECIFICATION FairSpec
PROPERTIES
    InterruptedWorkIsRecovered
CHECK_DEADLOCK FALSE
