CONSTANTS
    k1 = k1
    p1 = p1
    p2 = p2
    Keys = {k1}
    Procs = {p1, p2}
    NoProc = NoProc
    MaxAttempts = 2
    Concurrency = 1
    MaxIds = 1
    MaxStarts = 2
    ManualReports = {k1}
    PatchTargets = {"processing", "failed"}
SPECIFICATION FairReportSpec
INVARIANTS
    
    ReadyHasFile

    
CHECK_DEADLOCK FALSE
