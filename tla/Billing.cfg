CONSTANTS
    s1 = s1
    s2 = s2
    r1 = r1
    r2 = r2
    NoSession = NoSession
    Sessions = {s1, s2}
    Requests = {r1, r2}
    Packages = {20}
    LegacySku = 35
    InitialPlans = {"trial", "legacy"}
SPECIFICATION Spec
SYMMETRY Interchangeable
INVARIANTS
    GrantedOnce
    
CHECK_DEADLOCK FALSE
