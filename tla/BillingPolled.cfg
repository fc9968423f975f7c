CONSTANTS
    s1 = s1
    s2 = s2
    r1 = r1
    r2 = r2
    NoSession = NoSession
    Sessions = {s1}
    Requests = {r1, r2}
    Packages = {20, 50}
    LegacySku = 35
    InitialPlans = {"trial"}
SPECIFICATION Spec
INVARIANTS
    ConfirmedIsUpgraded
CHECK_DEADLOCK FALSE
