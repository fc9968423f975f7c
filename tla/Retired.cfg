CONSTANTS
    p1 = p1
    p2 = p2
    r1 = r1
    r2 = r2
    d1 = d1
    d2 = d2
    w1 = w1
    w2 = w2
    u1 = u1
    u2 = u2
    x1 = x1
    a = a
    b = b
    e1 = e1
    Documents = {e1}
    Suppliers = {"mill"}
    Hazards = {"heat"}
    Scenarios = {"historical", "projection"}
    Percents = {40, 60}
    Scores = {20, 80}
    Models <- Known
    Ledger <- Surveyed
    MaxRows = 17
    NoOne = NoOne
    Nothing = Nothing
    Served = {"security"}
    Products = {p1, p2}
    Requests = {r1, r2}
    Versions = {1, 2}
    Workers = {w1, w2}
    Callers = {r1, r2}
    Users = {u1, u2}
    Shares = {x1}
    Names = {a, b}
    MaxDownloads = 1
    AttemptsLimit = 3
    MaxTime = 4
    Quantities = {1}
    Shipments = {d1, d2}
    Clients = {r1, r2}
    Tokens = {1, 2, 3}
    MaxRevisions = 3
    MaxWrites = 4
SPECIFICATION RecordsSpec
SYMMETRY Interchangeable
INVARIANT RetiredStaysRetired
CHECK_DEADLOCK FALSE
