SPECIFICATION Spec
CONSTANTS
    Connections = {c1, c2}
    Requests = {r1, r2}
    MaxArrivals = 3
    Products = {p1, p2}
    Documents = {d1, d2}
    Codes = {a, b}
    CodeOf <- MCCodeOf
    c1 = c1
    c2 = c2
    r1 = r1
    r2 = r2
    d1 = d1
    d2 = d2
    p1 = p1
    p2 = p2
    a = a
    b = b
INVARIANTS ScoreMatchesAlone DoneReportIsStored
PROPERTIES ShipmentPerPublication
SYMMETRY Symmetry
CHECK_DEADLOCK FALSE
