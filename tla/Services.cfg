CONSTANTS
    r1 = r1
    r2 = r2
    r3 = r3
    m1 = m1
    m2 = m2
    m3 = m3
    h1 = h1
    h2 = h2
    h3 = h3
    u1 = u1
    u2 = u2
    u3 = u3
    e1 = e1
    e2 = e2
    c1 = c1
    g1 = g1
    g2 = g2
    d1 = d1
    NoRequest = NoRequest
    Requests = {r1, r2}
    Clients = {r1, r2}
    Emails = {e1, e2}
    Ids = {u1, u2, u3}
    Companies = {c1}
    Times = {1, 2}
    LastSequence = 3
    LastReport = 1
    Documents = {d1}
    BatchLimit = 2
    NoPayload = 0
    s1 = s1
    Consignments = {s1}
    Callers = {r1, r2}
    MaxTime = 3
    Editors = {r3}
    Servers = {r1, r2}
    Donors = {e1}
    DonationIds = {g1, g2}
    Baskets <- Brought
    Meters = {m1, m2, m3}
    References = {h1, h2, h3}
    Ends = {0, 1}
    Forever = 3
    MaxRevisions = 3
    MaxSnapshots = 1
SPECIFICATION ServicesSpec
SYMMETRY Interchangeable
INVARIANTS
    AcceptedInOrder
    AcknowledgedIsStored
    
    
    AdminRemains
    RewardsMatchDonations
PROPERTIES
    ImplementsLedger
    
    DisabledStays
    StatusMovesForward
CHECK_DEADLOCK FALSE
