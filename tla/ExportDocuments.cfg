SPECIFICATION Spec
CONSTANTS
    c1 = c1
    c2 = c2
    o1 = o1
    r1 = r1
    r2 = r2
    Documents <- MCDocuments
    CarrierFiles <- MCCarrierFiles
    OriginFiles <- MCOriginFiles
    FirstCarrier = c1
    Requests <- MCRequests
    MaxEdits = 1
    MaxDocuments = 3
    MaxFiles = 2
    MaxReviews = 3
    MaxEvents = 1
SYMMETRY Symmetry
INVARIANTS PayloadIsCurrent IssuedAsApproved EventsNameIssued
CHECK_DEADLOCK FALSE
