SPECIFICATION Spec
CONSTANTS
    d1 = d1
    d2 = d2
    r1 = r1
    r2 = r2
    Documents <- MCDocuments
    Requests <- MCRequests
    ValidTo <- MCValidTo
    Windows <- MCWindows
    MaxRows = 3
    MaxCalculations = 2
    MaxEvents = 1
    LastDay = 3
SYMMETRY Symmetry
INVARIANTS NumberIsNext OutboundWasReleased WithdrawnWasApproved
PROPERTY ShownAsEvaluated
CHECK_DEADLOCK FALSE
