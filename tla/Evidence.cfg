SPECIFICATION Spec
CONSTANTS
    d1 = d1
    d2 = d2
    file = file
    Documents <- MCDocuments
    File <- MCFile
    MaxAttempts <- MCMaxAttempts
    Given <- MCGiven
    Results <- MCResults
    References <- MCReferences
    MaxReviews = 2
    MaxCandidates = 2
 
PROPERTY ImplementsDocuments
CHECK_DEADLOCK FALSE
