SPECIFICATION Spec
CONSTANTS
    p1 = p1
    p2 = p2
    a1 = a1
    a2 = a2
    m1 = m1
    NONE = NONE
    Procs <- MCProcs
    Aliases <- MCAliases
    Messages <- MCMessages
    Requests <- MCRequests
    PageSize = 2
    MaxRuns = 3
    MaxChanges = 2
    MaxVersions = 3
INVARIANTS
    TypeOK
    UsesNewest
    SignsAsAsked
    VerdictIsRight
    ListIsComplete
SYMMETRY MCSymmetry
CHECK_DEADLOCK FALSE
