SPECIFICATION Spec
CONSTANTS
    p1 = p1
    p2 = p2
    l1 = l1
    l2 = l2
    k1 = k1
    NONE = NONE
    Procs <- MCProcs
    Labels <- MCLabels
    Algs <- MCAlgs
    KeyFiles <- MCKeyFiles
    Requests <- MCRequests
    Locking = TRUE
    MaxRuns = 5
INVARIANTS
    TypeOK
    UsesLatestKey
    NewKeyIsLoadable
    AtMostTwoMade
    ListIsExact
CHECK_DEADLOCK FALSE
