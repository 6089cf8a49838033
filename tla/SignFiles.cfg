SPECIFICATION Spec
CONSTANTS
    p1 = p1
    p2 = p2
    img = img
    digest = digest
    sigfile = sigfile
    NONE = NONE
    Prefix = Prefix
    a = a
    b = b
    z = z
    Procs <- MCProcs
    Locking = TRUE
    Image = img
    Files <- MCFiles
    Requests <- MCRequests
    HashLen = 2
    SigLen = 4
    MaxRuns = 3
INVARIANTS
    TypeOK
    SignedImageVerifies
    FailureLeavesImage
    RsaSignsHashes
    DomainsApart
CHECK_DEADLOCK FALSE
