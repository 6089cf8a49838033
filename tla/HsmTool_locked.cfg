SPECIFICATION Spec
CONSTANTS
    p1 = p1
    p2 = p2
    i1 = i1
    i2 = i2
    kEmpty = kEmpty
    k1 = k1
    NONE = NONE
    Procs <- MCProcs
    Lockers <- MCProcs
    Ids <- MCIds
    Labels <- MCLabels
    EmptyLabel = kEmpty
    Commands <- LockedCommands
    Scripts <- LockedScripts
    MaxRuns = 4
INVARIANTS
    TypeOK
    MutualExclusion
    NamesOneKey
    FoundIsCurrent
    NameStaysFree
    FreshKeyIsUsed
PROPERTIES
    ImplementsTokenStore
CHECK_DEADLOCK FALSE
