SPECIFICATION Spec
CONSTANTS
    p1 = p1
    p2 = p2
    i1 = i1
    i2 = i2
    kEmpty = kEmpty
    k1 = k1
    NONE = NONE
    Procs <- MCProcs
    Lockers <- MCProcs
    Ids <- MCIds
    Labels <- MCLabels
    EmptyLabel = kEmpty
    Commands <- DocCommands
    Scripts <- DocScripts
    MaxRuns = 3
INVARIANTS
    NoneByIdOrLabel
CHECK_DEADLOCK FALSE
