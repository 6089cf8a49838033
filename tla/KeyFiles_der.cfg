SPECIFICATION Spec
CONSTANTS
    rsa = rsa
    p256 = p256
    ml44 = ml44
    ml87 = ml87
    slh128s = slh128s
    slh192s = slh192s
    shake128s = shake128s
    spx = spx
    f1 = f1
    NONE = NONE
    Pairs <- MCPairs
    Kind <- MCKind
    Foreign <- MCForeign
    Paths <- MCPaths
    MaxSteps = 4
INVARIANT ExportIsImportable
CHECK_DEADLOCK FALSE
