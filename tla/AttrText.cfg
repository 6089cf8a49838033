SPECIFICATION Spec
CONSTANTS
    NONE = NONE
    Others <- MCOthers
    KeyTypes <- MCKeyTypes
    Unknown <- MCUnknown
    Typed <- MCTyped
    MaxObjects = 3
INVARIANTS
    TypeOK
    FoundAsShown
    CopyIsExact
    NamesApart
CHECK_DEADLOCK FALSE
