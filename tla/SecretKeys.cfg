SPECIFICATION Spec
CONSTANTS
    p1 = p1
    l1 = l1
    l2 = l2
    wa = wa
    wr = wr
    k1 = k1
    k2 = k2
    vw = vw
    vr = vr
    vo = vo
    NONE = NONE
    Redacted = Redacted
    Procs <- MCProcs
    Labels <- MCLabels
    KeyFiles <- MCKeyFiles
    OldObjects <- MCOldObjects
    Requests <- MCRequests
    MaxRuns = 4
    MaxChanges = 1
INVARIANTS
    TypeOK
    NoUnaskedPlaintext
    ShowsNoSecret
    WrapsWhatMayLeave
    ImportsTheFile
CHECK_DEADLOCK FALSE
