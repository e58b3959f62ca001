SPECIFICATION Spec
CONSTANTS
    None = None
    NoFile = NoFile
    NoClaim = NoClaim
    x1 = x1
    x2 = x2
    a1 = a1
    a2 = a2
SYMMETRY Sym
INVARIANTS
    TypeOK
    TriggersAgree
    ClaimsWithinLimits
    
    GroupsAreReconciled
    TimingVerdictIsRight
    IntervalsAreExact
    NoChildLeft
    
PROPERTIES
    IssuesDriveWorkflow
    ClaimsHold
    DerivedIsKept
CHECK_DEADLOCK FALSE
