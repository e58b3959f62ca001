SPECIFICATION Spec
CONSTANTS
    Stages <- WholeChain
    MaxChanges = 0
    ReadersLag = FALSE
    DeadlineAnywhere = TRUE
INVARIANTS
    NoChildLeft
CHECK_DEADLOCK FALSE
