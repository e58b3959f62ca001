SPECIFICATION Spec
CONSTANT None = None
INVARIANTS
    TypeOK
    RowsHaveFiles
    AnswersAreCommitted
    ExecutedOnce
    LimitsAreKept
    CompleteMeansGone
    CommitsAreFenced
PROPERTIES
    CompletionIsFinal
    DeletionsAreExact
    
CHECK_DEADLOCK FALSE
