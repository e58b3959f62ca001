SPECIFICATION Spec
CONSTANTS
    None = None
    NoFile = NoFile
    NoSlot = NoSlot
PROPERTIES
    RequestsEnd
    TasksSettle
    
CHECK_DEADLOCK FALSE
