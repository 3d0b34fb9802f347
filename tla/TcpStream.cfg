CONSTANTS
    Ends <- FourPdus
    MaxJunk = 2
SPECIFICATION Spec
INVARIANTS
    TypeOK
    HandledInOrder
    NoneKept
PROPERTIES
    StreamSpec
CHECK_DEADLOCK FALSE
