CONSTANTS
    Ends <- ThreePdus
    Short = 2
    MaxPayload = 4
    MaxFrame = 5
    MaxWire = 3
SPECIFICATION FairSpec
INVARIANTS
    TypeOK
    HandledInOrder
    Accounted
PROPERTIES
    StreamSpec
    TidySentIsHandled
CHECK_DEADLOCK FALSE
