CONSTANTS
    Ends <- ThreePdus
    Short = 2
    MaxPayload = 4
    MaxFrame = 5
    MaxWire = 3
SPECIFICATION FairSpec
PROPERTIES
    SentIsHandled
CHECK_DEADLOCK FALSE
