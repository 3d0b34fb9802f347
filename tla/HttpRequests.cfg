CONSTANTS
    u1 = u1
    Requests <- ThreeRequests
    MaxCalls <- FourCalls
    Push <- OnePush
SPECIFICATION Spec
INVARIANTS
    TypeOK
    AnswersInOrder
    AnswerLostOnlyWithConnection
CHECK_DEADLOCK FALSE
