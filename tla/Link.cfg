CONSTANTS
    h1 = h1
    h2 = h2
    h3 = h3
    n1 = n1
    n2 = n2
    NoTrans = NoTrans
    Dial <- ThreeDial
    Accept <- TwoAccept
    MaxTid <- LastTid
    MaxConn = 2
    MaxBegun = 3
    MaxPosted = 1
SYMMETRY Symmetry
SPECIFICATION MCSpec
INVARIANTS
    TypeOK
    DialerGetsOwnAnswer
    AcceptorGetsOwnOrEarlierAnswer
    AnswerSettlesOrIsUnderWay
PROPERTY
    CallSpec
CHECK_DEADLOCK FALSE
