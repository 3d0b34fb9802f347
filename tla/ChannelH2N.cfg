CONSTANTS
    t1 = t1
    t2 = t2
    t3 = t3
    p1 = p1
    p2 = p2
    u1 = u1
    Proto = "tcp_h2n"
    Trans <- ThreeTrans
    Raw <- OneRaw
    NoTrans = NoTrans
    Pass = {}
    Uni = {}
    MaxTid <- LastTid
    TransTimeout = 1
    CheckPeriod = 1
SPECIFICATION FairSpec
INVARIANTS
    TypeOK
    TableFollowsCounter
    LostOnlyAfterWrap
    PendingOnCurrentConnection
PROPERTIES
    LifecycleSpec
    EveryBeginEndsUnlessWrapped
CHECK_DEADLOCK FALSE
