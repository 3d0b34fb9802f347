CONSTANTS
    t1 = t1
    t2 = t2
    t3 = t3
    p1 = p1
    p2 = p2
    u1 = u1
    Proto = "tcp_n2h"
    Trans <- OneTrans
    Raw = {}
    NoTrans = NoTrans
    Pass <- TwoPass
    Uni <- OneUni
    MaxTid <- LastTid
    TransTimeout = 1
    CheckPeriod = 1
SPECIFICATION FairSpec
INVARIANTS
    ReplyLostOnlyWithConnection
PROPERTIES
    PendingOnLiveEnds
CHECK_DEADLOCK FALSE
