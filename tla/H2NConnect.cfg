CONSTANTS
    a1 = a1
    a2 = a2
    s1 = s1
    s2 = s2
    s3 = s3
    App <- TwoApps
    Svc <- ThreeSvcs
    AppConnects = 3
SPECIFICATION FairSpec
INVARIANTS
    TypeOK
    AtMostOneSvc
    RegisteredOnce
    ReconnectsOnce
    ConnectionsDoNotMix
PROPERTIES
    CycleSpec
    AcceptedConnects
CHECK_DEADLOCK FALSE
