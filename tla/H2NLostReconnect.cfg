CONSTANTS
    a1 = a1
    a2 = a2
    s1 = s1
    s2 = s2
    s3 = s3
    App <- OneApp
    Svc <- TwoSvcs
    AppConnects = 1
SPECIFICATION FairSpec
PROPERTIES
    RefusedMeansTrying
CHECK_DEADLOCK FALSE
