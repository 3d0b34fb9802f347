CONSTANTS
    a1 = a1
    a2 = a2
    s1 = s1
    s2 = s2
    s3 = s3
    App <- OneApp
    Svc <- TwoSvcs
    AppConnects = 2
SPECIFICATION Spec
SYMMETRY Symmetry
INVARIANTS
    OneConnection
CHECK_DEADLOCK FALSE
