CONSTANTS
    m1 = m1
    m2 = m2
    i1 = i1
    i2 = i2
    N <- Workers
    Msg <- Msgs
    Reg <- Regs
    Itcp <- Itcps
    None = None
SPECIFICATION FairSpec
INVARIANTS
    TypeOK
    WorkersCopyWhenQuiet
    HandledAlike
    RegisteredIsKnown
    InterceptedFromTheStart
PROPERTIES
    CallsReturn
CHECK_DEADLOCK FALSE
