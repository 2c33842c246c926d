SPECIFICATION Spec
CONSTANTS
    Sessions = {s1, s2}
    NoSession = NoSession
    Names = {t1, t2}
    EmptyTarget = EmptyTarget
    FwdTarget = t1
    Conns = {c1}
    NoConn = NoConn
    MaxId = 1
    MaxChunks = 1
SYMMETRY Symmetry
INVARIANTS
    IInv
    OneWriter
    RegistryHonest
    WriteFence
PROPERTIES
    RemovedByOwner
CHECK_DEADLOCK FALSE
