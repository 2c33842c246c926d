SPECIFICATION FairSpec
CONSTANTS
    Sessions = {s1}
    NoSession = NoSession
    Names = {t1}
    EmptyTarget = EmptyTarget
    FwdTarget = t1
    Conns = {c1, c2}
    NoConn = NoConn
    MaxId = 2
    MaxChunks = 0
INVARIANTS
    IInv
    NoOrphanStream
    PumpErasesOwnEntry
PROPERTIES
    TeardownCompletes
    ForwarderReturns
    AutoCallStarts
CHECK_DEADLOCK FALSE
