SPECIFICATION FairSpec
CONSTANTS
    Streams = {i1}
    MaxBytes <- BothWrite2
INVARIANTS
    TypeOK
    InOrder
    GracefulEnd
PROPERTIES
    ImplementsPipe
    StreamEnds
CHECK_DEADLOCK FALSE
