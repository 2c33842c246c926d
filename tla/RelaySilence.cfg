SPECIFICATION Spec
CONSTANTS
    Streams = {i1}
    MaxBytes <- BothWrite1
PROPERTIES
    SilentAfterClose
CHECK_DEADLOCK FALSE
