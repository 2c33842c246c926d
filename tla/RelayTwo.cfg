SPECIFICATION Spec
CONSTANTS
    Streams = {i1, i2}
    MaxBytes <- ServerWrites1
SYMMETRY StreamSymmetry
INVARIANTS
    GracefulEnd
CHECK_DEADLOCK FALSE
