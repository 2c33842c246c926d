SPECIFICATION Spec
CONSTANTS
    Senders = {"alice", "BRAND"}
    Reachable = {"alice"}
    Texts = {"text"}
    MaxSms = 2
    MaxTs = 1
    MaxCrashes = 1
    MaxFailures = 1
    MaxBumps = 1
INVARIANTS
    NoRedelivery
CHECK_DEADLOCK FALSE
