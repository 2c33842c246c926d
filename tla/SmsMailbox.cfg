SPECIFICATION FairSpec
CONSTANTS
    Senders = {"alice", "BRAND"}
    Reachable = {"alice"}
    Texts = {"text", ""}
    MaxSms = 3
    MaxTs = 2
    MaxCrashes = 1
    MaxFailures = 1
    MaxBumps = 1
INVARIANTS
    TypeOK
    OnlyBlindStartReplays
    FreshOnly
    RepliesMatch
PROPERTIES
    WakeupNotLost
CHECK_DEADLOCK FALSE
