SPECIFICATION FairSpec
CONSTANTS
    Workers = {w1, w2}
    Nobody = Nobody
    LockTicks = 4
    RenewTicks = 4
    GrantTicks = 2
    TtlTicks = 1
    HeartbeatTicks = 1
    TimeoutTicks = 2
    Talkers = {w1}
    MaxTakes = 2
    MaxFaults = 1
    MaxCrashes = 1
INVARIANTS
    TypeOK
    FallbackAlone
    NoCoveredTwins
    DoneHeard
PROPERTIES
    JobLockOutlasts
    RunsEnd
CHECK_DEADLOCK FALSE
