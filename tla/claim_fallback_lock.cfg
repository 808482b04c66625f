SPECIFICATION Spec
CONSTANTS
    Workers = {w1}
    Nobody = Nobody
    LockTicks = 6
    RenewTicks = 4
    GrantTicks = 2
    TtlTicks = 2
    HeartbeatTicks = 2
    TimeoutTicks = 6
    Talkers = {}
    MaxTakes = 2
    MaxFaults = 0
    MaxCrashes = 0
PROPERTIES
    FallbackCompletes
CHECK_DEADLOCK FALSE
