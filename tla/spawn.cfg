SPECIFICATION FairSpec
CONSTANTS
    Calls = {c1, c2}
    Ticks = {k1, k2, k3}
    Slots = {p1, p2}
    MaxAttempts = 3
    StrikeLimit = 2
INVARIANTS
    TypeOK
    OverrunUnderWay
PROPERTIES
    QuietAfterShutdown
    DeferralEnds
CHECK_DEADLOCK FALSE
