SPECIFICATION FairSpec
CONSTANTS
    Calls = {c1, c2}
    Canonical = Canonical
    Nobody = Nobody
    Incumbents = {"none", "waiting", "active", "ended"}
    MaxFaults = 2
INVARIANTS
    TypeOK
    NoRequestLost
    OneJobPerCall
    
PROPERTIES
    ClaimReleasedByOwner
    ClaimFreed
    CallsAnswered
CHECK_DEADLOCK FALSE
