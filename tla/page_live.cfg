SPECIFICATION FairSpec
CONSTANTS
    page = page
    m1 = m1
    NoChild = NoChild
    NoOwner = NoOwner
    Types = {page}
    Slots = {p1}
    Manuals = {m1}
    Guards <- PageGuard
    Consumes <- PageOnly
    MaxJobs <- OneJob
    MaxRestarts = 2
    AbortLimit = 2
    LeaseTicks = 2
    MaxBoots = 2
    MaxFaults = 1
PROPERTIES
    LockTakenOnlyOnExpiry
    ExitIsAnswered
    ShutdownCompletes
    LeftLocksExpire
