SPECIFICATION Spec
CONSTANTS
    page = page
    m1 = m1
    NoChild = NoChild
    NoOwner = NoOwner
    Types = {page}
    Slots = {p1, p2}
    Manuals = {m1}
    Guards <- PageGuard
    Consumes <- PageOnly
    MaxJobs <- OneJob
    MaxRestarts = 1
    AbortLimit = 2
    LeaseTicks = 2
    MaxBoots = 1
    MaxFaults = 0
SYMMETRY SlotSymmetry
INVARIANTS
    NoDualRun
