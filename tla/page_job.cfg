SPECIFICATION FairSpec
CONSTANTS
    Jobs = {j1, j2}
    Workers = {w1, w2}
    Free = Free
    Stale = Stale
    NoJob = NoJob
    MaxFaults = 1
    MaxCrowd = 3
INVARIANTS
    TypeOK
    CompletedMeansStored
    RunOwnsJob
    NeverFailedUnrun
PROPERTIES
    JobsEnd
CHECK_DEADLOCK FALSE
