SPECIFICATION Spec
CONSTANTS
    Workers = {w1}
    Categories = {text, visual}
    RetryCap = 1
    RetryIds = {}
    MaxAnalyses = 2
    MaxFaults = 0
    MaxCrashes = 0
SYMMETRY CategorySymmetry
INVARIANTS
    TypeOK
    CompletedMeansDone
    RetriesBounded
PROPERTIES
    CronsKeepClosed
CHECK_DEADLOCK FALSE
