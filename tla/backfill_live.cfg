SPECIFICATION FairSpec
CONSTANTS
    Workers = {w1}
    Categories = {text}
    RetryCap = 1
    RetryIds = {}
    MaxAnalyses = 1
    MaxFaults = 1
    MaxCrashes = 1
PROPERTIES
    Settles
CHECK_DEADLOCK FALSE
