SPECIFICATION Spec
CONSTANTS
    Calls = {c1, c2}
    Canonical = Canonical
    Nobody = Nobody
    Incumbents = {"ended"}
    MaxFaults = 0
SYMMETRY CallSymmetry
INVARIANTS
    RetentionHitRetried
CHECK_DEADLOCK FALSE
