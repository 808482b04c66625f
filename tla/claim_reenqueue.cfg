SPECIFICATION Spec
CONSTANTS
    Calls = {c1, c2}
    Canonical = Canonical
    Nobody = Nobody
    Incumbents = {"waiting"}
    MaxFaults = 0
SYMMETRY CallSymmetry
INVARIANTS
    ReEnqueuedIsAdded
CHECK_DEADLOCK FALSE
