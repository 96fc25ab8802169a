CONSTANTS
    Requests = {r1, r2, r3, r4}
    Keys = {k1}
    TTL = 3
    Threshold = 3
SPECIFICATION Spec
INVARIANTS
    LoopsAreBlocked
SYMMETRY RequestSymmetry
CHECK_DEADLOCK FALSE
