CONSTANTS
    Requests = {r1, r2, r3, r4}
    Keys = {k1}
    TTL = 3
    Threshold = 2
SPECIFICATION FairSpec
INVARIANTS
    TypeOK
    CountIsWindow
    FewGetThrough
PROPERTIES
    CountersExpire
    ChecksEnd
CHECK_DEADLOCK FALSE
