CONSTANTS
    None = None
    Requests = {r1, r2}
    Keys = {k1}
    Refused = {}
    LockTTL = 3
    WaitTime = 2
    CacheTTL = 4
    MaxHold = 1
    Faults = {"cancel"}
SPECIFICATION Spec
PROPERTIES
    ReleasedOnReturn
CHECK_DEADLOCK FALSE
