CONSTANTS
    None = None
    Requests = {r1, r2}
    Keys = {k1}
    Refused = {}
    LockTTL = 3
    WaitTime = 2
    CacheTTL = 4
    MaxHold = 1
    Faults = {"save"}
SPECIFICATION Spec
PROPERTIES
    OneRecordPerKey
CHECK_DEADLOCK FALSE
