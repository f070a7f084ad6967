CONSTANTS
    None = None
    Requests = {r1, r2}
    Keys = {k1}
    Refused = {}
    LockTTL = 2
    WaitTime = 1
    CacheTTL = 3
    MaxHold = 2
    Faults = {}
SPECIFICATION Spec
PROPERTIES
    OneRecordPerKey
CHECK_DEADLOCK FALSE
