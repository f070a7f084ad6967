CONSTANTS
    None = None
    Requests = {r1, r2, r3}
    Keys = {k1, bad}
    Refused = {bad}
    LockTTL = 5
    WaitTime = 4
    CacheTTL = 10
    MaxHold = 2
    Faults = {"lock", "lockReply", "saveReply", "release", "db"}
SPECIFICATION Spec
SYMMETRY RequestSymmetry
INVARIANTS
    TypeOK
    DuplicatesServed
    MutualExclusion
PROPERTIES
    OneRecordPerKey
    SameAnswer
CHECK_DEADLOCK FALSE
