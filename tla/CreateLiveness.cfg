CONSTANTS
    None = None
    Requests = {r1, r2}
    Keys = {k1, bad}
    Refused = {bad}
    LockTTL = 3
    WaitTime = 2
    CacheTTL = 4
    MaxHold = 1
    Faults = {"read", "lock", "lockReply", "save", "saveReply", "release", "releaseReply",
              "db", "ack", "cancel", "crash"}
SPECIFICATION FairSpec
INVARIANTS
    AnswersAreTasks
PROPERTIES
    Answered
    LocksExpire
CHECK_DEADLOCK FALSE
