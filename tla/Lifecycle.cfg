CONSTANTS
    None = None
    Requests = {r1, r2}
    Called <- MCCalled
SPECIFICATION FairSpec
INVARIANTS
    TypeOK
    OrderlyExit
    AnswersAreLogged
    MissingAdapters
PROPERTIES
    StopsWhenTold
CHECK_DEADLOCK FALSE
