CONSTANTS
    Rows = {x1, x2, x3}
    MaxTime = 3
    MaxInt = 15
    DefaultLimit = 1
    MaxLimit = 2
    Queries <- MCQueries
    Faults = {"db"}
SPECIFICATION Spec
SYMMETRY RowSymmetry
INVARIANTS
    TypeOK
    WalkMissesNothing
    PagesFitCount
CHECK_DEADLOCK FALSE
