CONSTANTS
    t1 = t1
    u1 = u1
    u2 = u2
    A = A
    todo = todo
    doing = doing
    plain = plain
    nil = nil
    blank = blank
    None = nil
    Blank = blank
    Tasks <- MCTasks
    Users <- MCUsers
    UserIds <- MCUsers
    Teams <- MCTeams
    TeamOf <- MCTeamOf
    Statuses <- MCStatuses
    Details <- MCDetails
    Creator <- MCCreator
    Created <- MCCreated
    Calls <- MCCalls
    Requests = {r1, r2, r3}
    Faults = {"db", "ack", "crash"}
    MaxOpenConn = 3
    MaxTime = 1
SPECIFICATION TxSpec
SYMMETRY RequestSymmetry
INVARIANTS
    TxTypeOK
    WritesStayValid
    VersionsInTimeOrder
PROPERTIES
    ImplementsTaskService
CHECK_DEADLOCK FALSE
