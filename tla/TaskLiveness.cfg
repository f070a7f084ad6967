CONSTANTS
    t1 = t1
    u1 = u1
    u2 = u2
    A = A
    todo = todo
    doing = doing
    plain = plain
    nil = nil
    blank = blank
    None = nil
    Blank = blank
    Tasks <- MCTasks
    Users <- MCUsers
    UserIds <- MCUsers
    Teams <- MCTeams
    TeamOf <- MCTeamOf
    Statuses <- MCStatuses
    Details <- MCDetails
    Creator <- MCCreator
    Created <- MCCreated
    Calls <- MCCalls
    Requests = {r1, r2, r3}
    Faults = {"db"}
    MaxOpenConn = 3
    MaxTime = 0
SPECIFICATION TxFairSpec
PROPERTIES
    TxAnswered
    AssignmentsAnnounced
CHECK_DEADLOCK FALSE
