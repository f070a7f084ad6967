CONSTANTS
    t1 = t1
    u1 = u1
    u2 = u2
    v1 = v1
    ghost = ghost
    A = A
    B = B
    todo = todo
    doing = doing
    plain = plain
    edited = edited
    nil = nil
    blank = blank
    None = nil
    Blank = blank
    Tasks <- MCTasks
    Users <- MCUsers
    UserIds <- MCUserIds
    Teams <- MCTeams
    TeamOf <- MCTeamOf
    Statuses <- MCStatuses
    Details <- MCDetails
    Creator <- MCCreator
    Created <- MCCreated
    Calls <- MCCalls
    Requests = {r1, r2}
    Faults = {}
SPECIFICATION Spec
SYMMETRY RequestSymmetry
INVARIANTS
    OneDeletion
CHECK_DEADLOCK FALSE
