---------------------------- MODULE MCTaskService ----------------------------
(***************************************************************************)
(* A small instance of TaskService: one task of team A, created by u1 and  *)
(* assigned to nobody; members u1 and u2, a user v1 of team B and an       *)
(* identifier that belongs to no user.                                     *)
(***************************************************************************)
EXTENDS TaskService, TLC, FiniteSets

CONSTANTS t1, u1, u2, v1, ghost, A, B, todo, doing, plain, edited, nil, blank

MCTasks == {t1}
MCUsers == {u1, u2, v1}
MCUserIds == {u1, u2, v1, ghost}
MCTeams == {A, B}
MCTeamOf == u1 :> A @@ u2 :> A @@ v1 :> B
MCStatuses == {todo, doing}
MCDetails == {plain, edited}
MCCreator == t1 :> u1
MCCreated == t1 :> [status |-> todo, assignee |-> nil, details |-> plain]

Bare(op, user) == [op |-> op, actor |-> user, task |-> t1, version |-> 0,
                   status |-> nil, assignee |-> nil, details |-> nil]
Get(user) == Bare("get", user)
Del(user) == Bare("delete", user)
Upd(user, v, s, a, d) == [Bare("update", user) EXCEPT !.version = v, !.status = s,
                                                      !.assignee = a, !.details = d]
Asg(user, v, a) == [Bare("assign", user) EXCEPT !.version = v, !.assignee = a]

(* Changes of one column, of all, of none; versions 0, 1 and 2; assignees  *)
(* of the team, of another team and unknown; callers of both teams.        *)
MCCalls ==
    {Get(u1), Get(v1), Del(u1), Del(u2), Del(v1),
     Upd(u1, 1, doing, nil, nil), Upd(u2, 1, doing, u1, edited), Upd(u1, 1, blank, nil, nil),
     Upd(u1, 2, todo, nil, nil), Upd(u2, 2, nil, u2, nil), Upd(u1, 0, doing, nil, nil),
     Upd(u1, 1, nil, nil, nil),
     Asg(u2, 1, u2), Asg(u1, 2, u1), Asg(u1, 1, v1), Asg(u1, 1, ghost), Asg(v1, 1, v1),
     Asg(u1, 1, nil)}

RequestSymmetry == Permutations(Requests)
=============================================================================
