------------------------------- MODULE MCTaskTx -------------------------------
(***************************************************************************)
(* A small instance of TaskTx: the task, the teams and the users of        *)
(* MCTaskService, and calls that meet in the same row.                     *)
(***************************************************************************)
EXTENDS TaskTx, TLC

CONSTANTS t1, u1, u2, A, todo, doing, plain, nil, blank

MCTasks == {t1}
MCUsers == {u1, u2}
MCTeams == {A}
MCTeamOf == u1 :> A @@ u2 :> A
MCStatuses == {todo, doing}
MCDetails == {plain}
MCCreator == t1 :> u1
MCCreated == t1 :> [status |-> todo, assignee |-> nil, details |-> plain]

Bare(op, user) == [op |-> op, actor |-> user, task |-> t1, version |-> 0,
                   status |-> nil, assignee |-> nil, details |-> nil]

(* Changes of version 1 and of version 2 that conflict with one another, a *)
(* call that no handler accepts, a reading and two deletions.              *)
MCCalls ==
    {Bare("get", u1), Bare("delete", u1), Bare("delete", u2),
     [Bare("update", u1) EXCEPT !.version = 1, !.status = doing],
     [Bare("update", u2) EXCEPT !.version = 2, !.status = todo],
     [Bare("update", u2) EXCEPT !.version = 1],
     [Bare("assign", u2) EXCEPT !.version = 1, !.assignee = u2]}

RequestSymmetry == Permutations(Requests)
=============================================================================
