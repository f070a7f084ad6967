------------------------------ MODULE TaskData ------------------------------
(***************************************************************************)
(* The data of the task service: users, teams, task rows and audit log     *)
(* entries.  Identifiers, statuses and texts are opaque values; a title    *)
(* and a description are one datum, "details", because the code treats     *)
(* them alike.  A pointer that may be nil is a value that may be None.     *)
(***************************************************************************)
EXTENDS Naturals, Sequences

CONSTANTS
    Tasks,      \* identifiers of the tasks that CreateTask inserted
    Users,      \* identifiers of registered users
    UserIds,    \* every user identifier a caller may name, known or not
    Teams,
    TeamOf,     \* the team of each user; no operation ever changes it
    Statuses,
    Details,
    Creator,    \* the user who created each task
    Created,    \* status, assignee and details each task was created with
    None,       \* a nil pointer: an omitted field, an unassigned task
    Blank       \* a status that is given but empty once trimmed

ASSUME UsersAssumption ==
    /\ Users \subseteq UserIds
    /\ TeamOf \in [Users -> Teams]
    /\ Creator \in [Tasks -> Users]

ASSUME SentinelAssumption ==
    /\ None \notin UserIds \cup Statuses \cup Details \cup {Blank}
    /\ Blank \notin Statuses

(* A user lookup: the row exists and its team is the given one.            *)
Members(team) == {u \in Users : TeamOf[u] = team}

(* tasks.team_id: the creator's team, written once (service line 107).     *)
OwnerTeam(t) == TeamOf[Creator[t]]

(* CreateTask accepts no assignee, or one of the creator's team.           *)
ASSUME CreatedAssumption ==
    Created \in [Tasks -> [status : Statuses, assignee : UserIds \cup {None},
                           details : Details]]
    /\ \A t \in Tasks : Created[t].assignee \in Members(OwnerTeam(t)) \cup {None}

Row == [status : Statuses, assignee : Users \cup {None}, details : Details,
        version : Nat, deleted : BOOLEAN]

Actions == {"CREATE", "UPDATE", "STATUS_UPDATE", "ASSIGN", "DELETE"}

LogEntry == [action : Actions, actor : Users,
             fromStatus : Statuses \cup {None}, toStatus : Statuses \cup {None},
             fromAssignee : Users \cup {None}, toAssignee : Users \cup {None}]

(* The row and the audit entry that CreateTask inserts together.           *)
FirstRow(t) == [status |-> Created[t].status, assignee |-> Created[t].assignee,
                details |-> Created[t].details, version |-> 1, deleted |-> FALSE]

CreateEntry(t) == [action |-> "CREATE", actor |-> Creator[t],
                   fromStatus |-> None, toStatus |-> Created[t].status,
                   fromAssignee |-> None, toAssignee |-> Created[t].assignee]

(***************************************************************************)
(* Reading the audit log back.  StatusIs(log, k, s): after the first k     *)
(* entries of the log the task has status s, because the last of them that *)
(* records a status recorded s.  AssigneeIs likewise; only the CREATE      *)
(* entry may record "nobody".                                              *)
(***************************************************************************)
StatusIs(log, k, s) ==
    \E i \in 1..k : /\ log[i].toStatus = s
                    /\ \A j \in (i + 1)..k : log[j].toStatus = None

AssigneeIs(log, k, a) ==
    \E i \in 1..k : /\ log[i].toAssignee = a
                    /\ i = 1 \/ a # None
                    /\ \A j \in (i + 1)..k : log[j].toAssignee = None
=============================================================================
