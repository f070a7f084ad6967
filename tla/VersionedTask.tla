---------------------------- MODULE VersionedTask ----------------------------
(***************************************************************************)
(* What the task service promises about stored tasks, without requests,    *)
(* copies, races or faults: a task is a versioned row with an audit log.   *)
(* Every change is one atomic step that writes the row, raises its version *)
(* by one and appends the one entry that describes the change.             *)
(***************************************************************************)
EXTENDS TaskData

VARIABLES task, logs

vars == <<task, logs>>

Init == /\ task = [t \in Tasks |-> FirstRow(t)]
        /\ logs = [t \in Tasks |-> <<CreateEntry(t)>>]

(* The columns in which two rows differ name the kind of an edit.          *)
Changed(old, new) == {f \in {"status", "assignee", "details"} : old[f] # new[f]}

KindOfEdit(changed) == CASE changed = {"status"}   -> "STATUS_UPDATE"
                         [] changed = {"assignee"} -> "ASSIGN"
                         [] OTHER                  -> "UPDATE"

(* The audit entry of an edit: from and to of what changed, and no more.   *)
EditEntry(actor, old, new) ==
    LET changed == Changed(old, new)
        If(f, value) == IF f \in changed THEN value ELSE None
    IN  [action |-> KindOfEdit(changed), actor |-> actor,
         fromStatus   |-> If("status", old.status),
         toStatus     |-> If("status", new.status),
         fromAssignee |-> If("assignee", old.assignee),
         toAssignee   |-> If("assignee", new.assignee)]

Write(t, new, entry) ==
    /\ ~task[t].deleted
    /\ task' = [task EXCEPT ![t] = new]
    /\ logs' = [logs EXCEPT ![t] = Append(@, entry)]

Edit(t, actor) ==
    \E s \in Statuses, d \in Details,
       a \in Members(OwnerTeam(t)) \cup {task[t].assignee} :
        LET new == [task[t] EXCEPT !.status = s, !.assignee = a, !.details = d,
                                   !.version = @ + 1]
        IN  Write(t, new, EditEntry(actor, task[t], new))

(* Assigning records the assignee before and after, even the same one.     *)
Reassign(t, actor) ==
    \E a \in Members(OwnerTeam(t)) :
        Write(t, [task[t] EXCEPT !.assignee = a, !.version = @ + 1],
              [action |-> "ASSIGN", actor |-> actor,
               fromStatus |-> None, toStatus |-> None,
               fromAssignee |-> task[t].assignee, toAssignee |-> a])

(***************************************************************************)
(* A deletion keeps the row's content and version, and records the status  *)
(* and the assignee that the task had together at one of its versions, not *)
(* necessarily the last.  A deletion that was under way when another took  *)
(* effect is recorded as well.                                             *)
(***************************************************************************)
Delete(t, actor) ==
    \E k \in 1..task[t].version, s \in Statuses, a \in Users \cup {None} :
        /\ StatusIs(logs[t], k, s)
        /\ AssigneeIs(logs[t], k, a)
        /\ task' = [task EXCEPT ![t].deleted = TRUE]
        /\ logs' = [logs EXCEPT ![t] = Append(@,
                      [action |-> "DELETE", actor |-> actor,
                       fromStatus |-> s, toStatus |-> None,
                       fromAssignee |-> a, toAssignee |-> None])]

(* Only members of the task's team act on it.                              *)
Next == \E t \in Tasks : \E actor \in Members(OwnerTeam(t)) :
            Edit(t, actor) \/ Reassign(t, actor) \/ Delete(t, actor)

Spec == Init /\ [][Next]_vars
=============================================================================
