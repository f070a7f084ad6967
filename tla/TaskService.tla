----------------------------- MODULE TaskService -----------------------------
(***************************************************************************)
(* The four operations on an existing task (GetTaskByID, UpdateTask,       *)
(* AssignTask, DeleteTask), as concurrently running HTTP handlers of one   *)
(* server process over one database.  The tasks are there from the start,  *)
(* as CreateTask inserted them.                                            *)
(*                                                                         *)
(* Every statement a handler sends to the database outside a transaction   *)
(* is a step of its own, and so is every transaction: between two of them  *)
(* any other handler may run.  A transaction is atomic (it runs at READ    *)
(* COMMITTED, and its first statement locks the only row it depends on).   *)
(* "Faults" says what may go wrong: "db" a failing query or transaction,   *)
(* which a cancelled request causes as well; "ack" a commit that succeeds  *)
(* while its acknowledgement is lost; "crash" the end of the process.      *)
(***************************************************************************)
EXTENDS TaskData

CONSTANTS Requests, Calls, Faults

Ops == {"get", "update", "assign", "delete"}

(* A request body after JSON binding; fields an operation lacks are None,  *)
(* and a missing version is 0, Go's zero value.                            *)
Call == [op : Ops, actor : Users, task : Tasks, version : Nat,
         status : Statuses \cup {None, Blank},
         assignee : UserIds \cup {None}, details : Details \cup {None}]

ASSUME CallsAssumption == Calls \subseteq Call
ASSUME FaultsAssumption == Faults \subseteq {"db", "ack", "crash"}

VARIABLES
    task,    \* tasks table: the row of every task
    logs,    \* task_logs table: the entries of every task, oldest first
    pc,      \* per request: the next statement of its handler
    call,    \* per request: what was asked
    copy,    \* per request: the row as the handler read it
    reply,   \* per request: the response
    notify,  \* requests whose notification goroutine has not run yet
    sent     \* notifications sent

db == <<task, logs>>
vars == <<task, logs, pc, call, copy, reply, notify, sent>>

InFlight == {"find", "assignee", "commit", "logs"}
Codes == {"ok", "badRequest", "notFound", "stale", "notInTeam", "error", "lost"}

Init ==
    /\ task = [t \in Tasks |-> FirstRow(t)]
    /\ logs = [t \in Tasks |-> <<CreateEntry(t)>>]
    /\ pc = [r \in Requests |-> "idle"]
    /\ call = [r \in Requests |-> None]
    /\ copy = [r \in Requests |-> None]
    /\ reply = [r \in Requests |-> None]
    /\ notify = {}
    /\ sent = {}

Answer(r, code, row, log) ==
    /\ pc' = [pc EXCEPT ![r] = "done"]
    /\ reply' = [reply EXCEPT ![r] = [code |-> code, row |-> row, logs |-> log]]

Refuse(r, code) == Answer(r, code, None, <<>>)

-----------------------------------------------------------------------------
(* The controller: bind, validate, and call the service or answer 400.     *)

Valid(c) ==
    CASE c.op = "update" -> /\ c.version >= 1
                            /\ {c.status, c.assignee, c.details} # {None}
      [] c.op = "assign" -> c.version >= 1 /\ c.assignee # None
      [] OTHER           -> TRUE

Accept(r, c) ==
    /\ pc[r] = "idle"
    /\ Valid(c)
    /\ call' = [call EXCEPT ![r] = c]
    /\ pc' = [pc EXCEPT ![r] = "find"]
    /\ UNCHANGED <<db, copy, reply, notify, sent>>

Reject(r, c) ==
    /\ pc[r] = "idle"
    /\ ~Valid(c)
    /\ call' = [call EXCEPT ![r] = c]
    /\ Refuse(r, "badRequest")
    /\ UNCHANGED <<db, copy, notify, sent>>

-----------------------------------------------------------------------------
(* Every operation starts by reading the task's row; a deleted row is not  *)
(* found, and a row of another team is treated as if it were not there.    *)

(* Mutation: the team check of the lookup is forgotten.                    *)
VisibleToAll(user, t) == ~task[t].deleted

Visible(user, t) == ~task[t].deleted /\ OwnerTeam(t) = TeamOf[user]

Conditional(c) == c.op \in {"update", "assign"}

StepAfterFind(c) ==
    CASE c.op = "get"                          -> "logs"
      [] Conditional(c) /\ c.assignee # None   -> "assignee"
      [] OTHER                                 -> "commit"

FindNothing(r) ==
    /\ pc[r] = "find"
    /\ ~Visible(call[r].actor, call[r].task)
    /\ Refuse(r, "notFound")
    /\ UNCHANGED <<db, call, copy, notify, sent>>

FindStale(r) ==
    /\ pc[r] = "find"
    /\ Visible(call[r].actor, call[r].task)
    /\ Conditional(call[r]) /\ task[call[r].task].version # call[r].version
    /\ Refuse(r, "stale")
    /\ UNCHANGED <<db, call, copy, notify, sent>>

FindTask(r) ==
    /\ pc[r] = "find"
    /\ Visible(call[r].actor, call[r].task)
    /\ Conditional(call[r]) => task[call[r].task].version = call[r].version
    /\ copy' = [copy EXCEPT ![r] = task[call[r].task]]
    /\ pc' = [pc EXCEPT ![r] = StepAfterFind(call[r])]
    /\ UNCHANGED <<db, call, reply, notify, sent>>

(* Mutation: any assignee is accepted.                                     *)
AcceptAnyAssignee(r) ==
    /\ pc[r] = "assignee"
    /\ pc' = [pc EXCEPT ![r] = "commit"]
    /\ UNCHANGED <<db, call, copy, reply, notify, sent>>

(* A new assignee must exist and belong to the caller's team.              *)
AcceptAssignee(r) ==
    /\ pc[r] = "assignee"
    /\ call[r].assignee \in Members(TeamOf[call[r].actor])
    /\ pc' = [pc EXCEPT ![r] = "commit"]
    /\ UNCHANGED <<db, call, copy, reply, notify, sent>>

RefuseAssignee(r) ==
    /\ pc[r] = "assignee"
    /\ call[r].assignee \notin Members(TeamOf[call[r].actor])
    /\ Refuse(r, "notInTeam")
    /\ UNCHANGED <<db, call, copy, notify, sent>>

-----------------------------------------------------------------------------
(* The transactions.                                                       *)

(* Mutations: the version condition, or the soft-delete condition, is lost.*)
RowsById(t, v) == ~task[t].deleted
RowsByVersion(t, v) == task[t].version = v

(* UPDATE tasks ... WHERE id = t AND version = v AND deleted_at IS NULL    *)
RowsAffected(t, v) == task[t].version = v /\ ~task[t].deleted

(* A commit whose acknowledgement is lost is an error to the handler.      *)
CommitCodes == {"ok"} \cup (IF "ack" \in Faults THEN {"error"} ELSE {})

AnswerCommit(r, code, row) ==
    Answer(r, code, IF code = "ok" THEN row ELSE None, <<>>)

(* Mutation: the transaction forgets its audit entry.                      *)
RecordNothing(t, entry) == logs' = logs

Record(t, entry) == logs' = [logs EXCEPT ![t] = Append(@, entry)]

(* The handler's copy after the request's changes; a blank status and a    *)
(* field that is not given change nothing.                                 *)
Edited(old, c) ==
    [old EXCEPT !.status   = IF c.status \in {None, Blank} THEN @ ELSE c.status,
                !.assignee = IF c.assignee = None THEN @ ELSE c.assignee,
                !.details  = IF c.details = None THEN @ ELSE c.details,
                !.version  = c.version + 1]

(* Mutation: any change of status counts as a change of status alone.      *)
StatusFirst(statusChanged, assigneeChanged, detailsChanged) ==
    CASE statusChanged                                        -> "STATUS_UPDATE"
      [] assigneeChanged /\ ~statusChanged /\ ~detailsChanged -> "ASSIGN"
      [] OTHER                                                -> "UPDATE"

UpdateAction(statusChanged, assigneeChanged, detailsChanged) ==
    CASE statusChanged /\ ~assigneeChanged /\ ~detailsChanged -> "STATUS_UPDATE"
      [] assigneeChanged /\ ~statusChanged /\ ~detailsChanged -> "ASSIGN"
      [] OTHER                                                -> "UPDATE"

(* Mutation: the old status is looked at after it was overwritten.         *)
AliasedEntry(actor, old, new) ==
    LET statusChanged   == new.status # old.status
        assigneeChanged == new.assignee # old.assignee
    IN  [action |-> UpdateAction(statusChanged, assigneeChanged, new.details # old.details),
         actor |-> actor,
         fromStatus   |-> IF statusChanged THEN new.status ELSE None,
         toStatus     |-> IF statusChanged THEN new.status ELSE None,
         fromAssignee |-> IF assigneeChanged THEN old.assignee ELSE None,
         toAssignee   |-> IF assigneeChanged THEN new.assignee ELSE None]

UpdateEntry(actor, old, new) ==
    LET statusChanged   == new.status # old.status
        assigneeChanged == new.assignee # old.assignee
        detailsChanged  == new.details # old.details
    IN  [action |-> UpdateAction(statusChanged, assigneeChanged, detailsChanged),
         actor |-> actor,
         fromStatus   |-> IF statusChanged THEN old.status ELSE None,
         toStatus     |-> IF statusChanged THEN new.status ELSE None,
         fromAssignee |-> IF assigneeChanged THEN old.assignee ELSE None,
         toAssignee   |-> IF assigneeChanged THEN new.assignee ELSE None]

CommitUpdate(r) ==
    LET c   == call[r]
        new == Edited(copy[r], c)
    IN  /\ pc[r] = "commit" /\ c.op = "update"
        /\ RowsAffected(c.task, c.version)
        /\ task' = [task EXCEPT ![c.task].status = new.status,
                                ![c.task].assignee = new.assignee,
                                ![c.task].details = new.details,
                                ![c.task].version = new.version]
        /\ Record(c.task, UpdateEntry(c.actor, copy[r], new))
        /\ \E code \in CommitCodes : AnswerCommit(r, code, new)
        /\ UNCHANGED <<call, copy, notify, sent>>

(* Mutation: an assignment does not raise the version.                     *)
ReassignedSameVersion(old, c) == [old EXCEPT !.assignee = c.assignee]

Reassigned(old, c) ==
    [old EXCEPT !.assignee = c.assignee, !.version = c.version + 1]

AssignEntry(actor, old, new) ==
    [action |-> "ASSIGN", actor |-> actor, fromStatus |-> None, toStatus |-> None,
     fromAssignee |-> old.assignee, toAssignee |-> new.assignee]

(* Mutation: the goroutine is never started.                               *)
DispatchNothing(r, code) == notify' = notify

(* A goroutine is left behind, but only if the commit is acknowledged.     *)
Dispatch(r, code) == notify' = IF code = "ok" THEN notify \cup {r} ELSE notify

CommitAssign(r) ==
    LET c   == call[r]
        new == Reassigned(copy[r], c)
    IN  /\ pc[r] = "commit" /\ c.op = "assign"
        /\ RowsAffected(c.task, c.version)
        /\ task' = [task EXCEPT ![c.task].assignee = new.assignee,
                                ![c.task].version = new.version]
        /\ Record(c.task, AssignEntry(c.actor, copy[r], new))
        /\ \E code \in CommitCodes : AnswerCommit(r, code, new) /\ Dispatch(r, code)
        /\ UNCHANGED <<call, copy, sent>>

(* No row matched: the task moved on, or was deleted, since it was read.   *)
StaleCommit(r) ==
    /\ pc[r] = "commit" /\ Conditional(call[r])
    /\ ~RowsAffected(call[r].task, call[r].version)
    /\ Refuse(r, "stale")
    /\ UNCHANGED <<db, call, copy, notify, sent>>

(* Mutation: the deleting user is recorded as the assignee.                *)
DeleteEntryOfActor(actor, old) ==
    [action |-> "DELETE", actor |-> actor, fromStatus |-> old.status, toStatus |-> None,
     fromAssignee |-> actor, toAssignee |-> None]

DeleteEntry(actor, old) ==
    [action |-> "DELETE", actor |-> actor, fromStatus |-> old.status, toStatus |-> None,
     fromAssignee |-> old.assignee, toAssignee |-> None]

(* The deletion checks neither a version nor the number of rows it marked, *)
(* and its entry records the row as it was read.                           *)
CommitDelete(r) ==
    LET c == call[r]
    IN  /\ pc[r] = "commit" /\ c.op = "delete"
        /\ task' = [task EXCEPT ![c.task].deleted = TRUE]
        /\ Record(c.task, DeleteEntry(c.actor, copy[r]))
        /\ \E code \in CommitCodes : AnswerCommit(r, code, None)
        /\ UNCHANGED <<call, copy, notify, sent>>

-----------------------------------------------------------------------------
(* GetTaskByID reads the audit log with a second query, in no transaction. *)
ReadLogs(r) ==
    /\ pc[r] = "logs"
    /\ Answer(r, "ok", copy[r], logs[call[r].task])
    /\ UNCHANGED <<db, call, copy, notify, sent>>

(* The goroutine that AssignTask left behind.                              *)
SendTaskAssignedNotification(r) ==
    /\ r \in notify
    /\ notify' = notify \ {r}
    /\ sent' = sent \cup {[task |-> call[r].task, assignee |-> reply[r].row.assignee,
                           version |-> reply[r].row.version]}
    /\ UNCHANGED <<db, pc, call, copy, reply>>

(* A query fails, or a transaction is rolled back: 500, nothing written.   *)
DbFails(r) ==
    /\ "db" \in Faults
    /\ pc[r] \in InFlight
    /\ Refuse(r, "error")
    /\ UNCHANGED <<db, call, copy, notify, sent>>

(* The process ends: its handlers and its goroutines are gone.             *)
Crash ==
    /\ "crash" \in Faults
    /\ notify # {} \/ \E r \in Requests : pc[r] \in InFlight
    /\ pc' = [r \in Requests |-> IF pc[r] \in InFlight THEN "done" ELSE pc[r]]
    /\ reply' = [r \in Requests |-> IF pc[r] \in InFlight
                                    THEN [code |-> "lost", row |-> None, logs |-> <<>>]
                                    ELSE reply[r]]
    /\ notify' = {}
    /\ UNCHANGED <<db, call, copy, sent>>

Handle(r) ==
    \/ FindNothing(r) \/ FindStale(r) \/ FindTask(r)
    \/ AcceptAssignee(r) \/ RefuseAssignee(r)
    \/ CommitUpdate(r) \/ CommitAssign(r) \/ CommitDelete(r) \/ StaleCommit(r)
    \/ ReadLogs(r)

Next ==
    \/ \E r \in Requests, c \in Calls : Accept(r, c) \/ Reject(r, c)
    \/ \E r \in Requests : Handle(r) \/ DbFails(r) \/ SendTaskAssignedNotification(r)
    \/ Crash

Spec == Init /\ [][Next]_vars

-----------------------------------------------------------------------------
(* Properties.                                                             *)

Reading == {"assignee", "commit", "logs"}

(* Succeeded(r): the client was told 200.  Applied(r): and the request was *)
(* an update or an assignment.                                             *)
Succeeded(r) == pc[r] = "done" /\ reply[r].code = "ok"
Applied(r) == Succeeded(r) /\ Conditional(call[r])

Reply == [code : Codes, row : Row \cup {None}, logs : Seq(LogEntry)]

Notification == [task : Tasks, assignee : Users, version : Nat]

(* Every variable has the shape its comment gives it.                      *)
TypeOK ==
    /\ task \in [Tasks -> Row]
    /\ logs \in [Tasks -> Seq(LogEntry)]
    /\ pc \in [Requests -> InFlight \cup {"idle", "done"}]
    /\ call \in [Requests -> Call \cup {None}]
    /\ copy \in [Requests -> Row \cup {None}]
    /\ reply \in [Requests -> Reply \cup {None}]
    /\ notify \subseteq Requests
    /\ sent \subseteq Notification
    /\ \A r \in Requests :
          /\ pc[r] # "idle" => call[r] \in Calls
          /\ pc[r] \in Reading => copy[r] \in Row
          /\ pc[r] = "done" => reply[r] \in Reply

(* A handler's copy of a row is never ahead of the table, and a copy that  *)
(* carries the current version also carries the current content: comparing *)
(* versions (service lines 271 and 379, repository lines 81 and 105) is as *)
(* good as comparing rows.                                                 *)
FreshCopy ==
    \A r \in Requests : pc[r] \in Reading =>
        LET row == task[call[r].task]
        IN  /\ copy[r].version <= row.version
            /\ copy[r].version = row.version =>
                  \A f \in {"status", "assignee", "details"} : copy[r][f] = row[f]

(* Row and audit log never part: a task at version n has exactly n entries *)
(* for its creation and its changes, entries beyond that are deletions,    *)
(* and there are some exactly when the row is soft-deleted.                *)
AuditTrail ==
    \A t \in Tasks :
        /\ Len(logs[t]) >= task[t].version
        /\ \A i \in 1..Len(logs[t]) :
              logs[t][i].action = "DELETE" <=> i > task[t].version
        /\ task[t].deleted <=> Len(logs[t]) > task[t].version

(* Replaying the audit log yields the row: its last recorded status and    *)
(* assignee are the row's, and each change is recorded from the value that *)
(* the entries before it had left (service lines 347-354 and 405-406).     *)
AuditReplays ==
    \A t \in Tasks : LET log == logs[t] IN
        /\ StatusIs(log, Len(log), task[t].status)
        /\ AssigneeIs(log, Len(log), task[t].assignee)
        /\ \A i \in 2..task[t].version :
              /\ log[i].toStatus # None => StatusIs(log, i - 1, log[i].fromStatus)
              /\ log[i].toAssignee # None => AssigneeIs(log, i - 1, log[i].fromAssignee)

(* What a DELETE entry records is a consistent snapshot: the status and    *)
(* the assignee the task had together at one of its versions, even when    *)
(* updates overtook the deletion (service lines 187-188).                  *)
DeletionSnapshot ==
    \A t \in Tasks : \A i \in (task[t].version + 1)..Len(logs[t]) :
        \E k \in 1..task[t].version :
            /\ StatusIs(logs[t], k, logs[t][i].fromStatus)
            /\ AssigneeIs(logs[t], k, logs[t][i].fromAssignee)

(* No lost update: an acknowledged update or assignment made the version   *)
(* after the one its caller had seen, that version's audit entry is the    *)
(* caller's, and no two acknowledged requests made the same version.       *)
NoLostUpdate ==
    \A r \in Requests : Applied(r) =>
        LET t == call[r].task
            v == reply[r].row.version
        IN  /\ v = call[r].version + 1
            /\ v <= task[t].version
            /\ logs[t][v].actor = call[r].actor
            /\ \A other \in Requests \ {r} :
                  Applied(other) /\ call[other].task = t => reply[other].row.version # v

(* A row in a response was in the table: its status and assignee are what  *)
(* the audit log replays to at the version the response carries, although  *)
(* AssignTask answers with a row it has not written as a whole.            *)
ReplyWasCommitted ==
    \A r \in Requests : Succeeded(r) /\ call[r].op # "delete" =>
        LET row == reply[r].row
            log == logs[call[r].task]
        IN  StatusIs(log, row.version, row.status) /\ AssigneeIs(log, row.version, row.assignee)

(* The log that GetTaskByID returns with a row, read by a later query,     *)
(* accounts for every version up to the row's: it may say more than the    *)
(* row, never less.                                                        *)
DetailCoversVersion ==
    \A r \in Requests : Succeeded(r) /\ call[r].op = "get" =>
        /\ Len(reply[r].logs) >= reply[r].row.version
        /\ AssigneeIs(reply[r].logs, reply[r].row.version, reply[r].row.assignee)

(* Teams stay apart: only members act on a task and see it, and only       *)
(* members are ever assigned or told of an assignment.                     *)
TeamsApart ==
    /\ \A t \in Tasks : /\ task[t].assignee \in Members(OwnerTeam(t)) \cup {None}
                        /\ \A i \in 1..Len(logs[t]) : logs[t][i].actor \in Members(OwnerTeam(t))
    /\ \A r \in Requests : Succeeded(r) => TeamOf[call[r].actor] = OwnerTeam(call[r].task)
    /\ \A n \in sent : n.assignee \in Members(OwnerTeam(n.task))

(* A notification is about an assignment that was committed, with its      *)
(* audit entry, at the version the notification's task carries.            *)
NotificationMatchesCommit ==
    \A n \in sent : /\ n.version <= task[n.task].version
                    /\ logs[n.task][n.version].action = "ASSIGN"
                    /\ logs[n.task][n.version].toAssignee = n.assignee

(* A deleted task is never changed or restored, whoever had read it before *)
(* the deletion; only further deletions are recorded.                      *)
StaysDeleted ==
    \A t \in Tasks : task[t].deleted =>
        /\ task'[t] = task[t]
        /\ \A i \in (Len(logs[t]) + 1)..Len(logs'[t]) : logs'[t][i].action = "DELETE"

DeletedIsFinal == [][StaysDeleted]_vars

(* With every statement a step of its own, the handlers still implement    *)
(* the atomic operations of VersionedTask.                                 *)
Abstract == INSTANCE VersionedTask
ImplementsVersionedTask == Abstract!Spec

NotificationOf(r) == [task |-> call[r].task, assignee |-> reply[r].row.assignee,
                      version |-> reply[r].row.version]

(* Every acknowledged assignment is announced, as long as the process      *)
(* lives (service line 417).  TaskTx states the fairness it needs.         *)
AssignmentsAnnounced ==
    \A r \in Requests : (Applied(r) /\ call[r].op = "assign")
                            ~> (Applied(r) /\ NotificationOf(r) \in sent)

-----------------------------------------------------------------------------
(* A statement about the code that it does not keep.                       *)

(* "DeleteTask soft-deletes a task and records a DELETE audit log": one    *)
(* deletion, one DELETE entry.                                             *)
OneDeletion ==
    \A t \in Tasks : \A i, j \in 1..Len(logs[t]) :
        logs[t][i].action = "DELETE" /\ logs[t][j].action = "DELETE" => i = j
=============================================================================
