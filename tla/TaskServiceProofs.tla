--------------------------- MODULE TaskServiceProofs ---------------------------
(***************************************************************************)
(* Proofs about TaskService, for every value of its constants: any number  *)
(* of tasks, users, teams and concurrent requests, and every combination   *)
(* of faults.                                                              *)
(***************************************************************************)
EXTENDS TaskService, TLAPS

(* Types of what the operators of the model return.                        *)

(* A user found by its identifier in a team is a user.                     *)
LEMMA MembersAreUsers == \A team : Members(team) \subseteq Users
  BY DEF Members

(* CreateTask inserts a well-formed row and a well-formed audit entry.     *)
LEMMA CreatedTypes ==
    ASSUME NEW t \in Tasks
    PROVE  FirstRow(t) \in Row /\ CreateEntry(t) \in LogEntry
  <1>1. Created[t] \in [status : Statuses, assignee : UserIds \cup {None}, details : Details]
    BY CreatedAssumption
  <1>2. Created[t].assignee \in Users \cup {None}
    BY CreatedAssumption, MembersAreUsers
  <1>3. Creator[t] \in Users
    BY UsersAssumption
  <1> QED
    BY <1>1, <1>2, <1>3 DEF FirstRow, CreateEntry, Row, LogEntry, Actions

(* What a handler knows about itself at each statement: its call passed    *)
(* validation; the row it holds is a live row of the caller's team, at the *)
(* version the call names if it names one; and the assignee it is about to *)
(* write was found in that team.                                           *)
HandlerInv ==
    \A r \in Requests :
        /\ pc[r] \in InFlight => Valid(call[r])
        /\ pc[r] \in Reading =>
              /\ OwnerTeam(call[r].task) = TeamOf[call[r].actor]
              /\ ~copy[r].deleted
              /\ Conditional(call[r]) => copy[r].version = call[r].version
        /\ pc[r] = "assignee" => Conditional(call[r])
        /\ pc[r] = "logs" => call[r].op = "get"
        /\ pc[r] = "commit" /\ Conditional(call[r]) /\ call[r].assignee # None =>
              call[r].assignee \in Members(TeamOf[call[r].actor])
        /\ r \in notify => Applied(r) /\ reply[r].row \in Row /\ reply[r].row.assignee \in Users

Typed == TypeOK /\ HandlerInv

LEMMA InitTyped == Init => Typed
  <1> SUFFICES ASSUME Init PROVE Typed
    OBVIOUS
  <1>1. TypeOK
    BY CreatedTypes DEF Init, TypeOK, InFlight, Reading
  <1>2. HandlerInv
    BY DEF Init, HandlerInv, InFlight, Reading
  <1> QED
    BY <1>1, <1>2 DEF Typed

(* A step that only moves one handler on, or answers.                      *)
LEMMA AcceptTyped ==
    ASSUME Typed, NEW r \in Requests, NEW c \in Calls, Accept(r, c)
    PROVE  Typed'
  <1>1. TypeOK'
    BY CallsAssumption DEF Typed, TypeOK, Accept, db, InFlight, Reading, Call
  <1>2. HandlerInv'
    BY DEF Typed, TypeOK, HandlerInv, Accept, db, InFlight, Reading, Applied, Succeeded
  <1> QED
    BY <1>1, <1>2 DEF Typed

LEMMA RefuseTyped ==
    ASSUME Typed, NEW r \in Requests, NEW code \in Codes, pc[r] \in InFlight,
           Refuse(r, code), UNCHANGED <<db, call, copy, notify, sent>>
    PROVE  Typed'
  <1>1. [code |-> code, row |-> None, logs |-> <<>>] \in Reply
    BY DEF Reply
  <1>2. TypeOK'
    BY <1>1 DEF Typed, TypeOK, Refuse, Answer, db, InFlight, Reading
  <1>3. HandlerInv'
    BY DEF Typed, TypeOK, HandlerInv, Refuse, Answer, db, InFlight, Reading, Applied, Succeeded
  <1> QED
    BY <1>2, <1>3 DEF Typed

LEMMA FindTaskTyped ==
    ASSUME Typed, NEW r \in Requests, FindTask(r)
    PROVE  Typed'
  <1>1. call[r] \in Call
    BY CallsAssumption DEF Typed, TypeOK, FindTask
  <1>2. task[call[r].task] \in Row
    BY <1>1 DEF Typed, TypeOK, Call
  <1>3. StepAfterFind(call[r]) \in {"logs", "assignee", "commit"}
    BY DEF StepAfterFind
  <1>4. TypeOK'
    BY <1>1, <1>2, <1>3 DEF Typed, TypeOK, FindTask, db, InFlight, Reading
  <1>5. HandlerInv'
    BY <1>1, <1>2 DEF Typed, TypeOK, HandlerInv, FindTask, StepAfterFind, Visible,
       Conditional, Call, Ops, db, InFlight, Reading, Applied, Succeeded
  <1> QED
    BY <1>4, <1>5 DEF Typed

LEMMA AcceptAssigneeTyped ==
    ASSUME Typed, NEW r \in Requests, AcceptAssignee(r)
    PROVE  Typed'
  <1>1. TypeOK'
    BY DEF Typed, TypeOK, AcceptAssignee, db, InFlight, Reading
  <1>2. HandlerInv'
    BY DEF Typed, TypeOK, HandlerInv, AcceptAssignee, db, InFlight, Reading, Applied, Succeeded
  <1> QED
    BY <1>1, <1>2 DEF Typed

LEMMA ReadLogsTyped ==
    ASSUME Typed, NEW r \in Requests, ReadLogs(r)
    PROVE  Typed'
  <1>1. [code |-> "ok", row |-> copy[r], logs |-> logs[call[r].task]] \in Reply
    BY CallsAssumption DEF Typed, TypeOK, ReadLogs, Reading, Reply, Call, Codes
  <1>2. TypeOK'
    BY <1>1 DEF Typed, TypeOK, ReadLogs, Answer, db, InFlight, Reading
  <1>3. HandlerInv'
    BY DEF Typed, TypeOK, HandlerInv, ReadLogs, Answer, db, InFlight, Reading, Applied,
       Succeeded, Conditional
  <1> QED
    BY <1>2, <1>3 DEF Typed

LEMMA NotificationTyped ==
    ASSUME Typed, NEW r \in Requests, SendTaskAssignedNotification(r)
    PROVE  Typed'
  <1>1. /\ call[r] \in Call
        /\ reply[r].row \in Row /\ reply[r].row.assignee \in Users
    BY CallsAssumption DEF Typed, TypeOK, HandlerInv, SendTaskAssignedNotification, Applied,
       Succeeded
  <1>2. [task |-> call[r].task, assignee |-> reply[r].row.assignee,
         version |-> reply[r].row.version] \in Notification
    BY <1>1 DEF Notification, Call, Row
  <1>3. TypeOK'
    BY <1>2 DEF Typed, TypeOK, SendTaskAssignedNotification, db
  <1>4. HandlerInv'
    BY DEF Typed, TypeOK, HandlerInv, SendTaskAssignedNotification, db, Applied, Succeeded
  <1> QED
    BY <1>3, <1>4 DEF Typed

LEMMA CrashTyped ==
    ASSUME Typed, Crash
    PROVE  Typed'
  <1>1. [code |-> "lost", row |-> None, logs |-> <<>>] \in Reply
    BY DEF Reply, Codes
  <1>2. TypeOK'
    BY <1>1 DEF Typed, TypeOK, Crash, db, InFlight, Reading
  <1>3. HandlerInv'
    BY DEF Typed, TypeOK, HandlerInv, Crash, db, InFlight, Reading
  <1> QED
    BY <1>2, <1>3 DEF Typed

(* A commit: one row is replaced, one entry appended, and the request      *)
(* answered with a row or with an error.                                   *)
LEMMA EditedType ==
    ASSUME NEW c \in Call, NEW old \in Row,
           c.assignee # None => c.assignee \in Users
    PROVE  /\ Edited(old, c) \in Row
           /\ Edited(old, c).version = c.version + 1
           /\ Edited(old, c).deleted = old.deleted
  <1> DEFINE s == IF c.status \in {None, Blank} THEN old.status ELSE c.status
             a == IF c.assignee = None THEN old.assignee ELSE c.assignee
             d == IF c.details = None THEN old.details ELSE c.details
             v == c.version + 1
  <1>1. s \in Statuses
    BY DEF Row, Call
  <1>2. a \in Users \cup {None}
    BY DEF Row, Call
  <1>3. d \in Details
    BY DEF Row, Call
  <1>4. v \in Nat
    BY DEF Row, Call
  <1>5. Edited(old, c) = [old EXCEPT !.status = s, !.assignee = a, !.details = d,
                                     !.version = v]
    BY Zenon DEF Edited
  <1> HIDE DEF s, a, d, v
  <1>6. /\ Edited(old, c) \in Row
        /\ Edited(old, c).version = v
        /\ Edited(old, c).deleted = old.deleted
    BY <1>1, <1>2, <1>3, <1>4, <1>5 DEF Row
  <1> QED
    BY <1>6 DEF v

LEMMA UpdateEntryType ==
    ASSUME NEW actor \in Users, NEW old \in Row, NEW new \in Row
    PROVE  /\ UpdateEntry(actor, old, new) \in LogEntry
           /\ UpdateEntry(actor, old, new).action # "DELETE"
  <1>1. UpdateAction(new.status # old.status, new.assignee # old.assignee,
                     new.details # old.details) \in Actions \ {"DELETE"}
    BY DEF UpdateAction, Actions
  <1> QED
    BY <1>1 DEF UpdateEntry, LogEntry, Row

LEMMA AnswerCommitType ==
    ASSUME NEW code \in CommitCodes, NEW row \in Row \cup {None}
    PROVE  [code |-> code, row |-> IF code = "ok" THEN row ELSE None, logs |-> <<>>] \in Reply
  BY DEF CommitCodes, Codes, Reply

LEMMA RecordType ==
    ASSUME Typed, NEW t \in Tasks, NEW entry \in LogEntry, Record(t, entry)
    PROVE  logs' \in [Tasks -> Seq(LogEntry)]
  BY DEF Typed, TypeOK, Record

LEMMA CommitUpdateTyped ==
    ASSUME Typed, NEW r \in Requests, CommitUpdate(r)
    PROVE  Typed'
  <1> DEFINE c   == call[r]
             new == Edited(copy[r], c)
  <1>1. c \in Call /\ copy[r] \in Row
    BY CallsAssumption DEF Typed, TypeOK, CommitUpdate, Reading
  <1>2. c.assignee # None => c.assignee \in Users
    BY MembersAreUsers DEF Typed, HandlerInv, CommitUpdate, Conditional
  <1>3. new \in Row
    BY <1>1, <1>2, EditedType
  <1>4. c.task \in Tasks /\ c.actor \in Users /\ task[c.task] \in Row
    BY <1>1 DEF Call, Typed, TypeOK
  <1>5. task' \in [Tasks -> Row]
    BY <1>3, <1>4 DEF Typed, TypeOK, CommitUpdate, Row
  <1>6. logs' \in [Tasks -> Seq(LogEntry)]
    BY <1>1, <1>3, <1>4, UpdateEntryType, RecordType DEF CommitUpdate
  <1>7. PICK code \in CommitCodes : AnswerCommit(r, code, new)
    BY DEF CommitUpdate
  <1>8. [code |-> code, row |-> IF code = "ok" THEN new ELSE None, logs |-> <<>>] \in Reply
    BY <1>3, AnswerCommitType
  <1>9. TypeOK'
    BY <1>5, <1>6, <1>7, <1>8 DEF Typed, TypeOK, CommitUpdate, AnswerCommit, Answer, InFlight,
       Reading
  <1>10. HandlerInv'
    BY <1>7 DEF Typed, TypeOK, HandlerInv, CommitUpdate, AnswerCommit, Answer, InFlight, Reading,
       Applied, Succeeded
  <1> QED
    BY <1>9, <1>10 DEF Typed

LEMMA CommitAssignTyped ==
    ASSUME Typed, NEW r \in Requests, CommitAssign(r)
    PROVE  Typed'
  <1> DEFINE c     == call[r]
             new   == [copy[r] EXCEPT !.assignee = c.assignee, !.version = c.version + 1]
             entry == [action |-> "ASSIGN", actor |-> c.actor,
                       fromStatus |-> None, toStatus |-> None,
                       fromAssignee |-> copy[r].assignee, toAssignee |-> new.assignee]
  <1>1. c \in Call /\ copy[r] \in Row
    BY CallsAssumption DEF Typed, TypeOK, CommitAssign, Reading
  <1>2. c.assignee \in Users
    BY MembersAreUsers DEF Typed, HandlerInv, CommitAssign, Conditional, Valid, InFlight
  <1>3. new \in Row /\ new.assignee \in Users
    <2> DEFINE a == c.assignee
               v == c.version + 1
    <2>1. a \in Users /\ v \in Nat /\ copy[r] \in Row
      BY <1>1, <1>2 DEF Call
    <2>2. new = [copy[r] EXCEPT !.assignee = a, !.version = v]
      OBVIOUS
    <2> HIDE DEF a, v, new
    <2> QED
      BY <2>1, <2>2 DEF Row
  <1>4. c.task \in Tasks /\ c.actor \in Users /\ task[c.task] \in Row
    BY <1>1 DEF Call, Typed, TypeOK
  <1>5. task' \in [Tasks -> Row]
    BY <1>3, <1>4 DEF Typed, TypeOK, CommitAssign, Row, Reassigned
  <1>6. entry \in LogEntry
    BY <1>1, <1>3, <1>4 DEF LogEntry, Actions, Row
  <1>7. logs' \in [Tasks -> Seq(LogEntry)]
    BY <1>4, <1>6, RecordType DEF CommitAssign, Reassigned, AssignEntry
  <1>8. PICK code \in CommitCodes :
            /\ AnswerCommit(r, code, new)
            /\ notify' = IF code = "ok" THEN notify \cup {r} ELSE notify
    BY DEF CommitAssign, Dispatch, Reassigned
  <1>9. [code |-> code, row |-> IF code = "ok" THEN new ELSE None, logs |-> <<>>] \in Reply
    BY <1>3, AnswerCommitType
  <1>10. TypeOK'
    BY <1>5, <1>7, <1>8, <1>9 DEF Typed, TypeOK, CommitAssign, AnswerCommit, Answer, InFlight,
       Reading
  <1>11. HandlerInv'
    <2> DEFINE answer == [code |-> code, row |-> IF code = "ok" THEN new ELSE None,
                          logs |-> <<>>]
    <2>1. /\ pc' = [pc EXCEPT ![r] = "done"] /\ reply' = [reply EXCEPT ![r] = answer]
          /\ call' = call /\ copy' = copy
          /\ pc[r] = "commit" /\ call[r].op = "assign"
      BY <1>8 DEF CommitAssign, AnswerCommit, Answer
    <2>2. answer.code = "ok" => answer.row \in Row /\ answer.row.assignee \in Users
      BY <1>3
    <2> HIDE DEF answer
    <2>3. /\ notify' = IF code = "ok" THEN notify \cup {r} ELSE notify
          /\ answer.code = code /\ r \notin notify
      BY <1>8, <2>1 DEF answer, Typed, HandlerInv, Applied, Succeeded
    <2>4. ASSUME NEW q \in Requests, q \in notify'
          PROVE  Applied(q)' /\ reply'[q].row \in Row /\ reply'[q].row.assignee \in Users
      BY <2>1, <2>2, <2>3, <2>4 DEF Typed, TypeOK, HandlerInv, Applied, Succeeded, Conditional
    <2> QED
      BY <2>1, <2>4 DEF Typed, TypeOK, HandlerInv, InFlight, Reading
  <1> QED
    BY <1>10, <1>11 DEF Typed

LEMMA CommitDeleteTyped ==
    ASSUME Typed, NEW r \in Requests, CommitDelete(r)
    PROVE  Typed'
  <1> DEFINE c     == call[r]
             entry == [action |-> "DELETE", actor |-> c.actor,
                       fromStatus |-> copy[r].status, toStatus |-> None,
                       fromAssignee |-> copy[r].assignee, toAssignee |-> None]
  <1>1. c \in Call /\ copy[r] \in Row
    BY CallsAssumption DEF Typed, TypeOK, CommitDelete, Reading
  <1>2. c.task \in Tasks /\ c.actor \in Users /\ task[c.task] \in Row
    BY <1>1 DEF Call, Typed, TypeOK
  <1>3. task' \in [Tasks -> Row]
    BY <1>2 DEF Typed, TypeOK, CommitDelete, Row
  <1>4. entry \in LogEntry
    BY <1>1, <1>2 DEF LogEntry, Actions, Row
  <1>5. logs' \in [Tasks -> Seq(LogEntry)]
    BY <1>2, <1>4, RecordType DEF CommitDelete, DeleteEntry
  <1>6. PICK code \in CommitCodes : AnswerCommit(r, code, None)
    BY DEF CommitDelete
  <1>7. [code |-> code, row |-> IF code = "ok" THEN None ELSE None, logs |-> <<>>] \in Reply
    BY AnswerCommitType
  <1>8. TypeOK'
    BY <1>3, <1>5, <1>6, <1>7 DEF Typed, TypeOK, CommitDelete, AnswerCommit, Answer, InFlight,
       Reading
  <1>9. HandlerInv'
    BY <1>6 DEF Typed, TypeOK, HandlerInv, CommitDelete, AnswerCommit, Answer, InFlight, Reading,
       Applied, Succeeded
  <1> QED
    BY <1>8, <1>9 DEF Typed

(* Every step keeps types and handler knowledge.                           *)
LEMMA TypedStep == Typed /\ [Next]_vars => Typed'
  <1> SUFFICES ASSUME Typed, [Next]_vars PROVE Typed'
    OBVIOUS
  <1>1. ASSUME NEW r \in Requests, NEW c \in Calls, Reject(r, c)
        PROVE  Typed'
    <2>1. [code |-> "badRequest", row |-> None, logs |-> <<>>] \in Reply
      BY DEF Reply, Codes
    <2>2. TypeOK'
      BY <1>1, <2>1, CallsAssumption DEF Typed, TypeOK, Reject, Refuse, Answer, db, InFlight,
         Reading
    <2>3. HandlerInv'
      BY <1>1 DEF Typed, TypeOK, HandlerInv, Reject, Refuse, Answer, db, InFlight, Reading,
         Applied, Succeeded
    <2> QED
      BY <2>2, <2>3 DEF Typed
  <1>2. ASSUME NEW r \in Requests,
               FindNothing(r) \/ FindStale(r) \/ RefuseAssignee(r) \/ StaleCommit(r) \/ DbFails(r)
        PROVE  Typed'
    BY <1>2, RefuseTyped DEF FindNothing, FindStale, RefuseAssignee, StaleCommit, DbFails,
       InFlight, Codes
  <1>3. CASE UNCHANGED vars
    BY <1>3 DEF vars, db, Typed, TypeOK, HandlerInv, Applied, Succeeded
  <1> QED
    BY <1>1, <1>2, <1>3, AcceptTyped, FindTaskTyped, AcceptAssigneeTyped, ReadLogsTyped,
       NotificationTyped, CrashTyped, CommitUpdateTyped, CommitAssignTyped, CommitDeleteTyped
       DEF Next, Handle

(* Type correctness: every reachable state is well-typed, whatever the     *)
(* requests and faults.                                                    *)
THEOREM TypeCorrect == Spec => []TypeOK
  <1>1. Typed => TypeOK
    BY DEF Typed
  <1> QED
    BY InitTyped, TypedStep, <1>1, PTL DEF Spec

-----------------------------------------------------------------------------
(* Replaying a log to which an entry is appended.                          *)

LEMMA RowEquality ==
    ASSUME NEW x \in Row, NEW y \in Row, x.status = y.status, x.assignee = y.assignee,
           x.details = y.details, x.version = y.version, x.deleted = y.deleted
    PROVE  x = y
  BY DEF Row

LEMMA AppendFacts ==
    ASSUME NEW log \in Seq(LogEntry), NEW e \in LogEntry
    PROVE  /\ Append(log, e) \in Seq(LogEntry)
           /\ Len(Append(log, e)) = Len(log) + 1
           /\ Append(log, e)[Len(log) + 1] = e
           /\ \A i \in 1..Len(log) : Append(log, e)[i] = log[i]
  OBVIOUS

LEMMA StatusKept ==
    ASSUME NEW log \in Seq(LogEntry), NEW e \in LogEntry, NEW k \in Nat, k <= Len(log),
           NEW s, StatusIs(log, k, s)
    PROVE  StatusIs(Append(log, e), k, s)
  BY AppendFacts DEF StatusIs

LEMMA AssigneeKept ==
    ASSUME NEW log \in Seq(LogEntry), NEW e \in LogEntry, NEW k \in Nat, k <= Len(log),
           NEW a, AssigneeIs(log, k, a)
    PROVE  AssigneeIs(Append(log, e), k, a)
  BY AppendFacts DEF AssigneeIs

LEMMA StatusAppended ==
    ASSUME NEW log \in Seq(LogEntry), NEW e \in LogEntry, NEW old, NEW new,
           StatusIs(log, Len(log), old),
           e.toStatus = new \/ (e.toStatus = None /\ new = old)
    PROVE  StatusIs(Append(log, e), Len(log) + 1, new)
  <1>1. CASE e.toStatus = new
    BY <1>1, AppendFacts DEF StatusIs
  <1>2. CASE e.toStatus = None /\ new = old
    <2>1. PICK i \in 1..Len(log) : /\ log[i].toStatus = old
                                   /\ \A j \in (i + 1)..Len(log) : log[j].toStatus = None
      BY DEF StatusIs
    <2>2. \A j \in (i + 1)..(Len(log) + 1) : Append(log, e)[j].toStatus = None
      BY <1>2, <2>1, AppendFacts
    <2> QED
      BY <1>2, <2>1, <2>2, AppendFacts DEF StatusIs
  <1> QED
    BY <1>1, <1>2

LEMMA AssigneeAppended ==
    ASSUME NEW log \in Seq(LogEntry), NEW e \in LogEntry, NEW old, NEW new,
           AssigneeIs(log, Len(log), old),
           (e.toAssignee = new /\ new # None) \/ (e.toAssignee = None /\ new = old)
    PROVE  AssigneeIs(Append(log, e), Len(log) + 1, new)
  <1>1. CASE e.toAssignee = new /\ new # None
    BY <1>1, AppendFacts DEF AssigneeIs
  <1>2. CASE e.toAssignee = None /\ new = old
    <2>1. PICK i \in 1..Len(log) : /\ log[i].toAssignee = old
                                   /\ i = 1 \/ old # None
                                   /\ \A j \in (i + 1)..Len(log) : log[j].toAssignee = None
      BY DEF AssigneeIs
    <2>2. \A j \in (i + 1)..(Len(log) + 1) : Append(log, e)[j].toAssignee = None
      BY <1>2, <2>1, AppendFacts
    <2> QED
      BY <1>2, <2>1, <2>2, AppendFacts DEF AssigneeIs
  <1> QED
    BY <1>1, <1>2

-----------------------------------------------------------------------------
(* What the three transactions do to the database.                         *)

(* The inductive invariant of the database and of the handlers' copies:    *)
(* a copy is what the audit log replays to at the copy's version.          *)
CopyWasCommitted ==
    \A r \in Requests : pc[r] \in Reading =>
        /\ copy[r].version >= 1
        /\ StatusIs(logs[call[r].task], copy[r].version, copy[r].status)
        /\ AssigneeIs(logs[call[r].task], copy[r].version, copy[r].assignee)

RowWasCommitted ==
    \A t \in Tasks : /\ task[t].version >= 1
                     /\ StatusIs(logs[t], Len(logs[t]), task[t].status)
                     /\ AssigneeIs(logs[t], Len(logs[t]), task[t].assignee)

Core == FreshCopy /\ AuditTrail /\ CopyWasCommitted /\ RowWasCommitted

IInv == Typed /\ Core

(* A conditional transaction that finds its row finds it as its handler    *)
(* read it.                                                                *)
LEMMA CopyIsCurrent ==
    ASSUME Typed, FreshCopy, NEW r \in Requests, pc[r] = "commit", Conditional(call[r]),
           RowsAffected(call[r].task, call[r].version)
    PROVE  copy[r] = task[call[r].task] /\ ~copy[r].deleted
  <1>1. call[r] \in Call /\ copy[r] \in Row
    BY CallsAssumption DEF Typed, TypeOK, Reading
  <1>2. task[call[r].task] \in Row
    BY <1>1 DEF Typed, TypeOK, Call
  <1>3. /\ copy[r].version = task[call[r].task].version
        /\ ~copy[r].deleted /\ ~task[call[r].task].deleted
    BY DEF Typed, HandlerInv, Reading, RowsAffected
  <1>4. /\ copy[r].status = task[call[r].task].status
        /\ copy[r].assignee = task[call[r].task].assignee
        /\ copy[r].details = task[call[r].task].details
    BY <1>3 DEF FreshCopy, Reading
  <1>5. copy[r].deleted = task[call[r].task].deleted
    BY <1>1, <1>2, <1>3 DEF Row
  <1> QED
    BY <1>1, <1>2, <1>3, <1>4, <1>5, RowEquality

(* One row written under the version check, one entry appended.            *)
WriteEffect(t, new, entry) ==
    /\ ~task[t].deleted /\ ~new.deleted
    /\ new \in Row /\ new.version = task[t].version + 1
    /\ entry \in LogEntry /\ entry.action # "DELETE"
    /\ \/ entry.toStatus = new.status
       \/ entry.toStatus = None /\ new.status = task[t].status
    /\ \/ entry.toAssignee = new.assignee /\ new.assignee # None
       \/ entry.toAssignee = None /\ new.assignee = task[t].assignee
    /\ task' = [task EXCEPT ![t] = new]
    /\ logs' = [logs EXCEPT ![t] = Append(@, entry)]

LEMMA EditedFields ==
    ASSUME NEW c \in Call, NEW old \in Row,
           c.assignee # None => c.assignee \in Users
    PROVE  /\ Edited(old, c).status \in {old.status, c.status}
           /\ Edited(old, c).assignee # old.assignee => Edited(old, c).assignee # None
  BY DEF Edited, Row, Call

LEMMA UpdateEffect ==
    ASSUME Typed, FreshCopy, NEW r \in Requests, CommitUpdate(r)
    PROVE  LET t == call[r].task
               new == Edited(copy[r], call[r])
           IN  /\ t \in Tasks /\ copy[r] = task[t]
               /\ WriteEffect(t, new, UpdateEntry(call[r].actor, task[t], new))
  <1> DEFINE c   == call[r]
             t   == c.task
             new == Edited(copy[r], c)
             entry == UpdateEntry(c.actor, copy[r], new)
  <1>1. c \in Call /\ copy[r] \in Row /\ t \in Tasks /\ c.actor \in Users
    BY CallsAssumption DEF Typed, TypeOK, CommitUpdate, Reading, Call
  <1>2. c.assignee # None => c.assignee \in Users
    BY MembersAreUsers DEF Typed, HandlerInv, CommitUpdate, Conditional
  <1>3. copy[r] = task[t] /\ ~copy[r].deleted
    BY CopyIsCurrent DEF CommitUpdate, Conditional
  <1>4. new \in Row /\ new.version = c.version + 1 /\ ~new.deleted
    BY <1>1, <1>2, <1>3, EditedType
  <1>5. task[t].version = c.version
    BY DEF CommitUpdate, RowsAffected
  <1>6. entry \in LogEntry /\ entry.action # "DELETE"
    BY <1>1, <1>4, UpdateEntryType
  <1>7. /\ \/ entry.toStatus = new.status
           \/ entry.toStatus = None /\ new.status = copy[r].status
        /\ \/ entry.toAssignee = new.assignee /\ new.assignee # None
           \/ entry.toAssignee = None /\ new.assignee = copy[r].assignee
    <2>1. new.assignee # copy[r].assignee => new.assignee # None
      BY <1>1, <1>2, EditedFields
    <2> HIDE DEF new
    <2> QED
      BY <2>1 DEF UpdateEntry
  <1>8. task' = [task EXCEPT ![t] = new]
    <2> DEFINE row == task'[t]
    <2>1. task' \in [Tasks -> Row]
      BY CommitUpdateTyped DEF Typed, TypeOK
    <2>2. /\ row.status = new.status /\ row.assignee = new.assignee
          /\ row.details = new.details /\ row.version = new.version
          /\ row.deleted = task[t].deleted
      BY <1>1, <1>3 DEF CommitUpdate, Typed, TypeOK, Row
    <2>3. row \in Row
      BY <2>1, <1>1
    <2>4. row.deleted = new.deleted
      BY <2>2, <1>1, <1>2, <1>3, EditedType
    <2>5. row = new
      <3> HIDE DEF row, new
      <3> QED
        BY <2>2, <2>3, <2>4, <1>4, RowEquality
    <2>6. task \in [Tasks -> Row] /\ \A u \in Tasks \ {t} : task'[u] = task[u]
      BY <1>1 DEF CommitUpdate, Typed, TypeOK
    <2> HIDE DEF new
    <2> QED
      BY <2>1, <2>5, <2>6
  <1>9. logs' = [logs EXCEPT ![t] = Append(@, entry)]
    BY DEF CommitUpdate, Record
  <1> HIDE DEF new, entry
  <1>10. ~task[t].deleted /\ WriteEffect(t, new, entry)
    BY <1>3, <1>4, <1>5, <1>6, <1>7, <1>8, <1>9 DEF WriteEffect
  <1> QED
    BY <1>1, <1>3, <1>10 DEF new, entry

LEMMA AssignEffect ==
    ASSUME Typed, FreshCopy, NEW r \in Requests, CommitAssign(r)
    PROVE  LET t == call[r].task
               new == [task[t] EXCEPT !.assignee = call[r].assignee, !.version = @ + 1]
           IN  /\ t \in Tasks /\ copy[r] = task[t]
               /\ call[r].assignee \in Members(TeamOf[call[r].actor])
               /\ WriteEffect(t, new, [action |-> "ASSIGN", actor |-> call[r].actor,
                      fromStatus |-> None, toStatus |-> None,
                      fromAssignee |-> task[t].assignee, toAssignee |-> call[r].assignee])
  <1> DEFINE c   == call[r]
             t   == c.task
             a   == c.assignee
             v   == task[t].version + 1
             new == [task[t] EXCEPT !.assignee = a, !.version = v]
             entry == [action |-> "ASSIGN", actor |-> c.actor,
                       fromStatus |-> None, toStatus |-> None,
                       fromAssignee |-> task[t].assignee, toAssignee |-> a]
  <1>1. c \in Call /\ copy[r] \in Row /\ t \in Tasks /\ c.actor \in Users
    BY CallsAssumption DEF Typed, TypeOK, CommitAssign, Reading, Call
  <1>2. a \in Members(TeamOf[c.actor]) /\ a \in Users /\ a # None
    BY MembersAreUsers DEF Typed, HandlerInv, CommitAssign, Conditional, Valid, InFlight
  <1>3. copy[r] = task[t] /\ ~copy[r].deleted
    BY CopyIsCurrent DEF CommitAssign, Conditional
  <1>4. task[t].version = c.version /\ task[t] \in Row /\ v \in Nat
    BY <1>1 DEF CommitAssign, RowsAffected, Typed, TypeOK, Row
  <1>5. /\ new \in Row /\ new.version = v /\ ~new.deleted /\ new.assignee = a
        /\ new.status = task[t].status /\ new.details = task[t].details
    <2> HIDE DEF a, v
    <2> QED
      BY <1>2, <1>3, <1>4 DEF Row
  <1>6. entry \in LogEntry /\ entry.action = "ASSIGN" /\ entry.toStatus = None /\ entry.toAssignee = a
    <2> HIDE DEF a
    <2> QED
      BY <1>1, <1>2, <1>4 DEF LogEntry, Actions, Row
  <1>7. task' = [task EXCEPT ![t] = new]
    <2> DEFINE row == task'[t]
    <2>1. task' \in [Tasks -> Row]
      BY CommitAssignTyped DEF Typed, TypeOK
    <2>2. /\ row.status = task[t].status /\ row.assignee = a
          /\ row.details = task[t].details /\ row.version = v
          /\ row.deleted = task[t].deleted
      BY <1>1, <1>3, <1>4 DEF CommitAssign, Typed, TypeOK, Row, Reassigned
    <2>3. row \in Row
      BY <2>1, <1>1
    <2>4. row.deleted = new.deleted
      BY <2>2, <1>4 DEF Row
    <2>5. row = new
      <3> HIDE DEF row, new
      <3> QED
        BY <2>2, <2>3, <2>4, <1>5, RowEquality
    <2>6. task \in [Tasks -> Row] /\ \A u \in Tasks \ {t} : task'[u] = task[u]
      BY <1>1 DEF CommitAssign, Typed, TypeOK
    <2> HIDE DEF new
    <2> QED
      BY <2>1, <2>5, <2>6
  <1>8. logs' = [logs EXCEPT ![t] = Append(@, entry)]
    BY <1>3 DEF CommitAssign, Record, Reassigned, AssignEntry
  <1>9. ~task[t].deleted
    BY <1>3
  <1> HIDE DEF new, entry
  <1>10. WriteEffect(t, new, entry)
    BY <1>2, <1>5, <1>6, <1>7, <1>8, <1>9 DEF WriteEffect, v
  <1> QED
    BY <1>1, <1>2, <1>3, <1>10 DEF new, entry

DeleteEffect(t, entry) ==
    /\ entry \in LogEntry /\ entry.action = "DELETE"
    /\ entry.toStatus = None /\ entry.toAssignee = None
    /\ task' = [task EXCEPT ![t] = [@ EXCEPT !.deleted = TRUE]]
    /\ logs' = [logs EXCEPT ![t] = Append(@, entry)]

LEMMA DeletionEffect ==
    ASSUME Typed, NEW r \in Requests, CommitDelete(r)
    PROVE  /\ call[r].task \in Tasks
           /\ DeleteEffect(call[r].task,
                 [action |-> "DELETE", actor |-> call[r].actor,
                  fromStatus |-> copy[r].status, toStatus |-> None,
                  fromAssignee |-> copy[r].assignee, toAssignee |-> None])
  <1> DEFINE entry == [action |-> "DELETE", actor |-> call[r].actor,
                       fromStatus |-> copy[r].status, toStatus |-> None,
                       fromAssignee |-> copy[r].assignee, toAssignee |-> None]
  <1>1. call[r] \in Call /\ copy[r] \in Row
    BY CallsAssumption DEF Typed, TypeOK, CommitDelete, Reading
  <1>2. entry \in LogEntry
    BY <1>1 DEF LogEntry, Actions, Row, Call
  <1>3. call[r].task \in Tasks
    BY <1>1 DEF Call
  <1> QED
    BY <1>2, <1>3 DEF DeleteEffect, CommitDelete, Record, DeleteEntry

-----------------------------------------------------------------------------
(* The core invariant is inductive.                                        *)

(* No handler starts to hold a row in this step.                           *)
CopiesKept == \A r \in Requests : pc'[r] \in Reading =>
                  pc[r] \in Reading /\ copy'[r] = copy[r] /\ call'[r] = call[r]

LEMMA InitCore == Init => Core
  <1> SUFFICES ASSUME Init PROVE Core
    OBVIOUS
  <1>1. FreshCopy /\ CopyWasCommitted
    BY DEF Init, FreshCopy, CopyWasCommitted, Reading
  <1>2. ASSUME NEW t \in Tasks
        PROVE  /\ task[t].version = 1 /\ ~task[t].deleted
               /\ Len(logs[t]) = 1 /\ logs[t][1].action = "CREATE"
               /\ logs[t][1].toStatus = task[t].status
               /\ logs[t][1].toAssignee = task[t].assignee
    <2>1. logs[t] = <<CreateEntry(t)>> /\ task[t] = FirstRow(t)
      BY DEF Init
    <2>2. Len(logs[t]) = 1 /\ logs[t][1] = CreateEntry(t)
      BY <2>1
    <2> QED
      BY <2>1, <2>2 DEF FirstRow, CreateEntry
  <1>4. AuditTrail
    <2> SUFFICES ASSUME NEW t \in Tasks
                 PROVE  /\ Len(logs[t]) >= task[t].version
                        /\ \A i \in 1..Len(logs[t]) :
                              logs[t][i].action = "DELETE" <=> i > task[t].version
                        /\ task[t].deleted <=> Len(logs[t]) > task[t].version
      BY DEF AuditTrail
    <2>1. /\ Len(logs[t]) = 1 /\ logs[t][1].action = "CREATE"
          /\ task[t].version = 1 /\ ~task[t].deleted
      BY <1>2
    <2>2. \A i \in 1..1 : i = 1
      OBVIOUS
    <2> QED
      BY <2>1, <2>2
  <1>5. RowWasCommitted
    <2> SUFFICES ASSUME NEW t \in Tasks
                 PROVE  /\ task[t].version >= 1
                        /\ StatusIs(logs[t], Len(logs[t]), task[t].status)
                        /\ AssigneeIs(logs[t], Len(logs[t]), task[t].assignee)
      BY DEF RowWasCommitted
    <2> QED
      BY <1>2 DEF StatusIs, AssigneeIs
  <1> QED
    BY <1>1, <1>4, <1>5 DEF Core

(* Steps of a handler that leave the database alone and read no row.       *)
LEMMA QuietCore ==
    ASSUME Core, UNCHANGED db, CopiesKept
    PROVE  Core'
  <1>1. FreshCopy' /\ CopyWasCommitted'
    BY DEF Core, FreshCopy, CopyWasCommitted, CopiesKept, db
  <1>2. AuditTrail' /\ RowWasCommitted'
    BY DEF Core, AuditTrail, RowWasCommitted, db
  <1> QED
    BY <1>1, <1>2 DEF Core

(* The status and the assignee of a live row are replayed up to its        *)
(* version, because its log has no further entries.                        *)
LEMMA FindTaskCore ==
    ASSUME Typed, Core, NEW r \in Requests, FindTask(r)
    PROVE  Core'
  <1> DEFINE t == call[r].task
  <1>1. call[r] \in Call /\ t \in Tasks
    BY CallsAssumption DEF Typed, TypeOK, FindTask, Call
  <1>2. task[t] \in Row /\ logs[t] \in Seq(LogEntry)
    BY <1>1 DEF Typed, TypeOK
  <1>3. /\ copy'[r] = task[t] /\ task' = task /\ logs' = logs /\ call' = call
        /\ \A q \in Requests \ {r} : pc'[q] = pc[q] /\ copy'[q] = copy[q]
    BY DEF FindTask, Typed, TypeOK, db
  <1>4. Len(logs[t]) = task[t].version
    BY <1>1, <1>2 DEF FindTask, Visible, Core, AuditTrail, Row
  <1>5. FreshCopy'
    <2>1. \A q \in Requests \ {r} : (pc[q] \in Reading =>
              LET row == task[call[q].task]
              IN  /\ copy[q].version <= row.version
                  /\ copy[q].version = row.version =>
                        \A f \in {"status", "assignee", "details"} : copy[q][f] = row[f])'
      BY <1>3 DEF Core, FreshCopy
    <2>2. task[t].version <= task[t].version
      BY <1>2 DEF Row
    <2> QED
      BY <1>3, <2>1, <2>2 DEF FreshCopy
  <1>6. CopyWasCommitted'
    BY <1>1, <1>3, <1>4 DEF Core, CopyWasCommitted, RowWasCommitted
  <1>7. AuditTrail' /\ RowWasCommitted'
    BY <1>3 DEF Core, AuditTrail, RowWasCommitted
  <1> QED
    BY <1>5, <1>6, <1>7 DEF Core

LEMMA WriteCore ==
    ASSUME Typed, Core, NEW t \in Tasks, NEW new, NEW entry,
           WriteEffect(t, new, entry), CopiesKept
    PROVE  Core'
  <1>1. /\ task[t] \in Row /\ logs[t] \in Seq(LogEntry)
        /\ task \in [Tasks -> Row] /\ logs \in [Tasks -> Seq(LogEntry)]
    BY DEF Typed, TypeOK
  <1>2. /\ task'[t] = new /\ logs'[t] = Append(logs[t], entry)
        /\ \A u \in Tasks \ {t} : task'[u] = task[u] /\ logs'[u] = logs[u]
    BY <1>1 DEF WriteEffect
  <1>3. /\ new \in Row /\ new.version = task[t].version + 1 /\ ~new.deleted
        /\ entry \in LogEntry /\ entry.action # "DELETE" /\ ~task[t].deleted
    BY DEF WriteEffect
  <1>4. task[t].version \in Nat /\ Len(logs[t]) = task[t].version
    BY <1>1, <1>3 DEF Core, AuditTrail, Row
  <1>5. \A r \in Requests : pc[r] \in Reading =>
            call[r].task \in Tasks /\ copy[r].version \in Nat
    BY CallsAssumption DEF Typed, TypeOK, Reading, Call, Row
  <1>6. FreshCopy'
    BY <1>2, <1>3, <1>4, <1>5 DEF Core, FreshCopy, CopiesKept
  <1>7. AuditTrail'
    <2> DEFINE log == logs'[t]
    <2>1. /\ Len(log) = new.version
          /\ \A i \in 1..Len(log) : log[i].action # "DELETE"
      <3>1. /\ Len(log) = Len(logs[t]) + 1 /\ log[Len(logs[t]) + 1] = entry
            /\ \A i \in 1..Len(logs[t]) : log[i] = logs[t][i]
        BY <1>1, <1>2, <1>3, AppendFacts
      <3>2. \A i \in 1..Len(logs[t]) : logs[t][i].action # "DELETE"
        BY <1>4 DEF Core, AuditTrail
      <3>3. Len(logs[t]) \in Nat /\ new.version = Len(logs[t]) + 1 /\ entry.action # "DELETE"
        BY <1>3, <1>4
      <3> HIDE DEF log
      <3>4. Len(log) = new.version
        BY <3>1, <3>3
      <3>5. ASSUME NEW i \in 1..Len(log)
            PROVE  log[i].action # "DELETE"
        <4>1. i \in 1..Len(logs[t]) \/ i = Len(logs[t]) + 1
          BY <3>1, <3>3
        <4> QED
          BY <3>1, <3>2, <3>3, <4>1
      <3> QED
        BY <3>4, <3>5
    <2> SUFFICES ASSUME NEW u \in Tasks
                 PROVE  /\ Len(logs'[u]) >= task'[u].version
                        /\ \A i \in 1..Len(logs'[u]) :
                              logs'[u][i].action = "DELETE" <=> i > task'[u].version
                        /\ task'[u].deleted <=> Len(logs'[u]) > task'[u].version
      BY DEF AuditTrail
    <2>2. CASE u = t
      <3>1. new.version \in Nat /\ \A i \in 1..Len(log) : ~(i > new.version)
        BY <1>3, <1>4, <2>1
      <3>2. task'[u].version = new.version /\ ~task'[u].deleted /\ logs'[u] = log
        BY <1>2, <1>3, <2>2
      <3> HIDE DEF log
      <3> QED
        BY <2>1, <3>1, <3>2
    <2>3. CASE u # t
      BY <1>2, <2>3 DEF Core, AuditTrail
    <2> QED
      BY <2>2, <2>3
  <1>8. CopyWasCommitted'
    <2> SUFFICES ASSUME NEW r \in Requests, pc'[r] \in Reading
                 PROVE  /\ copy[r].version >= 1
                        /\ StatusIs(logs'[call[r].task], copy[r].version, copy[r].status)
                        /\ AssigneeIs(logs'[call[r].task], copy[r].version, copy[r].assignee)
      BY Zenon DEF CopyWasCommitted, CopiesKept
    <2>1. pc[r] \in Reading /\ call[r].task \in Tasks
      BY <1>5 DEF CopiesKept
    <2>2. /\ copy[r].version >= 1
          /\ StatusIs(logs[call[r].task], copy[r].version, copy[r].status)
          /\ AssigneeIs(logs[call[r].task], copy[r].version, copy[r].assignee)
      BY <2>1 DEF Core, CopyWasCommitted
    <2>3. CASE call[r].task # t
      BY <1>2, <2>1, <2>2, <2>3
    <2>4. CASE call[r].task = t
      <3>1. copy[r].version \in Nat /\ copy[r].version <= Len(logs[t])
        BY <1>4, <1>5, <2>1, <2>4 DEF Core, FreshCopy
      <3>2. /\ StatusIs(Append(logs[t], entry), copy[r].version, copy[r].status)
            /\ AssigneeIs(Append(logs[t], entry), copy[r].version, copy[r].assignee)
        BY <1>1, <1>3, <2>2, <2>4, <3>1, StatusKept, AssigneeKept
      <3>3. logs'[call[r].task] = Append(logs[t], entry)
        BY <1>2, <1>3, <2>4
      <3> QED
        BY <2>2, <3>2, <3>3
    <2> QED
      BY <2>3, <2>4
  <1>9. RowWasCommitted'
    <2>1. /\ StatusIs(logs[t], Len(logs[t]), task[t].status)
          /\ AssigneeIs(logs[t], Len(logs[t]), task[t].assignee)
      BY DEF Core, RowWasCommitted
    <2>2. StatusIs(logs'[t], Len(logs'[t]), new.status)
      BY <1>1, <1>2, <1>3, <2>1, StatusAppended, AppendFacts DEF WriteEffect
    <2>3. AssigneeIs(logs'[t], Len(logs'[t]), new.assignee)
      BY <1>1, <1>2, <1>3, <2>1, AssigneeAppended, AppendFacts DEF WriteEffect
    <2>4. new.version >= 1
      BY <1>3, <1>4
    <2> QED
      BY <1>2, <2>2, <2>3, <2>4 DEF Core, RowWasCommitted
  <1> QED
    BY <1>6, <1>7, <1>8, <1>9 DEF Core

LEMMA DeleteCore ==
    ASSUME Typed, Core, NEW t \in Tasks, NEW entry, DeleteEffect(t, entry), CopiesKept
    PROVE  Core'
  <1>1. /\ task[t] \in Row /\ logs[t] \in Seq(LogEntry)
        /\ task \in [Tasks -> Row] /\ logs \in [Tasks -> Seq(LogEntry)]
    BY DEF Typed, TypeOK
  <1>2. /\ logs'[t] = Append(logs[t], entry)
        /\ \A u \in Tasks \ {t} : task'[u] = task[u] /\ logs'[u] = logs[u]
    BY <1>1 DEF DeleteEffect
  <1>3. /\ task'[t].version = task[t].version /\ task'[t].status = task[t].status
        /\ task'[t].assignee = task[t].assignee /\ task'[t].details = task[t].details
        /\ task'[t].deleted = TRUE
    BY <1>1 DEF DeleteEffect, Row
  <1>4. /\ entry \in LogEntry /\ entry.action = "DELETE"
        /\ entry.toStatus = None /\ entry.toAssignee = None
    BY DEF DeleteEffect
  <1>5. task[t].version \in Nat /\ Len(logs[t]) \in Nat /\ Len(logs[t]) >= task[t].version
    BY <1>1 DEF Core, AuditTrail, Row
  <1>6. \A r \in Requests : pc[r] \in Reading =>
            call[r].task \in Tasks /\ copy[r].version \in Nat
    BY CallsAssumption DEF Typed, TypeOK, Reading, Call, Row
  <1>7. FreshCopy'
    BY <1>2, <1>3, <1>6 DEF Core, FreshCopy, CopiesKept
  <1>8. AuditTrail'
    <2> DEFINE log == logs'[t]
    <2>1. /\ Len(log) > task[t].version
          /\ \A i \in 1..Len(log) : log[i].action = "DELETE" <=> i > task[t].version
      <3>1. /\ Len(log) = Len(logs[t]) + 1 /\ log[Len(logs[t]) + 1] = entry
            /\ \A i \in 1..Len(logs[t]) : log[i] = logs[t][i]
        BY <1>1, <1>2, <1>4, AppendFacts
      <3>2. \A i \in 1..Len(logs[t]) : logs[t][i].action = "DELETE" <=> i > task[t].version
        BY DEF Core, AuditTrail
      <3> HIDE DEF log
      <3> QED
        BY <1>4, <1>5, <3>1, <3>2
    <2> SUFFICES ASSUME NEW u \in Tasks
                 PROVE  /\ Len(logs'[u]) >= task'[u].version
                        /\ \A i \in 1..Len(logs'[u]) :
                              logs'[u][i].action = "DELETE" <=> i > task'[u].version
                        /\ task'[u].deleted <=> Len(logs'[u]) > task'[u].version
      BY DEF AuditTrail
    <2>2. CASE u = t
      BY <1>1, <1>3, <1>4, <1>5, <2>1, <2>2, AppendFacts, <1>2
    <2>3. CASE u # t
      BY <1>2, <2>3 DEF Core, AuditTrail
    <2> QED
      BY <2>2, <2>3
  <1>9. CopyWasCommitted'
    <2> SUFFICES ASSUME NEW r \in Requests, pc'[r] \in Reading
                 PROVE  /\ copy[r].version >= 1
                        /\ StatusIs(logs'[call[r].task], copy[r].version, copy[r].status)
                        /\ AssigneeIs(logs'[call[r].task], copy[r].version, copy[r].assignee)
      BY Zenon DEF CopyWasCommitted, CopiesKept
    <2>1. pc[r] \in Reading /\ call[r].task \in Tasks
      BY <1>6 DEF CopiesKept
    <2>2. /\ copy[r].version >= 1
          /\ StatusIs(logs[call[r].task], copy[r].version, copy[r].status)
          /\ AssigneeIs(logs[call[r].task], copy[r].version, copy[r].assignee)
      BY <2>1 DEF Core, CopyWasCommitted
    <2>3. CASE call[r].task # t
      BY <1>2, <2>1, <2>2, <2>3
    <2>4. CASE call[r].task = t
      <3>1. copy[r].version \in Nat /\ copy[r].version <= Len(logs[t])
        BY <1>5, <1>6, <2>1, <2>4 DEF Core, FreshCopy
      <3>2. StatusIs(logs'[t], copy[r].version, copy[r].status)
        BY <1>1, <1>2, <1>4, <2>2, <2>4, <3>1, StatusKept
      <3>3. AssigneeIs(logs'[t], copy[r].version, copy[r].assignee)
        BY <1>1, <1>2, <1>4, <2>2, <2>4, <3>1, AssigneeKept
      <3> QED
        BY <2>2, <2>4, <3>2, <3>3
    <2> QED
      BY <2>3, <2>4
  <1>10. RowWasCommitted'
    <2>1. /\ StatusIs(logs[t], Len(logs[t]), task[t].status)
          /\ AssigneeIs(logs[t], Len(logs[t]), task[t].assignee)
      BY DEF Core, RowWasCommitted
    <2>2. /\ StatusIs(logs'[t], Len(logs'[t]), task[t].status)
          /\ AssigneeIs(logs'[t], Len(logs'[t]), task[t].assignee)
      BY <1>1, <1>2, <1>4, <2>1, StatusAppended, AssigneeAppended, AppendFacts
    <2> QED
      BY <1>2, <1>3, <2>2 DEF Core, RowWasCommitted
  <1> QED
    BY <1>7, <1>8, <1>9, <1>10 DEF Core

LEMMA CoreStep == Typed /\ Core /\ [Next]_vars => Core'
  <1> SUFFICES ASSUME Typed, Core, [Next]_vars PROVE Core'
    OBVIOUS
  <1> USE DEF CopiesKept
  <1>1. ASSUME NEW r \in Requests, NEW c \in Calls, Accept(r, c) \/ Reject(r, c)
        PROVE  Core'
    BY <1>1, QuietCore DEF Typed, TypeOK, Accept, Reject, Refuse, Answer, Reading, db
  <1>2. ASSUME NEW r \in Requests,
               FindNothing(r) \/ FindStale(r) \/ RefuseAssignee(r) \/ StaleCommit(r) \/ DbFails(r)
        PROVE  Core'
    BY <1>2, QuietCore DEF Typed, TypeOK, FindNothing, FindStale, RefuseAssignee, StaleCommit,
       DbFails, Refuse, Answer, Reading
  <1>3. ASSUME NEW r \in Requests, AcceptAssignee(r) \/ ReadLogs(r)
        PROVE  Core'
    BY <1>3, QuietCore DEF Typed, TypeOK, AcceptAssignee, ReadLogs, Answer, Reading
  <1>4. ASSUME NEW r \in Requests, SendTaskAssignedNotification(r)
        PROVE  Core'
    BY <1>4, QuietCore DEF SendTaskAssignedNotification
  <1>5. CASE Crash
    BY <1>5, QuietCore DEF Crash, Typed, TypeOK, InFlight, Reading
  <1>6. CASE UNCHANGED vars
    BY <1>6, QuietCore DEF vars, db
  <1>7. ASSUME NEW r \in Requests, CommitUpdate(r)
        PROVE  Core'
    <2>1. CopiesKept
      BY <1>7 DEF Typed, TypeOK, CommitUpdate, AnswerCommit, Answer, Reading
    <2> QED
      BY <1>7, <2>1, UpdateEffect, WriteCore DEF Core
  <1>8. ASSUME NEW r \in Requests, CommitAssign(r)
        PROVE  Core'
    <2>1. CopiesKept
      BY <1>8 DEF Typed, TypeOK, CommitAssign, AnswerCommit, Answer, Reading
    <2> QED
      BY <1>8, <2>1, AssignEffect, WriteCore DEF Core
  <1>9. ASSUME NEW r \in Requests, CommitDelete(r)
        PROVE  Core'
    <2>1. CopiesKept
      BY <1>9 DEF Typed, TypeOK, CommitDelete, AnswerCommit, Answer, Reading
    <2> QED
      BY <1>9, <2>1, DeletionEffect, DeleteCore
  <1> QED
    BY <1>1, <1>2, <1>3, <1>4, <1>5, <1>6, <1>7, <1>8, <1>9, FindTaskCore DEF Next, Handle

LEMMA Invariance == Spec => []IInv
  <1>1. Init => IInv
    BY InitTyped, InitCore DEF IInv
  <1>2. IInv /\ [Next]_vars => IInv'
    BY TypedStep, CoreStep DEF IInv
  <1> QED
    BY <1>1, <1>2, PTL DEF Spec

(* The version check is sound: a handler's copy that carries the current   *)
(* version carries the current content, under every interleaving.          *)
THEOREM CopiesAreFresh == Spec => []FreshCopy
  <1>1. IInv => FreshCopy
    BY DEF IInv, Core
  <1> QED
    BY <1>1, Invariance, PTL

(* Row and audit log never part, whatever fails and whoever races.         *)
THEOREM AuditTrailKept == Spec => []AuditTrail
  <1>1. IInv => AuditTrail
    BY DEF IInv, Core
  <1> QED
    BY <1>1, Invariance, PTL

-----------------------------------------------------------------------------
(* Every step is quiet, a write or a deletion.                             *)

LEMMA StepKinds ==
    ASSUME IInv, [Next]_vars
    PROVE  \/ UNCHANGED db
           \/ \E r \in Requests : CommitUpdate(r) \/ CommitAssign(r) \/ CommitDelete(r)
  BY DEF vars, Next, Handle, Accept, Reject, FindNothing, FindStale, FindTask, AcceptAssignee,
     RefuseAssignee, StaleCommit, ReadLogs, DbFails, SendTaskAssignedNotification, Crash, db

LEMMA WriteStaysDeleted ==
    ASSUME Typed, NEW t \in Tasks, NEW new, NEW entry, WriteEffect(t, new, entry)
    PROVE  StaysDeleted
  <1>1. \A u \in Tasks \ {t} : task'[u] = task[u] /\ logs'[u] = logs[u]
    BY DEF WriteEffect, Typed, TypeOK
  <1>2. \A u \in Tasks : logs[u] \in Seq(LogEntry)
    BY DEF Typed, TypeOK
  <1> QED
    BY <1>1, <1>2 DEF WriteEffect, StaysDeleted

LEMMA DeleteStaysDeleted ==
    ASSUME Typed, NEW t \in Tasks, NEW entry, DeleteEffect(t, entry)
    PROVE  StaysDeleted
  <1>1. /\ \A u \in Tasks \ {t} : task'[u] = task[u] /\ logs'[u] = logs[u]
        /\ task'[t] = [task[t] EXCEPT !.deleted = TRUE]
        /\ logs'[t] = Append(logs[t], entry)
    BY DEF DeleteEffect, Typed, TypeOK
  <1>2. \A u \in Tasks : logs[u] \in Seq(LogEntry) /\ task[u] \in Row
    BY DEF Typed, TypeOK
  <1>3. task[t].deleted => task'[t] = task[t]
    <2> DEFINE row == task'[t]
    <2>1. row = [task[t] EXCEPT !.deleted = TRUE]
      BY <1>1
    <2> HIDE DEF row
    <2>2. row \in Row /\ row.status = task[t].status /\ row.assignee = task[t].assignee
          /\ row.details = task[t].details /\ row.version = task[t].version
          /\ row.deleted = TRUE
      BY <1>2, <2>1 DEF Row
    <2>3. task[t].deleted => row.deleted = task[t].deleted
      BY <1>2, <2>2 DEF Row
    <2>4. task[t].deleted => row = task[t]
      BY <1>2, <2>2, <2>3, RowEquality
    <2> QED
      BY <2>4 DEF row
  <1>4. \A i \in (Len(logs[t]) + 1)..Len(logs'[t]) : logs'[t][i].action = "DELETE"
    BY <1>1, <1>2, AppendFacts DEF DeleteEffect
  <1> QED
    BY <1>1, <1>2, <1>3, <1>4 DEF StaysDeleted

(* A deleted task stays as it was, even for handlers that had read it      *)
(* before it was deleted.                                                  *)
THEOREM DeletionIsFinal == Spec => DeletedIsFinal
  <1>1. IInv /\ [Next]_vars => [StaysDeleted]_vars
    <2> SUFFICES ASSUME IInv, [Next]_vars PROVE StaysDeleted
      OBVIOUS
    <2>1. CASE UNCHANGED db
      BY <2>1 DEF db, StaysDeleted, IInv, Typed, TypeOK
    <2>2. ASSUME NEW r \in Requests, CommitUpdate(r) PROVE StaysDeleted
      BY <2>2, UpdateEffect, WriteStaysDeleted DEF IInv, Core
    <2>3. ASSUME NEW r \in Requests, CommitAssign(r) PROVE StaysDeleted
      BY <2>3, AssignEffect, WriteStaysDeleted DEF IInv, Core
    <2>4. ASSUME NEW r \in Requests, CommitDelete(r) PROVE StaysDeleted
      BY <2>4, DeletionEffect, DeleteStaysDeleted DEF IInv
    <2> QED
      BY <2>1, <2>2, <2>3, <2>4, StepKinds
  <1> QED
    BY <1>1, Invariance, PTL DEF Spec, DeletedIsFinal

-----------------------------------------------------------------------------
(* Refinement.                                                             *)

(* The flags the code computes and the set of columns that differ name the *)
(* same kind of change.                                                    *)
LEMMA EntriesAgree ==
    ASSUME NEW actor, NEW old \in Row, NEW new \in Row
    PROVE  UpdateEntry(actor, old, new) = Abstract!EditEntry(actor, old, new)
  <1> DEFINE changed == Abstract!Changed(old, new)
  <1>1. /\ "status" \in changed <=> new.status # old.status
        /\ "assignee" \in changed <=> new.assignee # old.assignee
        /\ "details" \in changed <=> new.details # old.details
        /\ changed \subseteq {"status", "assignee", "details"}
    BY DEF Abstract!Changed
  <1> HIDE DEF changed
  <1>2. Abstract!KindOfEdit(changed) =
           UpdateAction(new.status # old.status, new.assignee # old.assignee,
                        new.details # old.details)
    <2>1. changed = {"status"} <=> "status" \in changed /\ "assignee" \notin changed
                                    /\ "details" \notin changed
      BY <1>1
    <2>2. changed = {"assignee"} <=> "assignee" \in changed /\ "status" \notin changed
                                      /\ "details" \notin changed
      BY <1>1
    <2> QED
      BY <1>1, <2>1, <2>2 DEF Abstract!KindOfEdit, UpdateAction
  <1> QED
    BY <1>1, <1>2 DEF UpdateEntry, Abstract!EditEntry, changed

(* Both modules read the same data.                                        *)
LEMMA SameData ==
    /\ \A team : Abstract!Members(team) = Members(team)
    /\ \A t : Abstract!OwnerTeam(t) = OwnerTeam(t)
    /\ \A log, k, s : Abstract!StatusIs(log, k, s) <=> StatusIs(log, k, s)
    /\ \A log, k, a : Abstract!AssigneeIs(log, k, a) <=> AssigneeIs(log, k, a)
  BY DEF Abstract!Members, Members, Abstract!OwnerTeam, OwnerTeam, Abstract!StatusIs, StatusIs,
     Abstract!AssigneeIs, AssigneeIs

LEMMA UpdateImplementsEdit ==
    ASSUME IInv, NEW r \in Requests, CommitUpdate(r)
    PROVE  Abstract!Next
  <1> DEFINE c     == call[r]
             t     == c.task
             new   == Edited(copy[r], c)
             entry == UpdateEntry(c.actor, task[t], new)
  <1>1. c \in Call /\ t \in Tasks /\ copy[r] = task[t]
        /\ WriteEffect(t, new, entry)
    BY CallsAssumption, UpdateEffect DEF IInv, Core, Typed, TypeOK, CommitUpdate
  <1>2. task[t] \in Row /\ new \in Row /\ new.version = task[t].version + 1
    BY <1>1 DEF WriteEffect, IInv, Typed, TypeOK
  <1>3. c.actor \in Members(OwnerTeam(t)) /\ OwnerTeam(t) = TeamOf[c.actor]
    BY <1>1 DEF IInv, Typed, HandlerInv, CommitUpdate, Reading, Members, Call
  <1>4. new.assignee \in Members(OwnerTeam(t)) \cup {task[t].assignee}
    <2>1. c.assignee # None => c.assignee \in Members(OwnerTeam(t))
      BY <1>3 DEF IInv, Typed, HandlerInv, CommitUpdate, Conditional
    <2>2. new.assignee = IF c.assignee = None THEN task[t].assignee ELSE c.assignee
      BY <1>1, <1>2 DEF Edited, Row
    <2> QED
      BY <2>1, <2>2
  <1>5. ~task[t].deleted /\ ~new.deleted
    BY <1>1 DEF WriteEffect
  <1>6. task' = [task EXCEPT ![t] = new] /\ logs' = [logs EXCEPT ![t] = Append(@, entry)]
    BY <1>1 DEF WriteEffect
  <1> HIDE DEF new
  <1> DEFINE edited == [task[t] EXCEPT !.status = new.status, !.assignee = new.assignee,
                                       !.details = new.details, !.version = @ + 1]
  <1>7. edited = new
    <2> DEFINE v == task[t].version + 1
               s == new.status
               a == new.assignee
               d == new.details
    <2>1. /\ s \in Statuses /\ a \in Users \cup {None} /\ d \in Details /\ v \in Nat
          /\ new.version = v /\ new.deleted = task[t].deleted
      BY <1>2, <1>5 DEF Row
    <2>2. edited = [task[t] EXCEPT !.status = s, !.assignee = a, !.details = d, !.version = v]
      OBVIOUS
    <2>3. s = new.status /\ a = new.assignee /\ d = new.details
      OBVIOUS
    <2> HIDE DEF edited, s, a, d, v
    <2>4. /\ edited \in Row /\ edited.status = s /\ edited.assignee = a /\ edited.details = d
          /\ edited.version = v /\ edited.deleted = task[t].deleted
      BY <1>2, <2>1, <2>2 DEF Row
    <2> QED
      BY <1>2, <2>1, <2>3, <2>4, RowEquality
  <1>8. entry = Abstract!EditEntry(c.actor, task[t], new)
    BY <1>2, EntriesAgree
  <1>9. Abstract!Write(t, edited, Abstract!EditEntry(c.actor, task[t], edited))
    BY <1>5, <1>6, <1>7, <1>8 DEF Abstract!Write
  <1>10. new.status \in Statuses /\ new.details \in Details
    BY <1>2 DEF Row
  <1>11. Abstract!Edit(t, c.actor)
    BY <1>4, <1>9, <1>10, SameData DEF Abstract!Edit
  <1> QED
    BY <1>1, <1>3, <1>11, SameData DEF Abstract!Next

LEMMA AssignImplementsReassign ==
    ASSUME IInv, NEW r \in Requests, CommitAssign(r)
    PROVE  Abstract!Next
  <1> DEFINE c == call[r]
             t == c.task
  <1>1. /\ t \in Tasks /\ c \in Call
        /\ c.assignee \in Members(TeamOf[c.actor])
        /\ ~task[t].deleted
        /\ task' = [task EXCEPT ![t] = [task[t] EXCEPT !.assignee = c.assignee,
                                                       !.version = @ + 1]]
        /\ logs' = [logs EXCEPT ![t] = Append(@,
              [action |-> "ASSIGN", actor |-> c.actor, fromStatus |-> None, toStatus |-> None,
               fromAssignee |-> task[t].assignee, toAssignee |-> c.assignee])]
    BY CallsAssumption, AssignEffect DEF IInv, Core, WriteEffect, Typed, TypeOK, CommitAssign
  <1>2. c.actor \in Members(OwnerTeam(t)) /\ OwnerTeam(t) = TeamOf[c.actor]
    BY <1>1 DEF IInv, Typed, HandlerInv, CommitAssign, Reading, Members, Call
  <1>3. Abstract!Reassign(t, c.actor)
    BY <1>1, <1>2, SameData DEF Abstract!Reassign, Abstract!Write
  <1> QED
    BY <1>1, <1>2, <1>3, SameData DEF Abstract!Next

LEMMA DeleteImplementsDelete ==
    ASSUME IInv, NEW r \in Requests, CommitDelete(r)
    PROVE  Abstract!Next
  <1> DEFINE c == call[r]
             t == c.task
  <1>1. /\ t \in Tasks /\ c \in Call /\ copy[r] \in Row /\ task[t] \in Row
        /\ task' = [task EXCEPT ![t] = [@ EXCEPT !.deleted = TRUE]]
        /\ logs' = [logs EXCEPT ![t] = Append(@,
              [action |-> "DELETE", actor |-> c.actor,
               fromStatus |-> copy[r].status, toStatus |-> None,
               fromAssignee |-> copy[r].assignee, toAssignee |-> None])]
    BY CallsAssumption, DeletionEffect DEF IInv, DeleteEffect, Typed, TypeOK, CommitDelete, Reading
  <1>2. c.actor \in Members(OwnerTeam(t))
    BY <1>1 DEF IInv, Typed, HandlerInv, CommitDelete, Reading, Members, Call
  <1>3. /\ StatusIs(logs[t], copy[r].version, copy[r].status)
        /\ AssigneeIs(logs[t], copy[r].version, copy[r].assignee)
        /\ copy[r].version >= 1 /\ copy[r].version <= task[t].version
    BY DEF IInv, Core, CopyWasCommitted, FreshCopy, CommitDelete, Reading
  <1>4. /\ copy[r].version \in 1..task[t].version
        /\ copy[r].status \in Statuses /\ copy[r].assignee \in Users \cup {None}
    BY <1>1, <1>3 DEF Row
  <1>5. Abstract!Delete(t, c.actor)
    <2>1. task' = [task EXCEPT ![t].deleted = TRUE]
      BY <1>1
    <2> QED
      BY <1>1, <1>3, <1>4, <2>1, SameData DEF Abstract!Delete
  <1> QED
    BY <1>1, <1>2, <1>5, SameData DEF Abstract!Next

(* The concurrent handlers implement the atomic, versioned task with its   *)
(* audit log: every transaction is one atomic Edit, Reassign or Delete of  *)
(* the current row, and every other step is invisible.                     *)
THEOREM Refinement == Spec => ImplementsVersionedTask
  <1>1. Init => Abstract!Init
    BY DEF Init, Abstract!Init, Abstract!FirstRow, FirstRow, Abstract!CreateEntry, CreateEntry
  <1>2. IInv /\ [Next]_vars => [Abstract!Next]_(Abstract!vars)
    <2> SUFFICES ASSUME IInv, [Next]_vars PROVE [Abstract!Next]_(Abstract!vars)
      OBVIOUS
    <2>1. CASE UNCHANGED db
      BY <2>1 DEF db, Abstract!vars
    <2> QED
      BY <2>1, StepKinds, UpdateImplementsEdit, AssignImplementsReassign, DeleteImplementsDelete
  <1> QED
    BY <1>1, <1>2, Invariance, PTL DEF Spec, Abstract!Spec, ImplementsVersionedTask
=============================================================================
