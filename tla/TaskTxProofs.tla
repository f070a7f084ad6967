---------------------------- MODULE TaskTxProofs ----------------------------
(***************************************************************************)
(* Proofs about TaskTx, for every value of its constants.  A step of a     *)
(* transaction is a step of TaskService or none, if ServicePc is taken for *)
(* pc; what TaskServiceHistory and the TaskServiceProofs it extends show   *)
(* of TaskService is cited, as Atomic!..., of the statement-level handlers. *)
(***************************************************************************)
EXTENDS TaskTx, TLAPS

Atomic == INSTANCE TaskServiceHistory WITH pc <- ServicePc

(* A request in its transaction is never a reading one.                    *)
NoGet == \A r \in Requests : pc[r] \in {"commit"} \cup TxSteps => call[r].op # "get"

(* The time an entry will carry is not before those of the versions that   *)
(* its handler has seen, and no time is in the future.                     *)
InTime ==
    /\ \A r \in Requests : stamp[r] <= clock
    /\ \A t \in Tasks : /\ Len(times[t]) = Len(logs[t])
                        /\ \A i \in 1..Len(times[t]) : times[t][i] <= clock
    /\ \A r \in Requests : pc[r] \in TxSteps /\ Conditional(call[r]) =>
          \A i \in 1..call[r].version : times[call[r].task][i] <= stamp[r]

TxInv == Atomic!IInv /\ TxTypeOK /\ NoGet /\ WritesStayValid /\ InTime /\ VersionsInTimeOrder

-----------------------------------------------------------------------------
(* What TaskService's invariant says in terms of TaskTx.                   *)

LEMMA HandlerFacts ==
    ASSUME TxInv, NEW r \in Requests, pc[r] # "idle"
    PROVE  /\ call[r] \in Call
           /\ pc[r] \in {"commit"} \cup TxSteps =>
                 /\ copy[r] \in Row
                 /\ Conditional(call[r]) =>
                       /\ call[r].version <= task[call[r].task].version
                       /\ call[r].assignee # None => call[r].assignee \in Users
                 /\ call[r].op = "assign" => call[r].assignee # None
  <1>1. ServicePc[r] = IF pc[r] \in TxSteps THEN "commit" ELSE pc[r]
    BY DEF ServicePc
  <1>2. call[r] \in Call
    BY <1>1, CallsAssumption DEF TxInv, Atomic!IInv, Atomic!Typed, Atomic!TypeOK, TxSteps, Connected
  <1>3. ASSUME pc[r] \in {"commit"} \cup TxSteps
        PROVE  /\ copy[r] \in Row
               /\ Conditional(call[r]) =>
                       /\ call[r].version <= task[call[r].task].version
                       /\ call[r].assignee # None => call[r].assignee \in Users
               /\ call[r].op = "assign" => call[r].assignee # None
    <2>1. ServicePc[r] = "commit"
      BY <1>1, <1>3
    <2>2. copy[r] \in Row
      BY <2>1 DEF TxInv, Atomic!IInv, Atomic!Typed, Atomic!TypeOK, Atomic!Reading, Atomic!Row, Row
    <2>3. Conditional(call[r]) => copy[r].version = call[r].version
      BY <2>1 DEF TxInv, Atomic!IInv, Atomic!Typed, Atomic!HandlerInv, Atomic!Reading,
         Atomic!Conditional, Conditional
    <2>4. Conditional(call[r]) => copy[r].version <= task[call[r].task].version
      BY <2>1 DEF TxInv, Atomic!IInv, Atomic!Core, Atomic!FreshCopy, Atomic!Reading
    <2>5. Conditional(call[r]) /\ call[r].assignee # None => call[r].assignee \in Users
      BY <2>1 DEF TxInv, Atomic!IInv, Atomic!Typed, Atomic!HandlerInv, Atomic!Conditional,
         Conditional, Atomic!Members
    <2>6. call[r].op = "assign" => call[r].assignee # None
      BY <2>1 DEF TxInv, Atomic!IInv, Atomic!Typed, Atomic!HandlerInv, Atomic!InFlight, Atomic!Valid
    <2> QED
      BY <2>2, <2>3, <2>4, <2>5, <2>6
  <1> QED
    BY <1>2, <1>3

LEMMA TableFacts ==
    ASSUME TxInv, NEW t \in Tasks
    PROVE  /\ task[t] \in Row
           /\ logs[t] \in Seq(LogEntry)
           /\ Len(logs[t]) >= task[t].version
           /\ ~task[t].deleted => Len(logs[t]) = task[t].version
  BY DEF TxInv, TxTypeOK, Row, Atomic!IInv, Atomic!Core, Atomic!AuditTrail

-----------------------------------------------------------------------------
(* Every step is one of TaskService, or changes nothing of it.             *)

LEMMA ServicePcAt ==
    ASSUME TxTypeOK, NEW r \in Requests, NEW label, pc' = [pc EXCEPT ![r] = label]
    PROVE  ServicePc' = [ServicePc EXCEPT ![r] = IF label \in TxSteps THEN "commit" ELSE label]
  BY DEF ServicePc, TxTypeOK

LEMMA StampRefines ==
    ASSUME TxInv, NEW r \in Requests, Stamp(r) \/ Begin(r) \/ WriteRow(r) \/ WriteNothing(r) \/ InsertLog(r)
    PROVE  UNCHANGED Atomic!vars
  <1>1. PICK label \in TxSteps : pc' = [pc EXCEPT ![r] = label]
    BY DEF Stamp, Begin, WriteRow, WriteNothing, InsertLog, Goto, TxSteps, Connected
  <1>2. pc[r] \in {"commit"} \cup TxSteps
    BY DEF Stamp, Begin, WriteRow, WriteNothing, InsertLog, TxSteps, Connected
  <1>3. ServicePc' = ServicePc
    BY <1>1, <1>2, ServicePcAt DEF TxInv, TxTypeOK, ServicePc
  <1> QED
    BY <1>3 DEF Stamp, Begin, WriteRow, WriteNothing, InsertLog, txVars, db, Atomic!vars, Atomic!db

LEMMA OutsideRefines ==
    ASSUME TxInv, NEW r \in Requests,
           Query(r) \/ QueryFails(r) \/ Notify(r)
           \/ \E c \in Calls : Accept(r, c) \/ Reject(r, c)
    PROVE  Atomic!Next
  <1> USE DEF TxInv
  <1> USE DEF db, Atomic!db, InFlight, Atomic!InFlight, TxSteps, Connected, Answer, Atomic!Answer,
          Refuse, Atomic!Refuse, Members, Atomic!Members, OwnerTeam, Atomic!OwnerTeam
  <1>1. ServicePc[r] = IF pc[r] \in TxSteps THEN "commit" ELSE pc[r]
    BY DEF ServicePc
  <1>2. ASSUME NEW label, label \notin TxSteps, pc' = [pc EXCEPT ![r] = label]
        PROVE  ServicePc' = [ServicePc EXCEPT ![r] = label]
    BY <1>2, ServicePcAt
  <1>3. ASSUME NEW c \in Calls, Accept(r, c) PROVE Atomic!Next
    BY <1>1, <1>2, <1>3 DEF Accept, Valid, Atomic!Next, Atomic!Accept, Atomic!Valid
  <1>4. ASSUME NEW c \in Calls, Reject(r, c) PROVE Atomic!Next
    BY <1>1, <1>2, <1>4 DEF Reject, Valid, Atomic!Next, Atomic!Reject, Atomic!Valid
  <1>5. CASE FindNothing(r)
    BY <1>1, <1>2, <1>5 DEF FindNothing, Visible, Atomic!Next, Atomic!Handle, Atomic!FindNothing,
       Atomic!Visible
  <1>6. CASE FindStale(r)
    BY <1>1, <1>2, <1>6 DEF FindStale, Visible, Conditional, Atomic!Next, Atomic!Handle,
       Atomic!FindStale, Atomic!Visible, Atomic!Conditional
  <1>7. CASE FindTask(r)
    BY <1>1, <1>2, <1>7 DEF FindTask, Visible, Conditional, StepAfterFind, Atomic!Next,
       Atomic!Handle, Atomic!FindTask, Atomic!Visible, Atomic!Conditional, Atomic!StepAfterFind
  <1>8. CASE AcceptAssignee(r) \/ RefuseAssignee(r)
    BY <1>1, <1>2, <1>8 DEF AcceptAssignee, RefuseAssignee, Atomic!Next, Atomic!Handle,
       Atomic!AcceptAssignee, Atomic!RefuseAssignee
  <1>9. CASE ReadLogs(r)
    BY <1>1, <1>2, <1>9 DEF ReadLogs, Atomic!Next, Atomic!Handle, Atomic!ReadLogs
  <1>10. CASE QueryFails(r)
    BY <1>1, <1>2, <1>10 DEF QueryFails, DbFails, Atomic!Next, Atomic!DbFails
  <1>11. CASE Notify(r)
    <2>1. ServicePc' = ServicePc
      BY <1>11 DEF Notify, SendTaskAssignedNotification, ServicePc
    <2> QED
      BY <1>11, <2>1 DEF Notify, SendTaskAssignedNotification, Atomic!Next,
         Atomic!SendTaskAssignedNotification
  <1> QED
    BY <1>3, <1>4, <1>5, <1>6, <1>7, <1>8, <1>9, <1>10, <1>11 DEF Query

LEMMA ConflictRefines ==
    ASSUME TxInv, NEW r \in Requests, WriteConflict(r)
    PROVE  Atomic!Next
  <1>1. ServicePc[r] = "commit"
    BY DEF WriteConflict, ServicePc, TxSteps, Connected
  <1>2. ServicePc' = [ServicePc EXCEPT ![r] = "done"]
    BY ServicePcAt DEF TxInv, WriteConflict, Refuse, Answer, TxSteps, Connected
  <1> QED
    BY <1>1, <1>2 DEF WriteConflict, Matches, RowsAffected, Conditional, Refuse, Answer, db, txVars,
       Atomic!Next, Atomic!Handle, Atomic!StaleCommit, Atomic!RowsAffected, Atomic!Conditional,
       Atomic!Refuse, Atomic!Answer, Atomic!db

LEMMA TxFailsRefines ==
    ASSUME TxInv, NEW r \in Requests, TxFails(r)
    PROVE  Atomic!Next
  <1>1. ServicePc[r] = "commit"
    BY DEF TxFails, ServicePc
  <1>2. ServicePc' = [ServicePc EXCEPT ![r] = "done"]
    BY ServicePcAt DEF TxInv, TxFails, Refuse, Answer, TxSteps, Connected
  <1> QED
    BY <1>1, <1>2 DEF TxFails, Refuse, Answer, db,
       Atomic!Next, Atomic!DbFails, Atomic!InFlight, Atomic!Refuse, Atomic!Answer, Atomic!db

LEMMA CrashRefines ==
    ASSUME TxInv, TxCrash
    PROVE  Atomic!Next
  <1> DEFINE lost == [code |-> "lost", row |-> None, logs |-> <<>>]
  <1>1. \A r \in Requests : ServicePc[r] \in Atomic!InFlight <=> pc[r] \in InFlight \cup TxSteps
    BY DEF ServicePc, TxSteps, Connected, InFlight, Atomic!InFlight
  <1>2. /\ pc' = [r \in Requests |-> IF pc[r] \in InFlight \cup TxSteps THEN "done" ELSE pc[r]]
        /\ reply' = [r \in Requests |-> IF pc[r] \in InFlight \cup TxSteps THEN lost ELSE reply[r]]
        /\ notify # {} \/ \E r \in Requests : pc[r] \in InFlight \cup TxSteps
        /\ "crash" \in Faults /\ notify' = {}
        /\ task' = task /\ logs' = logs /\ call' = call /\ copy' = copy /\ sent' = sent
    BY DEF TxCrash, db
  <1>3. ServicePc' = [r \in Requests |-> IF ServicePc[r] \in Atomic!InFlight THEN "done"
                                         ELSE ServicePc[r]]
    BY <1>1, <1>2 DEF ServicePc, TxSteps, Connected
  <1>4. reply' = [r \in Requests |-> IF ServicePc[r] \in Atomic!InFlight THEN lost ELSE reply[r]]
    BY <1>1, <1>2
  <1>5. notify # {} \/ \E r \in Requests : ServicePc[r] \in Atomic!InFlight
    BY <1>1, <1>2
  <1> QED
    BY <1>2, <1>3, <1>4, <1>5 DEF Atomic!Next, Atomic!Crash, Atomic!db

(* The row that a transaction publishes is the one TaskService's           *)
(* transaction would write now.                                            *)
LEMMA PublishedRow ==
    ASSUME TxInv, NEW r \in Requests, Commit(r)
    PROVE  /\ call[r] \in Call /\ call[r].op # "get" /\ task[call[r].task] \in Row
           /\ \/ Matches(r) /\ task' = [task EXCEPT ![call[r].task] = Written(r)]
              \/ /\ call[r].op = "delete" /\ task[call[r].task].deleted /\ task' = task
  <1>1. /\ call[r] \in Call /\ call[r].op # "get"
        /\ call[r].task \in Tasks /\ task[call[r].task] \in Row
    BY HandlerFacts, TableFacts DEF Commit, TxInv, NoGet, TxSteps, Connected, Call
  <1>2. task' = [task EXCEPT ![call[r].task] =
                    IF holder[call[r].task] = r THEN wrote[r] ELSE task[call[r].task]]
    BY DEF Commit, Publish
  <1>3. CASE holder[call[r].task] = r
    <2>1. r # None
      BY RequestsAssumption
    <2>2. Matches(r) /\ wrote[r] = Written(r)
      BY <1>1, <1>3, <2>1 DEF TxInv, WritesStayValid
    <2> QED
      BY <1>1, <1>2, <1>3, <2>2
  <1>4. CASE holder[call[r].task] # r
    <2>1. ~Conditional(call[r]) /\ task[call[r].task].deleted
      BY <1>4 DEF Commit, TxInv, WritesStayValid
    <2>2. call[r].op = "delete"
      BY <1>1, <2>1 DEF Conditional, Call, Ops
    <2>3. task' = task
      BY <1>1, <1>2, <1>4 DEF TxInv, TxTypeOK
    <2> QED
      BY <1>1, <2>1, <2>2, <2>3
  <1> QED
    BY <1>3, <1>4

LEMMA CommitRefines ==
    ASSUME TxInv, NEW r \in Requests, Commit(r)
    PROVE  Atomic!Next
  <1> DEFINE c == call[r]
             t == c.task
  <1>1. ServicePc[r] = "commit"
    BY DEF Commit, ServicePc, TxSteps, Connected
  <1>2. /\ c \in Call /\ c.op # "get" /\ t \in Tasks /\ task \in [Tasks -> Row] /\ task[t] \in Row
        /\ \/ Matches(r) /\ task' = [task EXCEPT ![t] = Written(r)]
           \/ c.op = "delete" /\ task[t].deleted /\ task' = task
    BY PublishedRow DEF TxInv, TxTypeOK, Call
  <1>3. PICK code \in CommitCodes :
           /\ AnswerCommit(r, code, Result(r))
           /\ IF c.op = "assign" THEN Dispatch(r, code) ELSE notify' = notify
    BY DEF Commit
  <1>4. code \in Atomic!CommitCodes
    BY DEF CommitCodes, Atomic!CommitCodes
  <1>5. ServicePc' = [ServicePc EXCEPT ![r] = "done"]
    BY <1>3, ServicePcAt DEF TxInv, AnswerCommit, Answer, TxSteps, Connected
  <1>6. /\ logs' = [logs EXCEPT ![t] = Append(@, Entry(r))]
        /\ call' = call /\ copy' = copy /\ sent' = sent
    BY DEF Commit, Publish, Record
  <1>7. Atomic!AnswerCommit(r, code, Result(r))
    BY <1>3, <1>5 DEF AnswerCommit, Answer, Atomic!AnswerCommit, Atomic!Answer
  <1>8. CASE c.op = "update"
    <2> DEFINE new == Atomic!Edited(copy[r], c)
    <2>1. Result(r) = new
      BY <1>8 DEF Result, Edited, Atomic!Edited
    <2>2. Entry(r) = Atomic!UpdateEntry(c.actor, copy[r], new)
      BY <1>8, Zenon DEF Entry, Edited, Atomic!Edited, UpdateEntry, Atomic!UpdateEntry,
         UpdateAction, Atomic!UpdateAction
    <2>3. /\ Atomic!RowsAffected(t, c.version)
          /\ task' = [task EXCEPT ![t] = Written(r)]
      BY <1>2, <1>8 DEF Matches, Conditional, RowsAffected, Atomic!RowsAffected
    <2>4. Written(r) = [task[t] EXCEPT !.status = new.status, !.assignee = new.assignee,
                                       !.details = new.details, !.version = new.version]
      BY <1>8 DEF Written, Edited, Atomic!Edited
    <2> HIDE DEF new
    <2>5. task' = [task EXCEPT ![t].status = new.status, ![t].assignee = new.assignee,
                               ![t].details = new.details, ![t].version = new.version]
      BY <1>2, <2>3, <2>4
    <2>6. Atomic!CommitUpdate(r)
      BY <1>1, <1>3, <1>4, <1>6, <1>7, <1>8, <2>1, <2>2, <2>3, <2>5
         DEF Atomic!CommitUpdate, Atomic!Record, new
    <2> QED
      BY <2>6 DEF Atomic!Next, Atomic!Handle
  <1>9. CASE c.op = "assign"
    <2> DEFINE new == Atomic!Reassigned(copy[r], c)
    <2>1. Result(r) = new
      BY <1>9 DEF Result, Reassigned, Atomic!Reassigned
    <2>2. Entry(r) = Atomic!AssignEntry(c.actor, copy[r], new)
      BY <1>9 DEF Entry, Reassigned, Atomic!Reassigned, AssignEntry, Atomic!AssignEntry
    <2>3. /\ Atomic!RowsAffected(t, c.version)
          /\ task' = [task EXCEPT ![t] = Written(r)]
      BY <1>2, <1>9 DEF Matches, Conditional, RowsAffected, Atomic!RowsAffected
    <2>4. Written(r) = [task[t] EXCEPT !.assignee = new.assignee, !.version = new.version]
      BY <1>9 DEF Written, Reassigned, Atomic!Reassigned
    <2>5. Atomic!Dispatch(r, code)
      BY <1>3, <1>9 DEF Dispatch, Atomic!Dispatch
    <2> HIDE DEF new
    <2>6. task' = [task EXCEPT ![t].assignee = new.assignee, ![t].version = new.version]
      BY <1>2, <2>3, <2>4
    <2>7. Atomic!CommitAssign(r)
      BY <1>1, <1>4, <1>6, <1>7, <1>9, <2>1, <2>2, <2>3, <2>5, <2>6
         DEF Atomic!CommitAssign, Atomic!Record, new
    <2> QED
      BY <2>7 DEF Atomic!Next, Atomic!Handle
  <1>10. CASE c.op = "delete"
    <2>1. Result(r) = None
      BY <1>10 DEF Result
    <2>2. Entry(r) = Atomic!DeleteEntry(c.actor, copy[r])
      BY <1>10 DEF Entry, DeleteEntry, Atomic!DeleteEntry
    <2>3. Written(r) = [task[t] EXCEPT !.deleted = TRUE]
      BY <1>10 DEF Written
    <2>4. task' = [task EXCEPT ![t].deleted = TRUE]
      <3>1. CASE task' = [task EXCEPT ![t] = Written(r)]
        BY <1>2, <2>3, <3>1
      <3>2. CASE task[t].deleted /\ task' = task
        <4>1. task[t] = [task[t] EXCEPT !.deleted = TRUE]
          BY <1>2, <3>2 DEF Row
        <4> QED
          BY <1>2, <3>2, <4>1
      <3> QED
        BY <1>2, <3>1, <3>2
    <2>5. Atomic!CommitDelete(r)
      BY <1>1, <1>3, <1>4, <1>6, <1>7, <1>10, <2>1, <2>2, <2>4
         DEF Atomic!CommitDelete, Atomic!Record
    <2> QED
      BY <2>5 DEF Atomic!Next, Atomic!Handle
  <1> QED
    BY <1>2, <1>8, <1>9, <1>10 DEF Call, Ops

LEMMA StepRefines ==
    ASSUME TxInv, [TxNext]_allVars
    PROVE  [Atomic!Next]_(Atomic!vars)
  <1>1. CASE UNCHANGED allVars \/ Tick
    BY <1>1 DEF allVars, vars, Tick, ServicePc, Atomic!vars
  <1> QED
    BY <1>1, StampRefines, OutsideRefines, ConflictRefines, TxFailsRefines, CrashRefines, CommitRefines
       DEF TxNext, TxStep

-----------------------------------------------------------------------------
(* Locks and unseen writes.                                                *)

(* What a transaction selects, and would write, depends on its handler's   *)
(* call and copy and on the row.                                           *)
LEMMA WriteKept ==
    ASSUME NEW r \in Requests, call'[r] = call[r], copy'[r] = copy[r],
           task'[call[r].task] = task[call[r].task]
    PROVE  Matches(r)' = Matches(r) /\ Written(r)' = Written(r)
  <1>1. Matches(r)' = Matches(r)
    BY DEF Matches, RowsAffected
  <1>2. Written(r)' = Written(r)
    BY DEF Written
  <1> QED
    BY <1>1, <1>2

(* A step that leaves the rows and the locks alone, and the handlers that  *)
(* have written.                                                           *)
LEMMA LocksKept ==
    ASSUME WritesStayValid, task' = task, holder' = holder, wrote' = wrote,
           \A r \in Requests : pc[r] \in {"record", "end"} =>
              pc'[r] \in {"record", "end"} /\ call'[r] = call[r] /\ copy'[r] = copy[r],
           \A r \in Requests : pc'[r] \in {"record", "end"} =>
              \/ pc[r] \in {"record", "end"}
              \/ call'[r] = call[r] /\ ~Conditional(call[r]) /\ task[call[r].task].deleted,
           TxTypeOK
    PROVE  WritesStayValid'
  <1>1. ASSUME NEW t \in Tasks, NEW r \in Requests, holder[t] = r
        PROVE  /\ pc'[r] \in {"record", "end"} /\ call'[r].task = t
               /\ Matches(r)' /\ wrote'[r] = Written(r)'
    <2>1. pc[r] \in {"record", "end"} /\ call[r].task = t /\ Matches(r) /\ wrote[r] = Written(r)
      BY <1>1 DEF WritesStayValid
    <2>2. pc'[r] \in {"record", "end"} /\ call'[r] = call[r] /\ copy'[r] = copy[r]
      BY <2>1
    <2>3. Matches(r)' = Matches(r) /\ Written(r)' = Written(r)
      BY <2>2, WriteKept
    <2> QED
      BY <2>1, <2>2, <2>3
  <1>2. ASSUME NEW r \in Requests, pc'[r] \in {"record", "end"}
        PROVE  \/ holder[call'[r].task] = r
               \/ ~Conditional(call'[r]) /\ task[call'[r].task].deleted
    BY <1>2 DEF WritesStayValid
  <1> QED
    BY <1>1, <1>2 DEF WritesStayValid, Conditional

(* What a step outside a transaction does.                                 *)
LEMMA OutsideEffect ==
    ASSUME TxInv, NEW r \in Requests,
           \/ Query(r) \/ QueryFails(r)
           \/ \E c \in Calls : (Accept(r, c) \/ Reject(r, c)) /\ UNCHANGED txVars
    PROVE  /\ pc[r] \in {"idle", "find", "assignee", "logs"}
           /\ \E label \in {"find", "assignee", "commit", "logs", "done"} :
                 /\ pc' = [pc EXCEPT ![r] = label]
                 /\ label = "commit" => call'[r].op # "get"
           /\ task' = task /\ logs' = logs
           /\ holder' = holder /\ wrote' = wrote /\ clock' = clock /\ stamp' = stamp
           /\ times' = times
           /\ \A q \in Requests \ {r} : call'[q] = call[q] /\ copy'[q] = copy[q]
  <1> USE DEF Answer, Refuse, db, txVars
  <1> DEFINE CallType == Atomic!Call \cup {None}
             CopyType == Atomic!Row \cup {None}
  <1>0. call \in [Requests -> CallType] /\ copy \in [Requests -> CopyType]
    BY DEF TxInv, Atomic!IInv, Atomic!Typed, Atomic!TypeOK
  <1> HIDE DEF CallType, CopyType
  <1>1. CASE \E c \in Calls : (Accept(r, c) \/ Reject(r, c)) /\ UNCHANGED txVars
    BY <1>0, <1>1 DEF Accept, Reject
  <1>2. CASE FindTask(r) /\ UNCHANGED txVars
    BY <1>0, <1>2 DEF FindTask, StepAfterFind, Conditional
  <1>3. CASE AcceptAssignee(r) /\ UNCHANGED txVars
    <2>1. call[r].op # "get"
      BY <1>3 DEF AcceptAssignee, TxInv, Atomic!IInv, Atomic!Typed, Atomic!HandlerInv,
         Atomic!Conditional, ServicePc, TxSteps, Connected
    <2> QED
      BY <1>3, <2>1 DEF AcceptAssignee
  <1>4. CASE (FindNothing(r) \/ FindStale(r) \/ RefuseAssignee(r) \/ ReadLogs(r)) /\ UNCHANGED txVars
    BY <1>4 DEF FindNothing, FindStale, RefuseAssignee, ReadLogs
  <1>5. CASE QueryFails(r)
    BY <1>5 DEF QueryFails, DbFails, InFlight
  <1> QED
    BY <1>1, <1>2, <1>3, <1>4, <1>5 DEF Query

LEMMA OutsideLocks ==
    ASSUME TxInv, NEW r \in Requests,
           \/ Query(r) \/ QueryFails(r)
           \/ \E c \in Calls : (Accept(r, c) \/ Reject(r, c)) /\ UNCHANGED txVars
    PROVE  TxTypeOK' /\ NoGet' /\ WritesStayValid'
  <1>1. PICK label \in {"find", "assignee", "commit", "logs", "done"} :
           /\ pc' = [pc EXCEPT ![r] = label]
           /\ label = "commit" => call'[r].op # "get"
    BY OutsideEffect
  <1>2. TxTypeOK'
    BY <1>1, OutsideEffect DEF TxInv, TxTypeOK, InFlight
  <1>3. ASSUME NEW q \in Requests, pc'[q] \in {"commit"} \cup TxSteps
        PROVE  call'[q].op # "get"
    <2>1. CASE q = r
      BY <1>1, <1>3, <2>1 DEF TxInv, TxTypeOK, TxSteps, Connected
    <2>2. CASE q # r
      <3>1. pc'[q] = pc[q] /\ call'[q] = call[q]
        BY <1>1, <2>2, OutsideEffect DEF TxInv, TxTypeOK
      <3> QED
        BY <1>3, <3>1 DEF TxInv, NoGet
    <2> QED
      BY <2>1, <2>2
  <1>4. WritesStayValid'
    BY <1>1, OutsideEffect, LocksKept DEF TxInv, TxTypeOK
  <1> QED
    BY <1>2, <1>3, <1>4 DEF NoGet

LEMMA WrittenType ==
    ASSUME TxInv, NEW r \in Requests, pc[r] \in TxSteps
    PROVE  Written(r) \in Row
  <1> DEFINE c   == call[r]
             row == task[c.task]
  <1>1. /\ c \in Call /\ copy[r] \in Row /\ row \in Row
        /\ Conditional(c) /\ c.assignee # None => c.assignee \in Users
        /\ c.op = "assign" => c.assignee # None
    BY HandlerFacts, TableFacts DEF Call, TxSteps, Connected
  <1>2. CASE c.op = "update"
    <2> DEFINE new == Edited(copy[r], c)
    <2>1. new.status \in Statuses /\ new.details \in Details /\ new.version \in Nat
      BY <1>1 DEF Edited, Row, Call
    <2>2. new.assignee \in Users \cup {None}
      BY <1>1, <1>2 DEF Edited, Row, Conditional
    <2>3. Written(r) = [row EXCEPT !.status = new.status, !.assignee = new.assignee,
                                   !.details = new.details, !.version = new.version]
      BY <1>2 DEF Written
    <2> HIDE DEF new, row
    <2> QED
      BY <1>1, <2>1, <2>2, <2>3 DEF Row
  <1>3. CASE c.op = "assign"
    <2> DEFINE new == Reassigned(copy[r], c)
    <2>1. new.assignee \in Users /\ new.version \in Nat
      BY <1>1, <1>3 DEF Reassigned, Row, Conditional, Call
    <2>2. Written(r) = [row EXCEPT !.assignee = new.assignee, !.version = new.version]
      BY <1>3 DEF Written
    <2> HIDE DEF new, row
    <2> QED
      BY <1>1, <2>1, <2>2 DEF Row
  <1>4. CASE c.op \notin {"update", "assign"}
    BY <1>1, <1>4 DEF Written, Row
  <1> QED
    BY <1>2, <1>3, <1>4

(* The steps inside a transaction.                                         *)
LEMMA InsideLocks ==
    ASSUME TxInv, NEW r \in Requests,
           Stamp(r) \/ Begin(r) \/ WriteConflict(r) \/ WriteNothing(r) \/ InsertLog(r)
    PROVE  TxTypeOK' /\ NoGet' /\ WritesStayValid'
  <1> USE DEF TxInv, txVars, Goto, db
  <1>1. PICK label \in {"begin", "write", "record", "end", "done"} : pc' = [pc EXCEPT ![r] = label]
    BY DEF Stamp, Begin, WriteConflict, WriteNothing, InsertLog, Refuse, Answer
  <1>2. /\ pc[r] \in {"commit"} \cup TxSteps
        /\ task' = task /\ call' = call /\ copy' = copy /\ holder' = holder /\ wrote' = wrote
        /\ clock' = clock /\ times' = times
        /\ stamp' \in [Requests -> 0..MaxTime]
    BY DEF Stamp, Begin, WriteConflict, WriteNothing, InsertLog, TxTypeOK, TxSteps, Connected
  <1>3. TxTypeOK'
    <2>1. logs' = logs
      BY DEF Stamp, Begin, WriteConflict, WriteNothing, InsertLog
    <2> QED
      BY <1>1, <1>2, <2>1 DEF TxTypeOK, TxSteps, Connected
  <1>4. NoGet'
    BY <1>1, <1>2 DEF NoGet, TxTypeOK
  <1>5. /\ pc[r] \in {"record", "end"} => label \in {"record", "end"}
        /\ label \in {"record", "end"} =>
              \/ pc[r] \in {"record", "end"}
              \/ ~Conditional(call[r]) /\ task[call[r].task].deleted
    BY <1>1 DEF Stamp, Begin, WriteConflict, WriteNothing, InsertLog, Matches, Refuse, Answer, TxTypeOK
  <1>6. WritesStayValid'
    BY <1>1, <1>2, <1>5, LocksKept DEF TxTypeOK
  <1> QED
    BY <1>3, <1>4, <1>6

LEMMA WriteRowLocks ==
    ASSUME TxInv, NEW r \in Requests, WriteRow(r)
    PROVE  TxTypeOK' /\ NoGet' /\ WritesStayValid'
  <1> DEFINE t == call[r].task
  <1>1. /\ pc[r] = "write" /\ pc' = [pc EXCEPT ![r] = "record"]
        /\ Matches(r) /\ holder[t] = None
        /\ holder' = [holder EXCEPT ![t] = r] /\ wrote' = [wrote EXCEPT ![r] = Written(r)]
        /\ task' = task /\ logs' = logs /\ call' = call /\ copy' = copy
        /\ clock' = clock /\ stamp' = stamp /\ times' = times
    BY DEF WriteRow, Goto, db
  <1>2. t \in Tasks /\ Written(r) \in Row
    BY <1>1, HandlerFacts, WrittenType DEF Call, TxSteps, Connected
  <1>3. TxTypeOK'
    BY <1>1, <1>2 DEF TxInv, TxTypeOK, TxSteps, Connected
  <1>4. NoGet'
    BY <1>1 DEF TxInv, TxTypeOK, NoGet, TxSteps, Connected
  <1>5. ASSUME NEW u \in Tasks, NEW q \in Requests, holder'[u] = q
        PROVE  /\ pc'[q] \in {"record", "end"} /\ call'[q].task = u
               /\ Matches(q)' /\ wrote'[q] = Written(q)'
    <2>1. Matches(q)' = Matches(q) /\ Written(q)' = Written(q)
      BY <1>1, WriteKept
    <2>2. CASE u = t
      <3>1. q = r
        BY <1>1, <1>5, <2>2 DEF TxInv, TxTypeOK
      <3> QED
        BY <1>1, <2>1, <2>2, <3>1 DEF TxInv, TxTypeOK
    <2>3. CASE u # t
      <3>1. holder[u] = q
        BY <1>1, <1>5, <2>3 DEF TxInv, TxTypeOK
      <3>2. /\ pc[q] \in {"record", "end"} /\ call[q].task = u
            /\ Matches(q) /\ wrote[q] = Written(q)
        BY <3>1 DEF TxInv, WritesStayValid
      <3>3. q # r
        BY <1>1, <3>2
      <3> QED
        BY <1>1, <2>1, <3>2, <3>3 DEF TxInv, TxTypeOK
    <2> QED
      BY <2>2, <2>3
  <1>6. ASSUME NEW q \in Requests, pc'[q] \in {"record", "end"}
        PROVE  \/ holder'[call[q].task] = q
               \/ ~Conditional(call[q]) /\ task[call[q].task].deleted
    <2>1. CASE q = r
      BY <1>1, <1>2, <2>1 DEF TxInv, TxTypeOK
    <2>2. CASE q # r
      <3>1. pc[q] \in {"record", "end"} /\ call[q].task \in Tasks
        BY <1>1, <1>6, <2>2, HandlerFacts DEF TxInv, TxTypeOK, Call
      <3>2. \/ holder[call[q].task] = q
            \/ ~Conditional(call[q]) /\ task[call[q].task].deleted
        BY <3>1 DEF TxInv, WritesStayValid
      <3> QED
        BY <1>1, <3>1, <3>2, RequestsAssumption DEF TxInv, TxTypeOK
    <2> QED
      BY <2>1, <2>2
  <1>7. WritesStayValid'
    BY <1>1, <1>5, <1>6 DEF WritesStayValid, Conditional
  <1> QED
    BY <1>3, <1>4, <1>7

(* Transactions that end without a commit.                                 *)
LEMMA EndLocks ==
    ASSUME TxInv, NEW rs \in SUBSET Requests, EndTx(rs),
           pc' = [q \in Requests |-> IF q \in rs THEN "done" ELSE pc[q]],
           UNCHANGED <<task, logs, call, copy, clock, stamp, times>>
    PROVE  TxTypeOK' /\ NoGet' /\ WritesStayValid'
  <1>1. /\ \A t \in Tasks : holder'[t] = IF holder[t] \in rs THEN None ELSE holder[t]
        /\ \A q \in Requests : wrote'[q] = IF q \in rs THEN None ELSE wrote[q]
    BY DEF EndTx
  <1>2. TxTypeOK'
    BY DEF TxInv, TxTypeOK, EndTx
  <1>3. NoGet'
    BY DEF TxInv, NoGet, TxSteps, Connected
  <1>4. ASSUME NEW t \in Tasks, NEW q \in Requests, holder'[t] = q
        PROVE  /\ pc'[q] \in {"record", "end"} /\ call'[q].task = t
               /\ Matches(q)' /\ wrote'[q] = Written(q)'
    <2>1. Matches(q)' = Matches(q) /\ Written(q)' = Written(q)
      BY WriteKept
    <2>2. holder[t] = q /\ q \notin rs
      BY <1>1, <1>4, RequestsAssumption
    <2> QED
      BY <1>1, <2>1, <2>2 DEF TxInv, WritesStayValid
  <1>5. ASSUME NEW q \in Requests, pc'[q] \in {"record", "end"}
        PROVE  \/ holder'[call[q].task] = q
               \/ ~Conditional(call[q]) /\ task[call[q].task].deleted
    <2>1. q \notin rs /\ pc[q] \in {"record", "end"}
      BY <1>5
    <2>2. call[q].task \in Tasks
      BY <2>1, HandlerFacts DEF Call
    <2> QED
      BY <1>1, <2>1, <2>2 DEF TxInv, WritesStayValid
  <1>6. WritesStayValid'
    BY <1>4, <1>5 DEF WritesStayValid, Conditional
  <1> QED
    BY <1>2, <1>3, <1>6

LEMMA CommitLocks ==
    ASSUME TxInv, TxTypeOK', NEW r \in Requests, Commit(r)
    PROVE  NoGet' /\ WritesStayValid'
  <1> DEFINE t == call[r].task
  <1>1. /\ pc[r] = "end" /\ pc' = [pc EXCEPT ![r] = "done"]
        /\ call' = call /\ copy' = copy
        /\ \A u \in Tasks : holder'[u] = IF holder[u] = r THEN None ELSE holder[u]
        /\ \A q \in Requests \ {r} : wrote'[q] = wrote[q]
    BY DEF Commit, EndTx, AnswerCommit, Answer
  <1>2. t \in Tasks /\ task \in [Tasks -> Row] /\ \A u \in Tasks \ {t} : task'[u] = task[u]
    BY PublishedRow DEF TxInv, TxTypeOK, Call
  <1>3. Matches(r) \/ task' = task
    BY PublishedRow
  <1>4. NoGet'
    BY <1>1 DEF TxInv, TxTypeOK, NoGet, TxSteps, Connected
  <1>5. Matches(r) => ~task[t].deleted
    BY DEF Matches, RowsAffected
  <1>6. ASSUME NEW u \in Tasks, NEW q \in Requests, holder'[u] = q
        PROVE  /\ pc'[q] \in {"record", "end"} /\ call'[q].task = u
               /\ Matches(q)' /\ wrote'[q] = Written(q)'
    <2>1. holder[u] = q /\ q # r
      BY <1>1, <1>6, RequestsAssumption
    <2>2. /\ pc[q] \in {"record", "end"} /\ call[q].task = u
          /\ Matches(q) /\ wrote[q] = Written(q)
      BY <2>1 DEF TxInv, WritesStayValid
    <2>3. task'[u] = task[u]
      <3>1. CASE u = t
        <4>1. task[t].deleted
          BY <1>1, <2>1, <3>1 DEF TxInv, WritesStayValid
        <4> QED
          BY <1>3, <1>5, <4>1
      <3> QED
        BY <1>2, <3>1
    <2>4. Matches(q)' = Matches(q) /\ Written(q)' = Written(q)
      BY <1>1, <2>2, <2>3, WriteKept
    <2>5. pc'[q] = pc[q]
      BY <1>1, <2>1 DEF TxInv, TxTypeOK
    <2> QED
      BY <1>1, <2>1, <2>2, <2>4, <2>5
  <1>7. ASSUME NEW q \in Requests, pc'[q] \in {"record", "end"}
        PROVE  \/ holder'[call[q].task] = q
               \/ ~Conditional(call[q]) /\ task'[call[q].task].deleted
    <2>1. q # r /\ pc[q] \in {"record", "end"}
      BY <1>1, <1>7 DEF TxInv, TxTypeOK
    <2>2. call[q].task \in Tasks
      BY <2>1, HandlerFacts DEF Call
    <2>3. CASE holder[call[q].task] = q
      BY <1>1, <2>1, <2>2, <2>3
    <2>4. CASE ~Conditional(call[q]) /\ task[call[q].task].deleted
      BY <1>2, <1>3, <1>5, <2>2, <2>4
    <2> QED
      BY <2>1, <2>3, <2>4 DEF TxInv, WritesStayValid
  <1>8. WritesStayValid'
    BY <1>1, <1>6, <1>7 DEF WritesStayValid, Conditional
  <1> QED
    BY <1>4, <1>8

(* What TaskServiceProofs takes for granted of the constants.              *)
LEMMA AtomicStep ==
    ASSUME Atomic!IInv, [Atomic!Next]_(Atomic!vars)
    PROVE  Atomic!IInv'
  <1>1. Atomic!Typed'
    BY Atomic!TypedStep, UsersAssumption, SentinelAssumption, CreatedAssumption,
       CallsAssumption, FaultsAssumption
       DEF Atomic!IInv, Members, OwnerTeam, Call, Ops,
           Atomic!Members, Atomic!OwnerTeam, Atomic!Call, Atomic!Ops
  <1>2. Atomic!Core'
    BY Atomic!CoreStep, UsersAssumption, SentinelAssumption, CreatedAssumption,
       CallsAssumption, FaultsAssumption
       DEF Atomic!IInv, Members, OwnerTeam, Call, Ops,
           Atomic!Members, Atomic!OwnerTeam, Atomic!Call, Atomic!Ops
  <1> QED
    BY <1>1, <1>2 DEF Atomic!IInv

LEMMA CommitType ==
    ASSUME TxInv, NEW r \in Requests, Commit(r)
    PROVE  TxTypeOK'
  <1>1. Atomic!TypeOK'
    <2>1. Atomic!IInv'
      BY CommitRefines, AtomicStep DEF TxInv
    <2> QED
      BY <2>1 DEF Atomic!IInv, Atomic!Typed
  <1>2. task' \in [Tasks -> Row]
    BY <1>1 DEF Atomic!TypeOK, Atomic!Row, Row
  <1>3. logs' \in [Tasks -> Seq(LogEntry)]
    <2>1. Atomic!LogEntry = LogEntry
      BY DEF Atomic!LogEntry, LogEntry, Atomic!Actions, Actions
    <2> QED
      BY <1>1, <2>1, Zenon DEF Atomic!TypeOK
  <1>4. /\ pc' = [pc EXCEPT ![r] = "done"] /\ clock' = clock /\ stamp' = stamp
        /\ times' = [times EXCEPT ![call[r].task] = Append(times[call[r].task], stamp[r])]
    BY DEF Commit, Publish, AnswerCommit, Answer
  <1>5. times' \in [Tasks -> Seq(0..MaxTime)]
    <2>1. call[r].task \in Tasks
      BY HandlerFacts DEF Commit, Call
    <2>2. Append(times[call[r].task], stamp[r]) \in Seq(0..MaxTime)
      BY <2>1 DEF TxInv, TxTypeOK
    <2> QED
      BY <1>4, <2>1, <2>2 DEF TxInv, TxTypeOK
  <1>6. holder' \in [Tasks -> Requests \cup {None}] /\ wrote' \in [Requests -> Row \cup {None}]
    BY DEF TxInv, TxTypeOK, Commit, EndTx
  <1> QED
    BY <1>2, <1>3, <1>4, <1>5, <1>6 DEF TxInv, TxTypeOK

LEMMA TxFailsLocks ==
    ASSUME TxInv, NEW r \in Requests, TxFails(r)
    PROVE  TxTypeOK' /\ NoGet' /\ WritesStayValid'
  <1>1. pc' = [q \in Requests |-> IF q \in {r} THEN "done" ELSE pc[q]]
    BY DEF TxFails, Refuse, Answer, TxInv, TxTypeOK
  <1>2. EndTx({r}) /\ UNCHANGED <<task, logs, call, copy, clock, stamp, times>>
    BY DEF TxFails, db
  <1> QED
    BY <1>1, <1>2, EndLocks

LEMMA TxCrashLocks ==
    ASSUME TxInv, TxCrash
    PROVE  TxTypeOK' /\ NoGet' /\ WritesStayValid'
  <1>1. PICK gone \in SUBSET Requests :
           /\ pc' = [q \in Requests |-> IF q \in gone THEN "done" ELSE pc[q]]
           /\ EndTx(gone) /\ UNCHANGED <<task, logs, call, copy, clock, stamp, times>>
    BY DEF TxCrash, db
  <1> QED
    BY <1>1, EndLocks

LEMMA LocksStep ==
    ASSUME TxInv, [TxNext]_allVars
    PROVE  TxTypeOK' /\ NoGet' /\ WritesStayValid'
  <1>1. CASE UNCHANGED allVars \/ Tick \/ \E r \in Requests : Notify(r)
    <2>1. /\ task' = task /\ logs' = logs /\ pc' = pc /\ call' = call /\ copy' = copy
          /\ holder' = holder /\ wrote' = wrote /\ stamp' = stamp /\ times' = times
          /\ clock' \in 0..MaxTime
      BY <1>1, BoundsAssumption DEF allVars, vars, txVars, db, Tick, Notify,
         SendTaskAssignedNotification, TxInv, TxTypeOK
    <2>2. TxTypeOK' /\ NoGet'
      BY <2>1 DEF TxInv, TxTypeOK, NoGet
    <2>3. WritesStayValid'
      BY <2>1, LocksKept DEF TxInv
    <2> QED
      BY <2>2, <2>3
  <1>2. ASSUME NEW r \in Requests, Commit(r)
        PROVE  TxTypeOK' /\ NoGet' /\ WritesStayValid'
    BY <1>2, CommitType, CommitLocks
  <1> QED
    BY <1>1, <1>2, OutsideLocks, InsideLocks, WriteRowLocks, TxFailsLocks, TxCrashLocks
       DEF TxNext, TxStep

-----------------------------------------------------------------------------
(* The times.                                                              *)

LEMMA TimeElement ==
    ASSUME NEW S, NEW s \in Seq(S), NEW i \in 1..Len(s)
    PROVE  s[i] \in S
  OBVIOUS

(* A step that draws no time and writes no entry.                          *)
LEMMA TimesKept ==
    ASSUME TxInv, clock' \in Nat, clock <= clock',
           UNCHANGED <<logs, stamp, times>>,
           \A t \in Tasks : task'[t].version = task[t].version,
           \A r \in Requests : pc'[r] \in TxSteps => pc[r] \in TxSteps /\ call'[r] = call[r]
    PROVE  InTime' /\ VersionsInTimeOrder'
  <1>1. /\ \A t \in Tasks : \A i \in 1..Len(times[t]) : times[t][i] \in 0..MaxTime
        /\ \A r \in Requests : stamp[r] \in 0..MaxTime
        /\ clock \in 0..MaxTime
    <2>1. ASSUME NEW t \in Tasks, NEW i \in 1..Len(times[t])
          PROVE  times[t][i] \in 0..MaxTime
      <3>1. times[t] \in Seq(0..MaxTime)
        BY DEF TxInv, TxTypeOK
      <3> QED
        BY <2>1, <3>1, TimeElement
    <2> QED
      BY <2>1 DEF TxInv, TxTypeOK
  <1>2. InTime'
    <2>1. \A r \in Requests : stamp[r] <= clock'
      BY <1>1, BoundsAssumption DEF TxInv, InTime
    <2>2. \A t \in Tasks : /\ Len(times[t]) = Len(logs[t])
                           /\ \A i \in 1..Len(times[t]) : times[t][i] <= clock'
      BY <1>1, BoundsAssumption DEF TxInv, InTime
    <2>3. \A r \in Requests : pc'[r] \in TxSteps /\ Conditional(call'[r]) =>
             \A i \in 1..call'[r].version : times[call'[r].task][i] <= stamp[r]
      BY DEF TxInv, InTime
    <2> QED
      BY <2>1, <2>2, <2>3 DEF InTime, Conditional
  <1>3. VersionsInTimeOrder'
    BY DEF TxInv, VersionsInTimeOrder
  <1> QED
    BY <1>2, <1>3

LEMMA StampTimes ==
    ASSUME TxInv, NEW r \in Requests, Stamp(r)
    PROVE  InTime' /\ VersionsInTimeOrder'
  <1>1. /\ pc[r] = "commit" /\ pc' = [pc EXCEPT ![r] = "begin"]
        /\ stamp' = [stamp EXCEPT ![r] = clock]
        /\ task' = task /\ logs' = logs /\ call' = call /\ times' = times /\ clock' = clock
    BY DEF Stamp, Goto, db
  <1>2. clock \in Nat
    BY DEF TxInv, TxTypeOK
  <1>3. \A q \in Requests : stamp'[q] <= clock
    BY <1>1, <1>2 DEF TxInv, TxTypeOK, InTime
  <1>4. ASSUME NEW q \in Requests, pc'[q] \in TxSteps, Conditional(call[q]),
               NEW i \in 1..call[q].version
        PROVE  times[call[q].task][i] <= stamp'[q]
    <2>1. CASE q = r
      <3>1. call[r] \in Call /\ call[r].version <= task[call[r].task].version
        BY <1>1, <1>4, <2>1, HandlerFacts
      <3>2. task[call[r].task] \in Row /\ task[call[r].task].version <= Len(times[call[r].task])
        BY <3>1, TableFacts DEF TxInv, InTime, Call
      <3>3. i \in 1..Len(times[call[r].task])
        BY <1>4, <2>1, <3>1, <3>2 DEF Row, Call, TxInv, TxTypeOK
      <3> QED
        BY <1>1, <2>1, <3>1, <3>3 DEF TxInv, InTime, TxTypeOK, Call
    <2>2. CASE q # r
      BY <1>1, <1>4, <2>2 DEF TxInv, TxTypeOK, InTime
    <2> QED
      BY <2>1, <2>2
  <1>5. InTime'
    BY <1>1, <1>3, <1>4 DEF TxInv, InTime, Conditional
  <1>6. VersionsInTimeOrder'
    BY <1>1 DEF TxInv, VersionsInTimeOrder
  <1> QED
    BY <1>5, <1>6

LEMMA CommitTimes ==
    ASSUME TxInv, NEW r \in Requests, Commit(r)
    PROVE  InTime' /\ VersionsInTimeOrder'
  <1> DEFINE t == call[r].task
             c == call[r]
  <1>1. /\ pc[r] = "end" /\ pc' = [pc EXCEPT ![r] = "done"]
        /\ times' = [times EXCEPT ![t] = Append(times[t], stamp[r])]
        /\ logs' = [logs EXCEPT ![t] = Append(logs[t], Entry(r))]
        /\ call' = call /\ stamp' = stamp /\ clock' = clock
    BY DEF Commit, Publish, Record, AnswerCommit, Answer
  <1>2. c \in Call /\ t \in Tasks /\ c.version \in Nat
    BY <1>1, HandlerFacts DEF Call
  <1>3. /\ task[t] \in Row /\ task[t].version \in Nat /\ task[t].version <= Len(times[t])
        /\ ~task[t].deleted => Len(times[t]) = task[t].version
    BY <1>2, TableFacts DEF Row, TxInv, InTime
  <1>4. /\ \A u \in Tasks : times[u] \in Seq(0..MaxTime)
        /\ \A q \in Requests : stamp[q] \in 0..MaxTime
        /\ clock \in 0..MaxTime
    BY DEF TxInv, TxTypeOK
  <1>5. /\ times'[t] = Append(times[t], stamp[r])
        /\ Len(times'[t]) = Len(times[t]) + 1
        /\ \A i \in 1..Len(times[t]) : times'[t][i] = times[t][i]
        /\ times'[t][Len(times[t]) + 1] = stamp[r]
    BY <1>1, <1>2, <1>4 DEF TxInv, TxTypeOK
  <1>6. \A u \in Tasks \ {t} : times'[u] = times[u] /\ logs'[u] = logs[u]
    BY <1>1, <1>2 DEF TxInv, TxTypeOK
  <1>7. Len(times'[t]) = Len(logs'[t])
    <2>1. logs'[t] = Append(logs[t], Entry(r)) /\ logs[t] \in Seq(LogEntry)
      BY <1>1, <1>2 DEF TxInv, TxTypeOK
    <2>2. Len(logs'[t]) = Len(logs[t]) + 1
      BY <2>1
    <2> QED
      BY <1>2, <1>5, <2>2 DEF TxInv, InTime
  <1>8. /\ \A u \in Tasks \ {t} : task'[u] = task[u]
        /\ \/ Conditional(c) /\ task[t].version = c.version /\ ~task[t].deleted
              /\ task'[t].version = c.version + 1
           \/ task'[t].version = task[t].version
    <2>1. \/ Matches(r) /\ task' = [task EXCEPT ![t] = Written(r)]
          \/ task' = task
      BY PublishedRow
    <2>2. CASE task' = task
      BY <2>2
    <2>3. CASE Matches(r) /\ task' = [task EXCEPT ![t] = Written(r)]
      <3>1. task'[t] = Written(r) /\ \A u \in Tasks \ {t} : task'[u] = task[u]
        BY <1>2, <2>3 DEF TxInv, TxTypeOK
      <3>2. CASE Conditional(c)
        <4>1. task[t].version = c.version /\ ~task[t].deleted
          BY <2>3, <3>2 DEF Matches, RowsAffected
        <4>2. copy[r] \in Row
          BY <1>1, HandlerFacts DEF TxSteps, Connected
        <4>3. Written(r).version = c.version + 1
          BY <1>3, <3>2, <4>2 DEF Written, Conditional, Edited, Reassigned, Row
        <4> QED
          BY <3>1, <3>2, <4>1, <4>3
      <3>3. CASE ~Conditional(c)
        <4>1. Written(r).version = task[t].version
          BY <1>3, <3>3 DEF Written, Conditional, Row
        <4> QED
          BY <3>1, <4>1
      <3> QED
        BY <3>2, <3>3
    <2> QED
      BY <2>1, <2>2, <2>3
  <1>9. InTime'
    <2>1. ASSUME NEW u \in Tasks
          PROVE  /\ Len(times'[u]) = Len(logs'[u])
                 /\ \A i \in 1..Len(times'[u]) : times'[u][i] <= clock
      <3>1. CASE u = t
        <4>1. \A i \in 1..Len(times[t]) : times'[t][i] <= clock
          BY <1>2, <1>5 DEF TxInv, InTime
        <4>2. stamp[r] <= clock
          BY DEF TxInv, InTime
        <4>3. Len(times[t]) \in Nat
          BY <1>2, <1>4
        <4>4. \A i \in 1..Len(times'[t]) : i \in 1..Len(times[t]) \/ i = Len(times[t]) + 1
          BY <1>5, <4>3
        <4> QED
          BY <1>5, <1>7, <3>1, <4>1, <4>2, <4>4
      <3>2. CASE u # t
        BY <1>6, <3>2 DEF TxInv, InTime
      <3> QED
        BY <3>1, <3>2
    <2>2. ASSUME NEW q \in Requests, pc'[q] \in TxSteps, Conditional(call[q]),
                 NEW i \in 1..call[q].version
          PROVE  times'[call[q].task][i] <= stamp[q]
      <3>1. pc[q] \in TxSteps
        BY <1>1, <2>2 DEF TxInv, TxTypeOK, TxSteps, Connected
      <3>2. times[call[q].task][i] <= stamp[q]
        BY <2>2, <3>1 DEF TxInv, InTime
      <3>3. /\ call[q] \in Call /\ call[q].version <= task[call[q].task].version
        BY <2>2, <3>1, HandlerFacts DEF TxSteps, Connected
      <3>4. CASE call[q].task = t
        <4>1. i \in 1..Len(times[t])
          BY <1>3, <1>4, <2>2, <3>3, <3>4 DEF Call
        <4> QED
          BY <1>5, <3>2, <3>4, <4>1
      <3>5. CASE call[q].task # t
        BY <1>6, <3>2, <3>3, <3>5 DEF Call
      <3> QED
        BY <3>4, <3>5
    <2>3. \A q \in Requests : stamp[q] <= clock
      BY DEF TxInv, InTime
    <2> QED
      BY <1>1, <2>1, <2>2, <2>3 DEF InTime, Conditional
  <1>10. ASSUME NEW u \in Tasks, NEW i \in 1..task'[u].version, NEW j \in 1..task'[u].version, i <= j
         PROVE  times'[u][i] <= times'[u][j]
    <2>1. CASE u # t
      BY <1>6, <1>8, <1>10, <2>1 DEF TxInv, VersionsInTimeOrder
    <2>2. CASE u = t /\ task'[t].version = task[t].version
      <3>1. i \in 1..task[t].version /\ j \in 1..task[t].version
        BY <1>10, <2>2
      <3>2. i \in 1..Len(times[t]) /\ j \in 1..Len(times[t])
        BY <1>3, <1>4, <3>1
      <3>3. times[t][i] <= times[t][j]
        BY <1>2, <1>10, <3>1 DEF TxInv, VersionsInTimeOrder
      <3> QED
        BY <1>5, <2>2, <3>2, <3>3
    <2>3. CASE /\ u = t /\ Conditional(c) /\ task[t].version = c.version /\ ~task[t].deleted
               /\ task'[t].version = c.version + 1
      <3>1. Len(times[t]) = c.version
        BY <1>3, <2>3
      <3>2. CASE j \in 1..c.version
        <4>1. i \in 1..c.version
          BY <1>2, <1>10, <3>2
        <4>2. times[t][i] <= times[t][j]
          BY <1>2, <1>10, <2>3, <3>2, <4>1 DEF TxInv, VersionsInTimeOrder
        <4> QED
          BY <1>5, <2>3, <3>1, <3>2, <4>1, <4>2
      <3>3. CASE j = c.version + 1
        <4>1. times'[t][j] = stamp[r]
          BY <1>5, <3>1, <3>3
        <4>2. CASE i \in 1..c.version
          <5>1. times[t][i] <= stamp[r]
            BY <1>1, <2>3, <4>2 DEF TxInv, InTime, TxSteps, Connected
          <5> QED
            BY <1>5, <2>3, <3>1, <4>1, <4>2, <5>1
        <4>3. CASE i = c.version + 1
          BY <1>4, <2>3, <3>3, <4>1, <4>3
        <4> QED
          BY <1>2, <1>10, <2>3, <4>2, <4>3
      <3> QED
        BY <1>2, <1>10, <2>3, <3>2, <3>3
    <2> QED
      BY <1>8, <2>1, <2>2, <2>3
  <1>11. VersionsInTimeOrder'
    <2>1. \A u \in Tasks : Len(times'[u]) = Len(logs'[u])
      BY <1>9 DEF InTime
    <2> QED
      BY <1>10, <2>1 DEF VersionsInTimeOrder
  <1> QED
    BY <1>9, <1>11

LEMMA TimesStep ==
    ASSUME TxInv, [TxNext]_allVars
    PROVE  InTime' /\ VersionsInTimeOrder'
  <1>1. ASSUME NEW r \in Requests,
               \/ Query(r) \/ QueryFails(r)
               \/ \E c \in Calls : (Accept(r, c) \/ Reject(r, c)) /\ UNCHANGED txVars
        PROVE  InTime' /\ VersionsInTimeOrder'
    <2>1. PICK label \in {"find", "assignee", "commit", "logs", "done"} : pc' = [pc EXCEPT ![r] = label]
      BY <1>1, OutsideEffect
    <2>2. /\ task' = task /\ logs' = logs /\ clock' = clock /\ stamp' = stamp /\ times' = times
          /\ \A q \in Requests \ {r} : call'[q] = call[q]
      BY <1>1, OutsideEffect
    <2>3. \A q \in Requests : pc'[q] \in TxSteps => pc[q] \in TxSteps /\ call'[q] = call[q]
      BY <2>1, <2>2 DEF TxInv, TxTypeOK, TxSteps, Connected
    <2>4. clock \in Nat
      BY DEF TxInv, TxTypeOK
    <2> QED
      BY <2>2, <2>3, <2>4, TimesKept
  <1>2. ASSUME NEW r \in Requests,
               \/ Begin(r) \/ WriteRow(r) \/ WriteConflict(r) \/ WriteNothing(r) \/ InsertLog(r)
               \/ TxFails(r) \/ Notify(r)
        PROVE  InTime' /\ VersionsInTimeOrder'
    <2>1. /\ task' = task /\ logs' = logs /\ call' = call
          /\ clock' = clock /\ stamp' = stamp /\ times' = times
      BY <1>2 DEF Begin, WriteRow, WriteConflict, WriteNothing, InsertLog, TxFails, Notify,
         SendTaskAssignedNotification, db, txVars
    <2>2. \A q \in Requests : pc'[q] \in TxSteps => pc[q] \in TxSteps
      BY <1>2 DEF Begin, WriteRow, WriteConflict, WriteNothing, InsertLog, TxFails, Notify,
         SendTaskAssignedNotification, Goto, Refuse, Answer, TxInv, TxTypeOK, TxSteps, Connected
    <2>3. clock \in Nat
      BY DEF TxInv, TxTypeOK
    <2> QED
      BY <2>1, <2>2, <2>3, TimesKept
  <1>3. CASE TxCrash \/ Tick \/ UNCHANGED allVars
    <2>1. /\ task' = task /\ logs' = logs /\ call' = call /\ stamp' = stamp /\ times' = times
          /\ clock \in Nat /\ clock' \in Nat /\ clock <= clock'
      BY <1>3 DEF TxCrash, Tick, allVars, vars, txVars, db, TxInv, TxTypeOK
    <2>2. \A q \in Requests : pc'[q] \in TxSteps => pc[q] \in TxSteps
      BY <1>3 DEF TxCrash, Tick, allVars, vars, TxSteps, Connected
    <2> QED
      BY <2>1, <2>2, TimesKept
  <1> QED
    BY <1>1, <1>2, <1>3, StampTimes, CommitTimes DEF TxNext, TxStep

-----------------------------------------------------------------------------
(* The invariant and the theorems.                                         *)

LEMMA InitInv == TxInit => TxInv
  <1> SUFFICES ASSUME TxInit PROVE TxInv
    OBVIOUS
  <1>1. ServicePc = [r \in Requests |-> "idle"]
    BY DEF TxInit, Init, ServicePc, TxSteps, Connected
  <1>2. Atomic!Init
    BY <1>1 DEF TxInit, Init, Atomic!Init, FirstRow, Atomic!FirstRow, CreateEntry, Atomic!CreateEntry
  <1>3. Atomic!Typed /\ Atomic!Core
    BY <1>2, Atomic!InitTyped, Atomic!InitCore, UsersAssumption, SentinelAssumption,
       CreatedAssumption, CallsAssumption, FaultsAssumption
       DEF Members, OwnerTeam, Call, Ops,
           Atomic!Members, Atomic!OwnerTeam, Atomic!Call, Atomic!Ops
  <1>4. task \in [Tasks -> Row] /\ logs \in [Tasks -> Seq(LogEntry)]
    <2>1. Atomic!LogEntry = LogEntry
      BY DEF Atomic!LogEntry, LogEntry, Atomic!Actions, Actions
    <2>2. Atomic!Row = Row
      BY DEF Atomic!Row, Row
    <2> QED
      BY <1>3, <2>1, <2>2, Zenon DEF Atomic!Typed, Atomic!TypeOK
  <1>5. \A t \in Tasks : times[t] = <<0>> /\ Len(logs[t]) = 1 /\ task[t].version = 1
    BY DEF TxInit, Init, FirstRow
  <1>6. TxTypeOK
    <2>1. <<0>> \in Seq(0..MaxTime)
      BY BoundsAssumption
    <2>2. times \in [Tasks -> Seq(0..MaxTime)]
      BY <2>1 DEF TxInit
    <2>3. pc \in [Requests -> InFlight \cup TxSteps \cup {"idle", "done"}]
      BY DEF TxInit, Init
    <2>4. /\ holder \in [Tasks -> Requests \cup {None}] /\ wrote \in [Requests -> Row \cup {None}]
          /\ clock \in 0..MaxTime /\ stamp \in [Requests -> 0..MaxTime]
      BY BoundsAssumption DEF TxInit
    <2> QED
      BY <1>4, <2>2, <2>3, <2>4 DEF TxTypeOK
  <1>7. NoGet /\ WritesStayValid
    BY RequestsAssumption DEF TxInit, Init, NoGet, WritesStayValid, TxSteps, Connected
  <1>8. InTime /\ VersionsInTimeOrder
    BY <1>5 DEF TxInit, Init, InTime, VersionsInTimeOrder, TxSteps, Connected
  <1> QED
    BY <1>3, <1>6, <1>7, <1>8 DEF TxInv, Atomic!IInv

LEMMA StepInv == TxInv /\ [TxNext]_allVars => TxInv'
  <1> SUFFICES ASSUME TxInv, [TxNext]_allVars PROVE TxInv'
    OBVIOUS
  <1>1. Atomic!IInv'
    BY StepRefines, AtomicStep DEF TxInv
  <1> QED
    BY <1>1, LocksStep, TimesStep DEF TxInv

LEMMA TxInvariance == TxSpec => []TxInv
  BY InitInv, StepInv, PTL DEF TxSpec

(* In every state reached, the tables, the rows and the times have the     *)
(* shape their comments give them, and a handler is at one of its labels.  *)
THEOREM TxTypeCorrect == TxSpec => []TxTypeOK
  <1>1. TxInv => TxTypeOK
    BY DEF TxInv
  <1> QED
    BY <1>1, TxInvariance, PTL

(* A transaction that has written keeps what it wrote valid until it ends, *)
(* whatever the other handlers, the failures and the restarts in between   *)
(* (repository lines 62-75, 80-89 and 104-113).                            *)
THEOREM LocksKeepWrites == TxSpec => []WritesStayValid
  <1>1. TxInv => WritesStayValid
    BY DEF TxInv
  <1> QED
    BY <1>1, TxInvariance, PTL

(* The entries of a task's versions carry times in the order of the        *)
(* versions, however long a handler waits between drawing its time         *)
(* (service lines 324 and 394) and its commit.                             *)
THEOREM TimesFollowVersions == TxSpec => []VersionsInTimeOrder
  <1>1. TxInv => VersionsInTimeOrder
    BY DEF TxInv
  <1> QED
    BY <1>1, TxInvariance, PTL

(* Atomic and Service are two instances of the same definitions.           *)
LEMMA SameVars == UNCHANGED Atomic!vars => UNCHANGED Service!vars
  BY DEF Atomic!vars, Service!vars, Atomic!db, Service!db

LEMMA SameNext == Atomic!Next => Service!Next
  BY Zenon DEF
         Service!Next, Service!Accept, Service!Reject, Service!Handle, Service!DbFails,
         Service!SendTaskAssignedNotification, Service!Crash, Service!FindNothing,
         Service!FindStale, Service!FindTask, Service!AcceptAssignee,
         Service!RefuseAssignee, Service!CommitUpdate, Service!CommitAssign,
         Service!CommitDelete, Service!StaleCommit, Service!ReadLogs, Service!Valid,
         Service!Visible, Service!Conditional, Service!StepAfterFind,
         Service!RowsAffected, Service!CommitCodes, Service!AnswerCommit,
         Service!Record, Service!Edited, Service!UpdateAction, Service!UpdateEntry,
         Service!Reassigned, Service!AssignEntry, Service!Dispatch, Service!DeleteEntry,
         Service!Answer, Service!Refuse, Service!InFlight, Service!db, Service!Members,
         Service!OwnerTeam, Atomic!Next, Atomic!Accept, Atomic!Reject, Atomic!Handle,
         Atomic!DbFails, Atomic!SendTaskAssignedNotification, Atomic!Crash,
         Atomic!FindNothing, Atomic!FindStale, Atomic!FindTask, Atomic!AcceptAssignee,
         Atomic!RefuseAssignee, Atomic!CommitUpdate, Atomic!CommitAssign,
         Atomic!CommitDelete, Atomic!StaleCommit, Atomic!ReadLogs, Atomic!Valid,
         Atomic!Visible, Atomic!Conditional, Atomic!StepAfterFind, Atomic!RowsAffected,
         Atomic!CommitCodes, Atomic!AnswerCommit, Atomic!Record, Atomic!Edited,
         Atomic!UpdateAction, Atomic!UpdateEntry, Atomic!Reassigned, Atomic!AssignEntry,
         Atomic!Dispatch, Atomic!DeleteEntry, Atomic!Answer, Atomic!Refuse,
         Atomic!InFlight, Atomic!db, Atomic!Members, Atomic!OwnerTeam

(* Statement by statement, with the waits for connections and locks, the   *)
(* rollbacks and the crashes between two statements, the handlers          *)
(* implement TaskService, whose transactions are single steps.             *)
THEOREM TransactionsAreAtomic == TxSpec => ImplementsTaskService
  <1>1. TxInit => Service!Init
    <2> SUFFICES ASSUME TxInit PROVE Service!Init
      OBVIOUS
    <2>1. ServicePc = [r \in Requests |-> "idle"]
      BY DEF TxInit, Init, ServicePc, TxSteps, Connected
    <2> QED
      BY <2>1 DEF TxInit, Init, Service!Init, FirstRow, Service!FirstRow,
         CreateEntry, Service!CreateEntry
  <1>2. TxInv /\ [TxNext]_allVars => [Service!Next]_(Service!vars)
    BY StepRefines, SameNext, SameVars
  <1> QED
    BY <1>1, <1>2, TxInvariance, PTL DEF TxSpec, Service!Spec, ImplementsTaskService

(* What TaskServiceProofs shows of single-step transactions therefore      *)
(* holds of the statements: row and audit log never part.                  *)
THEOREM TxAuditTrailKept == TxSpec => []AuditTrail
  <1>1. TxInv => AuditTrail
    BY DEF TxInv, Atomic!IInv, Atomic!Core, Atomic!AuditTrail, AuditTrail
  <1> QED
    BY <1>1, TxInvariance, PTL

(* Atomic!Abstract and Abstract are two instances of VersionedTask.         *)
LEMMA SameAbstractNext == Atomic!Abstract!Next => Abstract!Next
  BY Zenon DEF
         Abstract!Next, Abstract!Edit, Abstract!Reassign, Abstract!Delete,
         Abstract!Write, Abstract!EditEntry, Abstract!Changed, Abstract!KindOfEdit,
         Abstract!StatusIs, Abstract!AssigneeIs, Abstract!Members, Abstract!OwnerTeam,
         Atomic!Abstract!Next, Atomic!Abstract!Edit, Atomic!Abstract!Reassign,
         Atomic!Abstract!Delete, Atomic!Abstract!Write, Atomic!Abstract!EditEntry,
         Atomic!Abstract!Changed, Atomic!Abstract!KindOfEdit, Atomic!Abstract!StatusIs,
         Atomic!Abstract!AssigneeIs, Atomic!Abstract!Members, Atomic!Abstract!OwnerTeam

LEMMA SameAbstractSpec == Atomic!ImplementsVersionedTask => ImplementsVersionedTask
  <1>1. Atomic!Abstract!Init => Abstract!Init
    BY DEF Atomic!Abstract!Init, Abstract!Init, Atomic!Abstract!FirstRow, Abstract!FirstRow,
       Atomic!Abstract!CreateEntry, Abstract!CreateEntry
  <1>2. UNCHANGED Atomic!Abstract!vars => UNCHANGED Abstract!vars
    BY DEF Atomic!Abstract!vars, Abstract!vars
  <1>3. [Atomic!Abstract!Next]_(Atomic!Abstract!vars) => [Abstract!Next]_(Abstract!vars)
    BY <1>2, SameAbstractNext
  <1> QED
    BY <1>1, <1>3, PTL DEF Atomic!ImplementsVersionedTask, Atomic!Abstract!Spec,
       ImplementsVersionedTask, Abstract!Spec

LEMMA AtomicSpec == TxSpec => Atomic!Spec
  <1>1. TxInit => Atomic!Init
    <2> SUFFICES ASSUME TxInit PROVE Atomic!Init
      OBVIOUS
    <2>1. ServicePc = [r \in Requests |-> "idle"]
      BY DEF TxInit, Init, ServicePc, TxSteps, Connected
    <2> QED
      BY <2>1 DEF TxInit, Init, Atomic!Init, FirstRow, Atomic!FirstRow,
         CreateEntry, Atomic!CreateEntry
  <1>2. TxInv /\ [TxNext]_allVars => [Atomic!Next]_(Atomic!vars)
    BY StepRefines
  <1> QED
    BY <1>1, <1>2, TxInvariance, PTL DEF TxSpec, Atomic!Spec

(* The tables go through the versions of VersionedTask.                    *)
THEOREM TxRefinement == TxSpec => ImplementsVersionedTask
  <1>1. Atomic!Spec => Atomic!ImplementsVersionedTask
    BY Atomic!Refinement, UsersAssumption, SentinelAssumption, CreatedAssumption,
       CallsAssumption, FaultsAssumption
       DEF Members, OwnerTeam, Call, Ops,
           Atomic!Members, Atomic!OwnerTeam, Atomic!Call, Atomic!Ops
  <1> QED
    BY <1>1, AtomicSpec, SameAbstractSpec, PTL

(* Whatever statements interleave, replaying a task's audit log yields its *)
(* row, and a DELETE entry records a state the task once had.              *)
THEOREM TxHistoryKept == TxSpec => [](AuditReplays /\ DeletionSnapshot)
  <1>1. Atomic!Spec => []Atomic!AuditReplays
    BY Atomic!LogReplaysToRow, UsersAssumption, SentinelAssumption, CreatedAssumption,
       CallsAssumption, FaultsAssumption
       DEF Members, OwnerTeam, Call, Ops,
           Atomic!Members, Atomic!OwnerTeam, Atomic!Call, Atomic!Ops
  <1>2. Atomic!Spec => []Atomic!DeletionSnapshot
    BY Atomic!DeletionsRecordSnapshots, UsersAssumption, SentinelAssumption, CreatedAssumption,
       CallsAssumption, FaultsAssumption
       DEF Members, OwnerTeam, Call, Ops,
           Atomic!Members, Atomic!OwnerTeam, Atomic!Call, Atomic!Ops
  <1>3. Atomic!AuditReplays => AuditReplays
    BY DEF Atomic!AuditReplays, AuditReplays, Atomic!StatusIs, StatusIs, Atomic!AssigneeIs,
           AssigneeIs
  <1>4. Atomic!DeletionSnapshot => DeletionSnapshot
    BY DEF Atomic!DeletionSnapshot, DeletionSnapshot, Atomic!StatusIs, StatusIs,
           Atomic!AssigneeIs, AssigneeIs
  <1> QED
    BY <1>1, <1>2, <1>3, <1>4, AtomicSpec, PTL

(* A request is answered in TaskTx when it is answered in TaskService.     *)
LEMMA SameAnswers ==
    \A r \in Requests : /\ Atomic!Succeeded(r) <=> Succeeded(r)
                        /\ Atomic!Applied(r) <=> Applied(r)
  <1> SUFFICES ASSUME NEW r \in Requests
               PROVE  ServicePc[r] = "done" <=> pc[r] = "done"
    BY DEF Atomic!Succeeded, Succeeded, Atomic!Applied, Applied, Atomic!Conditional, Conditional
  <1> QED
    BY DEF ServicePc, TxSteps, Connected

(* What clients are told by handlers that run statement by statement holds *)
(* as it does of TaskService: no acknowledged update is lost, a response   *)
(* shows a committed row with at least the log entries of its version,     *)
(* teams stay apart, and notifications are about committed assignments.    *)
THEOREM TxAnswersHold ==
    TxSpec => [](/\ NoLostUpdate /\ ReplyWasCommitted /\ DetailCoversVersion
                 /\ TeamsApart /\ NotificationMatchesCommit)
  <1>1. Atomic!Spec => []Atomic!NoLostUpdate
    BY Atomic!UpdatesAreNotLost, UsersAssumption, SentinelAssumption, CreatedAssumption,
       CallsAssumption, FaultsAssumption
       DEF Members, OwnerTeam, Call, Ops,
           Atomic!Members, Atomic!OwnerTeam, Atomic!Call, Atomic!Ops
  <1>2. Atomic!Spec => []Atomic!ReplyWasCommitted
    BY Atomic!RepliesWereCommitted, UsersAssumption, SentinelAssumption, CreatedAssumption,
       CallsAssumption, FaultsAssumption
       DEF Members, OwnerTeam, Call, Ops,
           Atomic!Members, Atomic!OwnerTeam, Atomic!Call, Atomic!Ops
  <1>3. Atomic!Spec => []Atomic!DetailCoversVersion
    BY Atomic!DetailsCoverVersions, UsersAssumption, SentinelAssumption, CreatedAssumption,
       CallsAssumption, FaultsAssumption
       DEF Members, OwnerTeam, Call, Ops,
           Atomic!Members, Atomic!OwnerTeam, Atomic!Call, Atomic!Ops
  <1>4. Atomic!Spec => []Atomic!TeamsApart
    BY Atomic!TeamsStayApart, UsersAssumption, SentinelAssumption, CreatedAssumption,
       CallsAssumption, FaultsAssumption
       DEF Members, OwnerTeam, Call, Ops,
           Atomic!Members, Atomic!OwnerTeam, Atomic!Call, Atomic!Ops
  <1>5. Atomic!Spec => []Atomic!NotificationMatchesCommit
    BY Atomic!NotificationsMatchCommits, UsersAssumption, SentinelAssumption, CreatedAssumption,
       CallsAssumption, FaultsAssumption
       DEF Members, OwnerTeam, Call, Ops,
           Atomic!Members, Atomic!OwnerTeam, Atomic!Call, Atomic!Ops
  <1>6. Atomic!NoLostUpdate => NoLostUpdate
    BY SameAnswers DEF Atomic!NoLostUpdate, NoLostUpdate
  <1>7. Atomic!ReplyWasCommitted => ReplyWasCommitted
    BY SameAnswers DEF Atomic!ReplyWasCommitted, ReplyWasCommitted, Atomic!StatusIs, StatusIs,
           Atomic!AssigneeIs, AssigneeIs
  <1>8. Atomic!DetailCoversVersion => DetailCoversVersion
    BY SameAnswers DEF Atomic!DetailCoversVersion, DetailCoversVersion, Atomic!AssigneeIs,
           AssigneeIs
  <1>9. Atomic!TeamsApart => TeamsApart
    BY SameAnswers DEF Atomic!TeamsApart, TeamsApart, Atomic!Members, Members,
           Atomic!OwnerTeam, OwnerTeam
  <1>10. Atomic!NotificationMatchesCommit => NotificationMatchesCommit
    BY DEF Atomic!NotificationMatchesCommit, NotificationMatchesCommit
  <1> QED
    BY <1>1, <1>2, <1>3, <1>4, <1>5, <1>6, <1>7, <1>8, <1>9, <1>10, AtomicSpec, PTL

(* No statement of any handler changes or restores a deleted task.         *)
THEOREM TxDeletionIsFinal == TxSpec => DeletedIsFinal
  <1>1. Atomic!Spec => Atomic!DeletedIsFinal
    BY Atomic!DeletionIsFinal, UsersAssumption, SentinelAssumption, CreatedAssumption,
       CallsAssumption, FaultsAssumption
       DEF Members, OwnerTeam, Call, Ops,
           Atomic!Members, Atomic!OwnerTeam, Atomic!Call, Atomic!Ops
  <1>2. [Atomic!StaysDeleted]_(Atomic!vars) => [StaysDeleted]_vars
    <2>1. Atomic!StaysDeleted => StaysDeleted
      BY DEF Atomic!StaysDeleted, StaysDeleted
    <2>2. Atomic!vars' = Atomic!vars => task' = task /\ logs' = logs
      BY DEF Atomic!vars
    <2> QED
      BY <2>1, <2>2 DEF StaysDeleted
  <1> QED
    BY <1>1, <1>2, AtomicSpec, PTL DEF Atomic!DeletedIsFinal, DeletedIsFinal
=============================================================================
