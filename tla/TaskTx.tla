-------------------------------- MODULE TaskTx --------------------------------
(***************************************************************************)
(* The transactions of TaskService statement by statement.  TaskService    *)
(* lets a transaction read, check, write and commit in one step; here a    *)
(* handler draws the time its audit entry will carry, waits for one of the *)
(* pool's connections, sends the UPDATE of the task's row, the INSERT of   *)
(* the audit entry and the COMMIT, and others run in between.              *)
(*                                                                         *)
(* task and logs are the committed tables.  PostgreSQL at READ COMMITTED:  *)
(* a statement sees what is committed when it runs; an UPDATE locks the    *)
(* row it matches until its transaction ends; one that matches a locked    *)
(* row waits, and is matched against the row again once the lock is gone.  *)
(* A transaction that ends without COMMIT leaves nothing behind.           *)
(*                                                                         *)
(* The steps of TaskService outside the transactions are unchanged, but a  *)
(* query, too, needs a free connection while it runs.  The clock is the    *)
(* process's, and does not go backwards.                                   *)
(***************************************************************************)
EXTENDS TaskService, FiniteSets

CONSTANTS
    MaxOpenConn,  \* cfg.DBPoolMaxOpenConn; 0: as many as are asked for
    MaxTime       \* bound of the model: the clock stops there

ASSUME BoundsAssumption == MaxOpenConn \in Nat /\ MaxTime \in Nat
ASSUME RequestsAssumption == None \notin Requests

VARIABLES
    holder,  \* per task: the request whose transaction locks the row
    wrote,   \* per request: the row version its transaction has written
    clock,
    stamp,   \* per request: the time its audit entry carries
    times    \* per task: created_at of each entry of logs

txVars == <<holder, wrote, clock, stamp, times>>
allVars == <<vars, txVars>>

Connected == {"write", "record", "end"}
TxSteps == {"begin"} \cup Connected

(* One connection of the pool was taken at the start for the migrations    *)
(* (RunMigrations, line 82), and nothing gives it back.                    *)
FreeConnection ==
    \/ MaxOpenConn = 0
    \/ Cardinality({r \in Requests : pc[r] \in Connected}) + 1 < MaxOpenConn

TxInit ==
    /\ Init
    /\ holder = [t \in Tasks |-> None]
    /\ wrote = [r \in Requests |-> None]
    /\ clock = 0
    /\ stamp = [r \in Requests |-> 0]
    /\ times = [t \in Tasks |-> <<0>>]

-----------------------------------------------------------------------------
Goto(r, label) == pc' = [pc EXCEPT ![r] = label]

(* Mutation: the time was drawn earlier, when the request arrived.         *)
StampEarly(r) ==
    /\ pc[r] = "commit"
    /\ \E early \in 0..clock : stamp' = [stamp EXCEPT ![r] = early]
    /\ Goto(r, "begin")
    /\ UNCHANGED <<db, call, copy, reply, notify, sent, holder, wrote, clock, times>>

(* now := time.Now(), after the last query before the transaction.         *)
Stamp(r) ==
    /\ pc[r] = "commit"
    /\ stamp' = [stamp EXCEPT ![r] = clock]
    /\ Goto(r, "begin")
    /\ UNCHANGED <<db, call, copy, reply, notify, sent, holder, wrote, clock, times>>

Begin(r) ==
    /\ pc[r] = "begin" /\ FreeConnection
    /\ Goto(r, "write")
    /\ UNCHANGED <<db, call, copy, reply, notify, sent, txVars>>

(* The rows the transaction's UPDATE selects, among the committed ones:    *)
(* a deletion selects by identifier alone.                                 *)
Matches(r) ==
    LET c == call[r]
    IN  IF Conditional(c) THEN RowsAffected(c.task, c.version) ELSE ~task[c.task].deleted

(* The row version that the UPDATE leaves, from the row it locked.         *)
Written(r) ==
    LET c   == call[r]
        row == task[c.task]
    IN  CASE c.op = "update" ->
                 LET new == Edited(copy[r], c)
                 IN  [row EXCEPT !.status = new.status, !.assignee = new.assignee,
                                 !.details = new.details, !.version = new.version]
          [] c.op = "assign" ->
                 LET new == Reassigned(copy[r], c)
                 IN  [row EXCEPT !.assignee = new.assignee, !.version = new.version]
          [] OTHER -> [row EXCEPT !.deleted = TRUE]

(* Mutation: the UPDATE does not wait for the row's lock.                  *)
WriteUnlocked(r) ==
    /\ pc[r] = "write" /\ Matches(r)
    /\ holder' = [holder EXCEPT ![call[r].task] = r]
    /\ wrote' = [wrote EXCEPT ![r] = Written(r)]
    /\ Goto(r, "record")
    /\ UNCHANGED <<db, call, copy, reply, notify, sent, clock, stamp, times>>

WriteRow(r) ==
    /\ pc[r] = "write" /\ Matches(r) /\ holder[call[r].task] = None
    /\ holder' = [holder EXCEPT ![call[r].task] = r]
    /\ wrote' = [wrote EXCEPT ![r] = Written(r)]
    /\ Goto(r, "record")
    /\ UNCHANGED <<db, call, copy, reply, notify, sent, clock, stamp, times>>

(* Mutation: the number of rows is not looked at.                          *)
ConflictIgnored(r) ==
    /\ pc[r] = "write" /\ ~Matches(r) /\ Conditional(call[r])
    /\ Goto(r, "record")
    /\ UNCHANGED <<db, call, copy, reply, notify, sent, txVars>>

(* No row: a conflict for an update or an assignment, and a rollback.  The *)
(* deletion does not look at the number of rows and goes on.               *)
WriteConflict(r) ==
    /\ pc[r] = "write" /\ ~Matches(r) /\ Conditional(call[r])
    /\ Refuse(r, "stale")
    /\ UNCHANGED <<db, call, copy, notify, sent, txVars>>

WriteNothing(r) ==
    /\ pc[r] = "write" /\ ~Matches(r) /\ ~Conditional(call[r])
    /\ Goto(r, "record")
    /\ UNCHANGED <<db, call, copy, reply, notify, sent, txVars>>

InsertLog(r) ==
    /\ pc[r] = "record"
    /\ Goto(r, "end")
    /\ UNCHANGED <<db, call, copy, reply, notify, sent, txVars>>

(* The entry the handler built before the transaction, and the row it      *)
(* answers with after it.                                                  *)
Entry(r) ==
    LET c == call[r]
    IN  CASE c.op = "update" -> UpdateEntry(c.actor, copy[r], Edited(copy[r], c))
          [] c.op = "assign" -> AssignEntry(c.actor, copy[r], Reassigned(copy[r], c))
          [] OTHER           -> DeleteEntry(c.actor, copy[r])

Result(r) ==
    LET c == call[r]
    IN  CASE c.op = "update" -> Edited(copy[r], c)
          [] c.op = "assign" -> Reassigned(copy[r], c)
          [] OTHER           -> None

(* Mutation: the lock outlives a rolled back transaction.                  *)
EndTxLocked(rs) ==
    /\ holder' = holder
    /\ wrote' = [r \in Requests |-> IF r \in rs THEN None ELSE wrote[r]]

(* What the transactions of requests rs leave of locks and unseen writes.  *)
EndTx(rs) ==
    /\ holder' = [t \in Tasks |-> IF holder[t] \in rs THEN None ELSE holder[t]]
    /\ wrote' = [r \in Requests |-> IF r \in rs THEN None ELSE wrote[r]]

(* Mutation: a transaction that wrote no row publishes one all the same.   *)
PublishAnyRow(r, t) ==
    /\ task' = [task EXCEPT ![t] = wrote[r]]
    /\ Record(t, Entry(r))
    /\ times' = [times EXCEPT ![t] = Append(@, stamp[r])]

Publish(r, t) ==
    /\ task' = [task EXCEPT ![t] = IF holder[t] = r THEN wrote[r] ELSE @]
    /\ Record(t, Entry(r))
    /\ times' = [times EXCEPT ![t] = Append(@, stamp[r])]

Commit(r) ==
    /\ pc[r] = "end"
    /\ Publish(r, call[r].task)
    /\ EndTx({r})
    /\ \E code \in CommitCodes :
          /\ AnswerCommit(r, code, Result(r))
          /\ IF call[r].op = "assign" THEN Dispatch(r, code) ELSE notify' = notify
    /\ UNCHANGED <<call, copy, sent, clock, stamp>>

(* No connection in time, a statement that fails, a wait for the lock that *)
(* a cancelled request ends: the transaction is rolled back.               *)
TxFails(r) ==
    /\ "db" \in Faults
    /\ pc[r] \in TxSteps
    /\ Refuse(r, "error")
    /\ EndTx({r})
    /\ UNCHANGED <<db, call, copy, notify, sent, clock, stamp, times>>

-----------------------------------------------------------------------------
(* The steps outside a transaction.                                        *)

Query(r) ==
    /\ FreeConnection
    /\ \/ FindNothing(r) \/ FindStale(r) \/ FindTask(r)
       \/ AcceptAssignee(r) \/ RefuseAssignee(r) \/ ReadLogs(r)
    /\ UNCHANGED txVars

QueryFails(r) == pc[r] # "commit" /\ DbFails(r) /\ UNCHANGED txVars

Notify(r) == SendTaskAssignedNotification(r) /\ UNCHANGED txVars

(* The database rolls back the transactions of a process that is gone.     *)
TxCrash ==
    LET gone == {r \in Requests : pc[r] \in InFlight \cup TxSteps}
    IN  /\ "crash" \in Faults
        /\ notify # {} \/ gone # {}
        /\ pc' = [r \in Requests |-> IF r \in gone THEN "done" ELSE pc[r]]
        /\ reply' = [r \in Requests |-> IF r \in gone
                                        THEN [code |-> "lost", row |-> None, logs |-> <<>>]
                                        ELSE reply[r]]
        /\ notify' = {}
        /\ EndTx(gone)
        /\ UNCHANGED <<db, call, copy, sent, clock, stamp, times>>

Tick ==
    /\ clock < MaxTime
    /\ clock' = clock + 1
    /\ UNCHANGED <<vars, holder, wrote, stamp, times>>

TxStep(r) ==
    \/ Query(r) \/ Stamp(r) \/ Begin(r)
    \/ WriteRow(r) \/ WriteConflict(r) \/ WriteNothing(r)
    \/ InsertLog(r) \/ Commit(r)

TxNext ==
    \/ \E r \in Requests, c \in Calls : (Accept(r, c) \/ Reject(r, c)) /\ UNCHANGED txVars
    \/ \E r \in Requests : TxStep(r) \/ QueryFails(r) \/ TxFails(r) \/ Notify(r)
    \/ TxCrash \/ Tick

TxSpec == TxInit /\ [][TxNext]_allVars

(* A handler that has been started runs on, and so does a goroutine; no    *)
(* client has to call.  Weak fairness is enough for a handler that waits   *)
(* for a connection or a lock: there are finitely many requests, each is   *)
(* handled once, and whoever has a connection gives it back.               *)
TxFairSpec == TxSpec /\ \A r \in Requests : /\ WF_allVars(TxStep(r))
                                            /\ WF_allVars(Notify(r))

-----------------------------------------------------------------------------
(* Properties.                                                             *)

ServicePc == [r \in Requests |-> IF pc[r] \in TxSteps THEN "commit" ELSE pc[r]]

(* The tables, the locks, the unseen writes and the times have the shape   *)
(* their comments give them; Service!TypeOK is about the rest.             *)
TxTypeOK ==
    /\ task \in [Tasks -> Row]
    /\ logs \in [Tasks -> Seq(LogEntry)]
    /\ pc \in [Requests -> InFlight \cup TxSteps \cup {"idle", "done"}]
    /\ holder \in [Tasks -> Requests \cup {None}]
    /\ wrote \in [Requests -> Row \cup {None}]
    /\ clock \in 0..MaxTime
    /\ stamp \in [Requests -> 0..MaxTime]
    /\ times \in [Tasks -> Seq(0..MaxTime)]

(* A transaction that has written keeps what it wrote valid until it ends: *)
(* the row it matched still matches, and its write is still what it would  *)
(* write now.  A row's lock is held by the transaction that wrote the row, *)
(* and only a deletion of a deleted row goes on without one (repository    *)
(* lines 62-75, 80-89 and 104-113).                                        *)
WritesStayValid ==
    /\ \A t \in Tasks, r \in Requests : holder[t] = r =>
          /\ pc[r] \in {"record", "end"} /\ call[r].task = t
          /\ Matches(r) /\ wrote[r] = Written(r)
    /\ \A r \in Requests : pc[r] \in {"record", "end"} =>
          \/ holder[call[r].task] = r
          \/ ~Conditional(call[r]) /\ task[call[r].task].deleted

(* The entries that stand for versions of a task carry times in the order  *)
(* of the versions, however long a handler waited between drawing its time *)
(* (service lines 324 and 394) and its commit: the detail view, which      *)
(* lists entries by time (repository line 49), shows changes in the order  *)
(* in which they happened.  Deletions may carry an earlier time (180).     *)
VersionsInTimeOrder ==
    \A t \in Tasks :
        /\ Len(times[t]) = Len(logs[t])
        /\ \A i, j \in 1..task[t].version : i <= j => times[t][i] <= times[t][j]

(* Locks and rollbacks make each transaction one step: statement by        *)
(* statement, the handlers still implement TaskService.                    *)
Service == INSTANCE TaskService WITH pc <- ServicePc
ImplementsTaskService == Service!Spec

(* The pool has a connection besides the one kept from the migrations: a   *)
(* DB_POOL_MAX_OPEN_CONN of 1, which nothing rejects (config line 76), and *)
(* no handler ever gets one.                                               *)
PoolServes == MaxOpenConn # 1

(* A pool that serves at all answers every request that reached the        *)
(* server: no handler waits for ever for a connection or for a row that    *)
(* another transaction has locked.                                         *)
TxAnswered ==
    PoolServes => \A r \in Requests : pc[r] \in InFlight \cup TxSteps ~> pc[r] = "done"
=============================================================================
