------------------------- MODULE TaskServiceHistory -------------------------
(***************************************************************************)
(* Proofs about what TaskService records and answers, for every value of   *)
(* its constants: the audit log replays to the row, a deletion records a   *)
(* snapshot, and every answer and every notification is about a version    *)
(* that was committed and that nobody else was told to have made.          *)
(***************************************************************************)
EXTENDS TaskServiceProofs

(* What a prefix of a log replays to does not depend on what follows it.   *)
LEMMA PrefixReplay ==
    ASSUME NEW S, NEW log \in Seq(S), NEW longer \in Seq(S), NEW k \in Nat,
           k <= Len(log), Len(log) <= Len(longer),
           \A i \in 1..Len(log) : longer[i] = log[i]
    PROVE  /\ \A s : StatusIs(log, k, s) => StatusIs(longer, k, s)
           /\ \A a : AssigneeIs(log, k, a) => AssigneeIs(longer, k, a)
  <1>1. \A i \in 1..k : longer[i] = log[i]
    OBVIOUS
  <1>2. ASSUME NEW i \in 1..k, NEW j \in (i + 1)..k
        PROVE  j \in 1..k
    OBVIOUS
  <1>3. ASSUME NEW s, StatusIs(log, k, s)
        PROVE  StatusIs(longer, k, s)
    <2>1. PICK i \in 1..k : /\ log[i].toStatus = s
                            /\ \A j \in (i + 1)..k : log[j].toStatus = None
      BY <1>3 DEF StatusIs
    <2>2. \A j \in (i + 1)..k : longer[j].toStatus = None
      BY <1>1, <1>2, <2>1
    <2> QED
      BY <1>1, <2>1, <2>2 DEF StatusIs
  <1>4. ASSUME NEW a, AssigneeIs(log, k, a)
        PROVE  AssigneeIs(longer, k, a)
    <2>1. PICK i \in 1..k : /\ log[i].toAssignee = a
                            /\ i = 1 \/ a # None
                            /\ \A j \in (i + 1)..k : log[j].toAssignee = None
      BY <1>4 DEF AssigneeIs
    <2>2. \A j \in (i + 1)..k : longer[j].toAssignee = None
      BY <1>1, <1>2, <2>1
    <2> QED
      BY <1>1, <2>1, <2>2 DEF AssigneeIs
  <1> QED
    BY <1>3, <1>4

-----------------------------------------------------------------------------
(* What a step does to the two tables.                                     *)

(* A write records its change from the row it replaces; a member makes it, *)
(* and the new row belongs to a member, or to whom the old one did.        *)
MemberWrite(t, new, entry) ==
    /\ WriteEffect(t, new, entry)
    /\ entry.toStatus # None => entry.fromStatus = task[t].status
    /\ entry.toAssignee # None => entry.fromAssignee = task[t].assignee
    /\ entry.actor \in Members(OwnerTeam(t))
    /\ new.assignee \in Members(OwnerTeam(t)) \cup {task[t].assignee}

Wrote == \E t \in Tasks, new \in Row, entry \in LogEntry : MemberWrite(t, new, entry)

(* A deletion records the row at one of its versions.                      *)
MemberDelete(t, entry) ==
    /\ DeleteEffect(t, entry)
    /\ entry.actor \in Members(OwnerTeam(t))
    /\ \E k \in 1..task[t].version : /\ StatusIs(logs[t], k, entry.fromStatus)
                                     /\ AssigneeIs(logs[t], k, entry.fromAssignee)

Deleted == \E t \in Tasks, entry \in LogEntry : MemberDelete(t, entry)

LEMMA ActorIsMember ==
    ASSUME Typed, NEW r \in Requests, pc[r] \in Reading
    PROVE  /\ call[r] \in Call /\ call[r].task \in Tasks
           /\ OwnerTeam(call[r].task) = TeamOf[call[r].actor]
           /\ call[r].actor \in Members(OwnerTeam(call[r].task))
  <1>1. call[r] \in Call
    BY CallsAssumption DEF Typed, TypeOK, Reading
  <1>2. OwnerTeam(call[r].task) = TeamOf[call[r].actor]
    BY DEF Typed, HandlerInv
  <1> QED
    BY <1>1, <1>2 DEF Call, Members

LEMMA UpdateWrites ==
    ASSUME IInv, NEW r \in Requests, CommitUpdate(r)
    PROVE  LET t     == call[r].task
               new   == Edited(copy[r], call[r])
           IN  MemberWrite(t, new, UpdateEntry(call[r].actor, task[t], new))
  <1> DEFINE c     == call[r]
             t     == c.task
             new   == Edited(copy[r], c)
             entry == UpdateEntry(c.actor, task[t], new)
  <1>1. t \in Tasks /\ copy[r] = task[t] /\ WriteEffect(t, new, entry)
    BY UpdateEffect DEF IInv, Core
  <1>2. /\ c \in Call /\ OwnerTeam(t) = TeamOf[c.actor]
        /\ c.actor \in Members(OwnerTeam(t))
    BY ActorIsMember DEF IInv, CommitUpdate, Reading
  <1>3. new.assignee \in Members(OwnerTeam(t)) \cup {task[t].assignee}
    <2>1. c.assignee # None => c.assignee \in Members(OwnerTeam(t))
      BY <1>2 DEF IInv, Typed, HandlerInv, CommitUpdate, Conditional
    <2>2. task[t] \in Row
      BY <1>1 DEF IInv, Typed, TypeOK
    <2>3. new.assignee = IF c.assignee = None THEN task[t].assignee ELSE c.assignee
      BY <1>1, <2>2 DEF Edited, Row
    <2> QED
      BY <2>1, <2>3
  <1> HIDE DEF new
  <1>4. /\ entry.toStatus # None => entry.fromStatus = task[t].status
        /\ entry.toAssignee # None => entry.fromAssignee = task[t].assignee
        /\ entry.actor = c.actor
    BY DEF UpdateEntry
  <1>5. MemberWrite(t, new, entry)
    BY <1>1, <1>2, <1>3, <1>4 DEF MemberWrite
  <1> QED
    BY <1>5 DEF new

LEMMA AssignWrites ==
    ASSUME IInv, NEW r \in Requests, CommitAssign(r)
    PROVE  LET t   == call[r].task
               new == [task[t] EXCEPT !.assignee = call[r].assignee, !.version = @ + 1]
           IN  /\ copy[r] = task[t]
               /\ call[r].assignee \in Members(OwnerTeam(t))
               /\ new.assignee = call[r].assignee
               /\ MemberWrite(t, new,
                     [action |-> "ASSIGN", actor |-> call[r].actor,
                      fromStatus |-> None, toStatus |-> None,
                      fromAssignee |-> task[t].assignee, toAssignee |-> call[r].assignee])
  <1> DEFINE c     == call[r]
             t     == c.task
             a     == c.assignee
             v     == task[t].version + 1
             new   == [task[t] EXCEPT !.assignee = a, !.version = v]
             entry == [action |-> "ASSIGN", actor |-> c.actor,
                       fromStatus |-> None, toStatus |-> None,
                       fromAssignee |-> task[t].assignee, toAssignee |-> a]
  <1>1. /\ t \in Tasks /\ copy[r] = task[t] /\ WriteEffect(t, new, entry)
        /\ a \in Members(TeamOf[c.actor])
    BY AssignEffect DEF IInv, Core
  <1>2. /\ OwnerTeam(t) = TeamOf[c.actor] /\ c.actor \in Members(OwnerTeam(t))
    BY ActorIsMember DEF IInv, CommitAssign, Reading
  <1>3. new.assignee = a
    <2>1. task[t] \in Row
      BY <1>1 DEF IInv, Typed, TypeOK
    <2> HIDE DEF a, v
    <2> QED
      BY <2>1 DEF Row
  <1> HIDE DEF new
  <1>4. MemberWrite(t, new, entry)
    BY <1>1, <1>2, <1>3 DEF MemberWrite
  <1> QED
    BY <1>1, <1>2, <1>3, <1>4 DEF new

LEMMA DeleteWrites ==
    ASSUME IInv, NEW r \in Requests, CommitDelete(r)
    PROVE  Deleted
  <1> DEFINE t     == call[r].task
             entry == [action |-> "DELETE", actor |-> call[r].actor,
                       fromStatus |-> copy[r].status, toStatus |-> None,
                       fromAssignee |-> copy[r].assignee, toAssignee |-> None]
  <1>1. t \in Tasks /\ DeleteEffect(t, entry) /\ entry \in LogEntry
    BY DeletionEffect DEF IInv, DeleteEffect
  <1>2. entry.actor \in Members(OwnerTeam(t))
    BY ActorIsMember DEF IInv, CommitDelete, Reading
  <1>3. /\ copy[r].version >= 1 /\ copy[r].version <= task[t].version
        /\ StatusIs(logs[t], copy[r].version, copy[r].status)
        /\ AssigneeIs(logs[t], copy[r].version, copy[r].assignee)
    BY DEF IInv, Core, CopyWasCommitted, FreshCopy, CommitDelete, Reading
  <1>4. copy[r].version \in 1..task[t].version
    BY <1>1, <1>3 DEF IInv, Typed, TypeOK, CommitDelete, Reading, Row
  <1>5. MemberDelete(t, entry)
    BY <1>1, <1>2, <1>3, <1>4 DEF MemberDelete
  <1> QED
    BY <1>1, <1>5 DEF Deleted

LEMMA TableSteps ==
    ASSUME IInv, [Next]_vars
    PROVE  UNCHANGED db \/ Wrote \/ Deleted
  <1>1. ASSUME NEW r \in Requests, CommitUpdate(r)
        PROVE  Wrote
    <2> DEFINE t     == call[r].task
               new   == Edited(copy[r], call[r])
               entry == UpdateEntry(call[r].actor, task[t], new)
    <2>1. t \in Tasks /\ MemberWrite(t, new, entry)
      BY <1>1, UpdateWrites, ActorIsMember DEF IInv, CommitUpdate, Reading
    <2> HIDE DEF new, entry
    <2> QED
      BY <2>1 DEF Wrote, MemberWrite, WriteEffect
  <1>2. ASSUME NEW r \in Requests, CommitAssign(r)
        PROVE  Wrote
    <2> DEFINE t     == call[r].task
               new   == [task[t] EXCEPT !.assignee = call[r].assignee, !.version = @ + 1]
               entry == [action |-> "ASSIGN", actor |-> call[r].actor,
                         fromStatus |-> None, toStatus |-> None,
                         fromAssignee |-> task[t].assignee, toAssignee |-> call[r].assignee]
    <2>1. t \in Tasks /\ MemberWrite(t, new, entry)
      BY <1>2, AssignWrites, ActorIsMember DEF IInv, CommitAssign, Reading
    <2> HIDE DEF new, entry
    <2> QED
      BY <2>1 DEF Wrote, MemberWrite, WriteEffect
  <1> QED
    BY <1>1, <1>2, DeleteWrites, StepKinds

(* The tables only grow: a log keeps its entries, a version never falls.   *)
Grows ==
    \A t \in Tasks : /\ Len(logs[t]) <= Len(logs'[t])
                     /\ \A i \in 1..Len(logs[t]) : logs'[t][i] = logs[t][i]
                     /\ task[t].version <= task'[t].version

LEMMA TableTypes ==
    ASSUME IInv
    PROVE  /\ task \in [Tasks -> Row] /\ logs \in [Tasks -> Seq(LogEntry)]
           /\ \A t \in Tasks : /\ task[t] \in Row /\ logs[t] \in Seq(LogEntry)
                               /\ task[t].version \in Nat /\ Len(logs[t]) \in Nat
                               /\ task[t].version >= 1
                               /\ task[t].version <= Len(logs[t])
  <1>1. /\ task \in [Tasks -> Row] /\ logs \in [Tasks -> Seq(LogEntry)]
        /\ \A t \in Tasks : task[t].version >= 1 /\ task[t].version <= Len(logs[t])
    BY DEF IInv, Typed, TypeOK, Core, AuditTrail, RowWasCommitted
  <1>2. \A row \in Row : row.version \in Nat
    BY DEF Row
  <1> QED
    BY <1>1, <1>2

LEMMA MemberWriteAt ==
    ASSUME IInv, NEW t \in Tasks, NEW new \in Row, NEW entry \in LogEntry,
           MemberWrite(t, new, entry)
    PROVE  /\ task'[t] = new /\ logs'[t] = Append(logs[t], entry)
           /\ Len(logs[t]) = task[t].version
           /\ Len(logs'[t]) = Len(logs[t]) + 1
           /\ logs'[t][Len(logs[t]) + 1] = entry
           /\ \A i \in 1..Len(logs[t]) : logs'[t][i] = logs[t][i]
           /\ task'[t].version = task[t].version + 1
           /\ \A u \in Tasks \ {t} : task'[u] = task[u] /\ logs'[u] = logs[u]
  <1>1. /\ task'[t] = new /\ logs'[t] = Append(logs[t], entry)
        /\ new.version = task[t].version + 1
        /\ \A u \in Tasks \ {t} : task'[u] = task[u] /\ logs'[u] = logs[u]
    BY TableTypes DEF MemberWrite, WriteEffect
  <1>2. Len(logs[t]) = task[t].version
    BY TableTypes DEF MemberWrite, WriteEffect, IInv, Core, AuditTrail
  <1> QED
    BY <1>1, <1>2, TableTypes, AppendFacts

LEMMA MemberDeleteAt ==
    ASSUME IInv, NEW t \in Tasks, NEW entry \in LogEntry, MemberDelete(t, entry)
    PROVE  /\ logs'[t] = Append(logs[t], entry)
           /\ Len(logs'[t]) = Len(logs[t]) + 1
           /\ logs'[t][Len(logs[t]) + 1] = entry
           /\ \A i \in 1..Len(logs[t]) : logs'[t][i] = logs[t][i]
           /\ task'[t].version = task[t].version /\ task'[t].assignee = task[t].assignee
           /\ \A u \in Tasks \ {t} : task'[u] = task[u] /\ logs'[u] = logs[u]
  <1>1. /\ task'[t] = [task[t] EXCEPT !.deleted = TRUE] /\ logs'[t] = Append(logs[t], entry)
        /\ \A u \in Tasks \ {t} : task'[u] = task[u] /\ logs'[u] = logs[u]
    BY TableTypes DEF MemberDelete, DeleteEffect
  <1>2. task'[t].version = task[t].version /\ task'[t].assignee = task[t].assignee
    BY <1>1, TableTypes DEF Row
  <1> QED
    BY <1>1, <1>2, TableTypes, AppendFacts

LEMMA StepGrows ==
    ASSUME IInv, [Next]_vars
    PROVE  Grows
  <1>1. CASE UNCHANGED db
    BY <1>1, TableTypes DEF db, Grows
  <1>2. CASE Wrote
    <2>1. PICK t \in Tasks, new \in Row, entry \in LogEntry : MemberWrite(t, new, entry)
      BY <1>2 DEF Wrote
    <2>2. ASSUME NEW u \in Tasks
          PROVE  /\ Len(logs[u]) <= Len(logs'[u])
                 /\ \A i \in 1..Len(logs[u]) : logs'[u][i] = logs[u][i]
                 /\ task[u].version <= task'[u].version
      <3>1. CASE u = t
        BY <2>1, <3>1, MemberWriteAt, TableTypes
      <3>2. CASE u # t
        BY <2>1, <3>2, MemberWriteAt, TableTypes
      <3> QED
        BY <3>1, <3>2
    <2> QED
      BY <2>2 DEF Grows
  <1>3. CASE Deleted
    <2>1. PICK t \in Tasks, entry \in LogEntry : MemberDelete(t, entry)
      BY <1>3 DEF Deleted
    <2>2. ASSUME NEW u \in Tasks
          PROVE  /\ Len(logs[u]) <= Len(logs'[u])
                 /\ \A i \in 1..Len(logs[u]) : logs'[u][i] = logs[u][i]
                 /\ task[u].version <= task'[u].version
      <3>1. CASE u = t
        BY <2>1, <3>1, MemberDeleteAt, TableTypes
      <3>2. CASE u # t
        BY <2>1, <3>2, MemberDeleteAt, TableTypes
      <3> QED
        BY <3>1, <3>2
    <2> QED
      BY <2>2 DEF Grows
  <1> QED
    BY <1>1, <1>2, <1>3, TableSteps

(* What the log had replayed to at a version it replays to for ever.       *)
LEMMA HistoryStands ==
    ASSUME IInv, IInv', Grows, NEW t \in Tasks, NEW k \in 1..Len(logs[t])
    PROVE  /\ \A s : StatusIs(logs[t], k, s) => StatusIs(logs'[t], k, s)
           /\ \A a : AssigneeIs(logs[t], k, a) => AssigneeIs(logs'[t], k, a)
           /\ logs'[t][k] = logs[t][k]
  <1>1. logs[t] \in Seq(LogEntry) /\ logs'[t] \in Seq(LogEntry)
    BY DEF IInv, Typed, TypeOK
  <1>2. /\ Len(logs[t]) <= Len(logs'[t])
        /\ \A i \in 1..Len(logs[t]) : logs'[t][i] = logs[t][i]
    BY DEF Grows
  <1>3. k \in Nat /\ k <= Len(logs[t])
    BY <1>1
  <1> QED
    BY <1>1, <1>2, <1>3, PrefixReplay

-----------------------------------------------------------------------------
(* What the log of a task says, by induction on the steps.                 *)

(* Each change is recorded from what the entries before it had left.       *)
EntriesChain ==
    \A t \in Tasks : \A i \in 2..task[t].version :
        /\ logs[t][i].toStatus # None => StatusIs(logs[t], i - 1, logs[t][i].fromStatus)
        /\ logs[t][i].toAssignee # None => AssigneeIs(logs[t], i - 1, logs[t][i].fromAssignee)

RecordsOfMembers ==
    \A t \in Tasks :
        /\ task[t].assignee \in Members(OwnerTeam(t)) \cup {None}
        /\ \A i \in 1..Len(logs[t]) : logs[t][i].actor \in Members(OwnerTeam(t))

History == EntriesChain /\ DeletionSnapshot /\ RecordsOfMembers

LEMMA InitHistory == Init => History
  <1> SUFFICES ASSUME Init PROVE History
    OBVIOUS
  <1>1. ASSUME NEW t \in Tasks
        PROVE  /\ task[t].version = 1 /\ Len(logs[t]) = 1
               /\ logs[t][1].actor = Creator[t] /\ task[t].assignee = Created[t].assignee
    BY DEF Init, FirstRow, CreateEntry
  <1>2. EntriesChain
    BY <1>1 DEF EntriesChain
  <1>3. DeletionSnapshot
    BY <1>1 DEF DeletionSnapshot
  <1>4. ASSUME NEW t \in Tasks
        PROVE  /\ Created[t].assignee \in Members(OwnerTeam(t)) \cup {None}
               /\ Creator[t] \in Members(OwnerTeam(t))
    BY UsersAssumption, CreatedAssumption DEF Members, OwnerTeam
  <1>5. RecordsOfMembers
    <2> SUFFICES ASSUME NEW t \in Tasks
                 PROVE  /\ task[t].assignee \in Members(OwnerTeam(t)) \cup {None}
                        /\ \A i \in 1..Len(logs[t]) :
                              logs[t][i].actor \in Members(OwnerTeam(t))
      BY DEF RecordsOfMembers
    <2>1. \A i \in 1..1 : i = 1
      OBVIOUS
    <2> QED
      BY <1>1, <1>4, <2>1
  <1> QED
    BY <1>2, <1>3, <1>5 DEF History

LEMMA ChainStep ==
    ASSUME IInv, IInv', EntriesChain, [Next]_vars
    PROVE  EntriesChain'
  <1>1. Grows
    BY StepGrows
  <1> SUFFICES ASSUME NEW t \in Tasks, NEW i \in 2..task'[t].version
               PROVE  /\ logs'[t][i].toStatus # None
                            => StatusIs(logs'[t], i - 1, logs'[t][i].fromStatus)
                      /\ logs'[t][i].toAssignee # None
                            => AssigneeIs(logs'[t], i - 1, logs'[t][i].fromAssignee)
    BY Zenon DEF EntriesChain
  <1>2. task[t].version \in Nat /\ Len(logs[t]) \in Nat /\ task[t].version <= Len(logs[t])
    BY TableTypes
  <1>3. CASE i \in 2..task[t].version
    <2>1. i \in 1..Len(logs[t]) /\ i - 1 \in 1..Len(logs[t])
      BY <1>2, <1>3
    <2>2. /\ logs[t][i].toStatus # None => StatusIs(logs[t], i - 1, logs[t][i].fromStatus)
          /\ logs[t][i].toAssignee # None
                => AssigneeIs(logs[t], i - 1, logs[t][i].fromAssignee)
      BY <1>3 DEF EntriesChain
    <2>3. logs'[t][i] = logs[t][i]
      BY <1>1, <2>1 DEF Grows
    <2> QED
      BY <1>1, <2>1, <2>2, <2>3, HistoryStands
  <1>4. CASE i \notin 2..task[t].version
    <2>1. task'[t].version # task[t].version
      BY <1>4
    <2>2. CASE UNCHANGED db
      BY <2>1, <2>2 DEF db
    <2>3. CASE Deleted
      <3>1. PICK u \in Tasks, entry \in LogEntry : MemberDelete(u, entry)
        BY <2>3 DEF Deleted
      <3> QED
        BY <2>1, <3>1, MemberDeleteAt
    <2>4. CASE Wrote
      <3>1. PICK u \in Tasks, new \in Row, entry \in LogEntry : MemberWrite(u, new, entry)
        BY <2>4 DEF Wrote
      <3>2. u = t
        BY <2>1, <3>1, MemberWriteAt
      <3>3. /\ Len(logs[t]) = task[t].version /\ task'[t].version = task[t].version + 1
            /\ logs'[t][Len(logs[t]) + 1] = entry
        BY <3>1, <3>2, MemberWriteAt
      <3>4. i = Len(logs[t]) + 1 /\ i - 1 = Len(logs[t]) /\ Len(logs[t]) \in 1..Len(logs[t])
        BY <1>2, <1>4, <3>3
      <3>5. /\ StatusIs(logs[t], Len(logs[t]), task[t].status)
            /\ AssigneeIs(logs[t], Len(logs[t]), task[t].assignee)
        BY DEF IInv, Core, RowWasCommitted
      <3>6. /\ StatusIs(logs'[t], Len(logs[t]), task[t].status)
            /\ AssigneeIs(logs'[t], Len(logs[t]), task[t].assignee)
        BY <1>1, <3>4, <3>5, HistoryStands
      <3>7. /\ entry.toStatus # None => entry.fromStatus = task[t].status
            /\ entry.toAssignee # None => entry.fromAssignee = task[t].assignee
        BY <3>1, <3>2 DEF MemberWrite
      <3> QED
        BY <3>3, <3>4, <3>6, <3>7
    <2> QED
      BY <2>2, <2>3, <2>4, TableSteps
  <1> QED
    BY <1>3, <1>4

LEMMA SnapshotStep ==
    ASSUME IInv, IInv', DeletionSnapshot, [Next]_vars
    PROVE  DeletionSnapshot'
  <1>1. Grows
    BY StepGrows
  <1> SUFFICES ASSUME NEW t \in Tasks, NEW i \in (task'[t].version + 1)..Len(logs'[t])
               PROVE  \E k \in 1..task'[t].version :
                          /\ StatusIs(logs'[t], k, logs'[t][i].fromStatus)
                          /\ AssigneeIs(logs'[t], k, logs'[t][i].fromAssignee)
    BY Zenon DEF DeletionSnapshot
  <1>2. /\ task[t].version \in Nat /\ Len(logs[t]) \in Nat /\ task[t].version <= Len(logs[t])
        /\ task'[t].version \in Nat /\ Len(logs'[t]) \in Nat
    BY TableTypes DEF IInv, Typed, TypeOK, Row
  <1>3. task[t].version <= task'[t].version
    BY <1>1 DEF Grows
  <1>4. ASSUME i \in 1..Len(logs[t])
        PROVE  \E k \in 1..task'[t].version :
                          /\ StatusIs(logs'[t], k, logs'[t][i].fromStatus)
                          /\ AssigneeIs(logs'[t], k, logs'[t][i].fromAssignee)
    <2>1. i \in (task[t].version + 1)..Len(logs[t])
      BY <1>2, <1>3, <1>4
    <2>2. PICK k \in 1..task[t].version : /\ StatusIs(logs[t], k, logs[t][i].fromStatus)
                                          /\ AssigneeIs(logs[t], k, logs[t][i].fromAssignee)
      BY <2>1 DEF DeletionSnapshot
    <2>3. k \in 1..Len(logs[t]) /\ k \in 1..task'[t].version
      BY <1>2, <1>3
    <2>4. logs'[t][i] = logs[t][i]
      BY <1>1, <1>4 DEF Grows
    <2> QED
      BY <1>1, <2>2, <2>3, <2>4, HistoryStands
  <1>5. ASSUME i \notin 1..Len(logs[t])
        PROVE  \E k \in 1..task'[t].version :
                          /\ StatusIs(logs'[t], k, logs'[t][i].fromStatus)
                          /\ AssigneeIs(logs'[t], k, logs'[t][i].fromAssignee)
    <2>1. Len(logs'[t]) > Len(logs[t]) /\ i \in Nat /\ i > task'[t].version
      BY <1>2, <1>5
    <2>2. CASE UNCHANGED db
      BY <1>2, <2>1, <2>2 DEF db
    <2>3. CASE Wrote
      <3>1. PICK u \in Tasks, new \in Row, entry \in LogEntry : MemberWrite(u, new, entry)
        BY <2>3 DEF Wrote
      <3>2. u = t
        BY <1>2, <2>1, <3>1, MemberWriteAt
      <3>3. Len(logs'[t]) = task'[t].version
        BY <3>1, <3>2, MemberWriteAt
      <3> QED
        BY <1>2, <2>1, <3>3
    <2>4. CASE Deleted
      <3>1. PICK u \in Tasks, entry \in LogEntry : MemberDelete(u, entry)
        BY <2>4 DEF Deleted
      <3>2. u = t
        BY <1>2, <2>1, <3>1, MemberDeleteAt
      <3>3. /\ Len(logs'[t]) = Len(logs[t]) + 1 /\ logs'[t][Len(logs[t]) + 1] = entry
            /\ task'[t].version = task[t].version
        BY <3>1, <3>2, MemberDeleteAt
      <3>4. i = Len(logs[t]) + 1
        BY <1>2, <1>5, <3>3
      <3>5. PICK k \in 1..task[t].version : /\ StatusIs(logs[t], k, entry.fromStatus)
                                            /\ AssigneeIs(logs[t], k, entry.fromAssignee)
        BY <3>1, <3>2 DEF MemberDelete
      <3>6. k \in 1..Len(logs[t])
        BY <1>2
      <3>7. StatusIs(logs'[t], k, entry.fromStatus) /\ AssigneeIs(logs'[t], k, entry.fromAssignee)
        BY <1>1, <3>5, <3>6, HistoryStands
      <3> QED
        BY <3>3, <3>4, <3>7
    <2> QED
      BY <2>2, <2>3, <2>4, TableSteps
  <1> QED
    BY <1>4, <1>5

LEMMA RecordsStep ==
    ASSUME IInv, IInv', RecordsOfMembers, [Next]_vars
    PROVE  RecordsOfMembers'
  <1> SUFFICES ASSUME NEW t \in Tasks
               PROVE  /\ task'[t].assignee \in Members(OwnerTeam(t)) \cup {None}
                      /\ \A i \in 1..Len(logs'[t]) : logs'[t][i].actor \in Members(OwnerTeam(t))
    BY Zenon DEF RecordsOfMembers
  <1>1. /\ task[t].assignee \in Members(OwnerTeam(t)) \cup {None}
        /\ \A i \in 1..Len(logs[t]) : logs[t][i].actor \in Members(OwnerTeam(t))
        /\ Len(logs[t]) \in Nat
    BY TableTypes DEF RecordsOfMembers
  <1>2. CASE task'[t] = task[t] /\ logs'[t] = logs[t]
    BY <1>1, <1>2
  <1>3. ASSUME NEW entry \in LogEntry, entry.actor \in Members(OwnerTeam(t)),
               Len(logs'[t]) = Len(logs[t]) + 1, logs'[t][Len(logs[t]) + 1] = entry,
               \A i \in 1..Len(logs[t]) : logs'[t][i] = logs[t][i]
        PROVE  \A i \in 1..Len(logs'[t]) : logs'[t][i].actor \in Members(OwnerTeam(t))
    <2> SUFFICES ASSUME NEW i \in 1..Len(logs'[t])
                 PROVE  logs'[t][i].actor \in Members(OwnerTeam(t))
      OBVIOUS
    <2>1. i \in 1..Len(logs[t]) \/ i = Len(logs[t]) + 1
      BY <1>1, <1>3
    <2> QED
      BY <1>1, <1>3, <2>1
  <1>4. CASE UNCHANGED db
    BY <1>2, <1>4 DEF db
  <1>5. CASE Wrote
    <2>1. PICK u \in Tasks, new \in Row, entry \in LogEntry : MemberWrite(u, new, entry)
      BY <1>5 DEF Wrote
    <2>2. CASE u = t
      <3>1. /\ entry.actor \in Members(OwnerTeam(t))
            /\ new.assignee \in Members(OwnerTeam(t)) \cup {task[t].assignee}
        BY <2>1, <2>2 DEF MemberWrite
      <3> QED
        BY <1>1, <1>3, <2>1, <2>2, <3>1, MemberWriteAt
    <2>3. CASE u # t
      BY <1>2, <2>1, <2>3, MemberWriteAt
    <2> QED
      BY <2>2, <2>3
  <1>6. CASE Deleted
    <2>1. PICK u \in Tasks, entry \in LogEntry : MemberDelete(u, entry)
      BY <1>6 DEF Deleted
    <2>2. CASE u = t
      <3>1. entry.actor \in Members(OwnerTeam(t))
        BY <2>1, <2>2 DEF MemberDelete
      <3> QED
        BY <1>1, <1>3, <2>1, <2>2, <3>1, MemberDeleteAt
    <2>3. CASE u # t
      BY <1>2, <2>1, <2>3, MemberDeleteAt
    <2> QED
      BY <2>2, <2>3
  <1> QED
    BY <1>4, <1>5, <1>6, TableSteps

LEMMA HistoryInvariance == Spec => [](IInv /\ History)
  <1>1. Init => IInv /\ History
    BY InitTyped, InitCore, InitHistory DEF IInv
  <1>2. IInv /\ [Next]_vars => IInv'
    BY TypedStep, CoreStep DEF IInv
  <1>3. IInv /\ History /\ [Next]_vars => (IInv /\ History)'
    BY <1>2, ChainStep, SnapshotStep, RecordsStep DEF History
  <1> QED
    BY <1>1, <1>3, PTL DEF Spec

(* The audit log replays to the row, and every change is recorded from the *)
(* value that the entries before it had left, under every interleaving.    *)
THEOREM LogReplaysToRow == Spec => []AuditReplays
  <1>1. IInv /\ History => AuditReplays
    BY DEF IInv, Core, RowWasCommitted, History, EntriesChain, AuditReplays
  <1> QED
    BY <1>1, HistoryInvariance, PTL

(* A DELETE entry records a status and an assignee that the task had       *)
(* together, although the deletion compares no version.                    *)
THEOREM DeletionsRecordSnapshots == Spec => []DeletionSnapshot
  <1>1. History => DeletionSnapshot
    BY DEF History
  <1> QED
    BY <1>1, HistoryInvariance, PTL

-----------------------------------------------------------------------------
(* Answers are final.                                                      *)

(* A step leaves a request's answer alone, gives it none or an error, or   *)
(* is the statement that answers it with 200.                              *)
AnswerStep(r) ==
    \/ pc'[r] = pc[r] /\ reply'[r] = reply[r] /\ call'[r] = call[r]
    \/ ~Succeeded(r) /\ ~Succeeded(r)'
    \/ ReadLogs(r) \/ CommitUpdate(r) \/ CommitAssign(r) \/ CommitDelete(r)

LEMMA AnswerSteps ==
    ASSUME IInv, [Next]_vars, NEW r \in Requests
    PROVE  AnswerStep(r)
  <1>0. /\ pc \in [Requests -> InFlight \cup {"idle", "done"}]
        /\ reply \in [Requests -> Reply \cup {None}]
        /\ call \in [Requests -> Call \cup {None}]
    BY DEF IInv, Typed, TypeOK
  <1>1. ASSUME NEW q \in Requests, NEW c \in Calls, Accept(q, c) \/ Reject(q, c)
        PROVE  AnswerStep(r)
    BY <1>0, <1>1 DEF Accept, Reject, Refuse, Answer, Succeeded, AnswerStep
  <1>2. ASSUME NEW q \in Requests,
               FindNothing(q) \/ FindStale(q) \/ RefuseAssignee(q) \/ StaleCommit(q) \/ DbFails(q)
        PROVE  AnswerStep(r)
    BY <1>0, <1>2 DEF FindNothing, FindStale, RefuseAssignee, StaleCommit, DbFails, Refuse,
       Answer, Succeeded, InFlight, AnswerStep
  <1>3. ASSUME NEW q \in Requests, FindTask(q) \/ AcceptAssignee(q)
        PROVE  AnswerStep(r)
    BY <1>0, <1>3 DEF FindTask, AcceptAssignee, StepAfterFind, Succeeded, AnswerStep
  <1>4. ASSUME NEW q \in Requests,
               ReadLogs(q) \/ CommitUpdate(q) \/ CommitAssign(q) \/ CommitDelete(q)
        PROVE  AnswerStep(r)
    <2>1. CASE q = r
      BY <1>4, <2>1 DEF AnswerStep
    <2>2. CASE q # r
      BY <1>0, <1>4, <2>2 DEF ReadLogs, CommitUpdate, CommitAssign, CommitDelete, AnswerCommit,
         Answer, AnswerStep
    <2> QED
      BY <2>1, <2>2
  <1>5. ASSUME NEW q \in Requests, SendTaskAssignedNotification(q)
        PROVE  AnswerStep(r)
    BY <1>5 DEF SendTaskAssignedNotification, AnswerStep
  <1>6. CASE Crash
    <2>1. CASE pc[r] \in InFlight
      BY <1>6, <2>1 DEF Crash, Succeeded, InFlight, AnswerStep
    <2>2. CASE pc[r] \notin InFlight
      BY <1>6, <2>2 DEF Crash, AnswerStep
    <2> QED
      BY <2>1, <2>2
  <1>7. CASE UNCHANGED vars
    BY <1>7 DEF vars, AnswerStep
  <1>8. CASE Next
    <2>1. CASE \E q \in Requests : Handle(q) \/ DbFails(q) \/ SendTaskAssignedNotification(q)
      BY <1>2, <1>3, <1>4, <1>5, <2>1 DEF Handle
    <2>2. CASE \E q \in Requests, c \in Calls : Accept(q, c) \/ Reject(q, c)
      BY <1>1, <2>2
    <2> QED
      BY <1>6, <1>8, <2>1, <2>2 DEF Next
  <1> QED
    BY <1>7, <1>8

(* An acknowledged write answers with the row as it now is, at the version *)
(* after the caller's, with the caller's entry.                            *)
MadeVersion(r) ==
    LET t   == call[r].task
        row == reply'[r].row
    IN  /\ t \in Tasks /\ row = task'[t] /\ row \in Row
        /\ task[t].version = call[r].version
        /\ row.version = task[t].version + 1
        /\ Len(logs'[t]) = row.version
        /\ logs'[t][row.version].actor = call[r].actor
        /\ OwnerTeam(t) = TeamOf[call[r].actor]
        /\ call[r].op = "assign" =>
              /\ logs'[t][row.version].action = "ASSIGN"
              /\ logs'[t][row.version].toAssignee = row.assignee
              /\ row.assignee \in Members(OwnerTeam(t))
        /\ call' = call
        /\ \A q \in Requests \ {r} : pc'[q] = pc[q] /\ reply'[q] = reply[q]

LEMMA CommitAnswers ==
    ASSUME IInv, NEW r \in Requests, NEW row, Succeeded(r)',
           \E code \in CommitCodes : AnswerCommit(r, code, row)
    PROVE  /\ reply'[r].row = row
           /\ \A q \in Requests \ {r} : pc'[q] = pc[q] /\ reply'[q] = reply[q]
  <1>1. PICK code \in CommitCodes : AnswerCommit(r, code, row)
    OBVIOUS
  <1>2. /\ pc' = [pc EXCEPT ![r] = "done"]
        /\ reply' = [reply EXCEPT ![r] = [code |-> code, row |-> IF code = "ok" THEN row ELSE None,
                                          logs |-> <<>>]]
    BY <1>1 DEF AnswerCommit, Answer
  <1>3. /\ DOMAIN reply = Requests /\ DOMAIN pc = Requests
    BY DEF IInv, Typed, TypeOK
  <1>4. reply'[r].code = code /\ reply'[r].row = IF code = "ok" THEN row ELSE None
    BY <1>2, <1>3
  <1> QED
    BY <1>2, <1>3, <1>4 DEF Succeeded

LEMMA UpdateMakes ==
    ASSUME IInv, NEW r \in Requests, CommitUpdate(r), Succeeded(r)'
    PROVE  MadeVersion(r)
  <1> DEFINE c     == call[r]
             t     == c.task
             new   == Edited(copy[r], c)
             entry == UpdateEntry(c.actor, task[t], new)
  <1>1. t \in Tasks /\ OwnerTeam(t) = TeamOf[c.actor]
    BY ActorIsMember DEF IInv, CommitUpdate, Reading
  <1>2. MemberWrite(t, new, entry)
    BY UpdateWrites
  <1>3. entry.actor = c.actor
    BY DEF UpdateEntry
  <1>4. /\ \E code \in CommitCodes : AnswerCommit(r, code, new)
        /\ call' = call /\ c.op = "update" /\ task[t].version = c.version
    BY DEF CommitUpdate, RowsAffected
  <1> HIDE DEF new, entry
  <1>5. new \in Row /\ entry \in LogEntry /\ new.version = task[t].version + 1
    BY <1>2 DEF MemberWrite, WriteEffect
  <1>6. /\ reply'[r].row = new
        /\ \A q \in Requests \ {r} : pc'[q] = pc[q] /\ reply'[q] = reply[q]
    BY <1>4, CommitAnswers
  <1>7. /\ task'[t] = new /\ Len(logs[t]) = task[t].version /\ Len(logs'[t]) = Len(logs[t]) + 1
        /\ logs'[t][Len(logs[t]) + 1] = entry
    BY <1>1, <1>2, <1>5, MemberWriteAt
  <1> QED
    BY <1>1, <1>3, <1>4, <1>5, <1>6, <1>7 DEF MadeVersion

LEMMA AssignMakes ==
    ASSUME IInv, NEW r \in Requests, CommitAssign(r), Succeeded(r)'
    PROVE  MadeVersion(r)
  <1> DEFINE c     == call[r]
             t     == c.task
             a     == c.assignee
             new   == [task[t] EXCEPT !.assignee = a, !.version = @ + 1]
             entry == [action |-> "ASSIGN", actor |-> c.actor,
                       fromStatus |-> None, toStatus |-> None,
                       fromAssignee |-> task[t].assignee, toAssignee |-> a]
  <1>1. t \in Tasks /\ OwnerTeam(t) = TeamOf[c.actor]
    BY ActorIsMember DEF IInv, CommitAssign, Reading
  <1>2. /\ copy[r] = task[t] /\ a \in Members(OwnerTeam(t)) /\ new.assignee = a
        /\ MemberWrite(t, new, entry)
    BY AssignWrites
  <1>3. entry.actor = c.actor /\ entry.action = "ASSIGN" /\ entry.toAssignee = a
    OBVIOUS
  <1>4. /\ task[t].version = c.version /\ Reassigned(copy[r], c) = new
        /\ call' = call /\ c.op = "assign"
    <2>1. task[t].version = c.version /\ call' = call /\ c.op = "assign"
      BY DEF CommitAssign, RowsAffected
    <2>2. Reassigned(copy[r], c) = [task[t] EXCEPT !.assignee = a, !.version = c.version + 1]
      BY <1>2, Zenon DEF Reassigned
    <2> QED
      BY <2>1, <2>2
  <1>5. \E code \in CommitCodes : AnswerCommit(r, code, new)
    BY <1>4 DEF CommitAssign
  <1> HIDE DEF new, entry
  <1>6. new \in Row /\ entry \in LogEntry /\ new.version = task[t].version + 1
    BY <1>2 DEF MemberWrite, WriteEffect
  <1>7. /\ reply'[r].row = new
        /\ \A q \in Requests \ {r} : pc'[q] = pc[q] /\ reply'[q] = reply[q]
    BY <1>5, CommitAnswers
  <1>8. /\ task'[t] = new /\ Len(logs[t]) = task[t].version /\ Len(logs'[t]) = Len(logs[t]) + 1
        /\ logs'[t][Len(logs[t]) + 1] = entry
    <2>1. t \in Tasks /\ MemberWrite(t, new, entry)
      BY <1>1, <1>2
    <2> HIDE DEF t
    <2> QED
      BY <1>6, <2>1, MemberWriteAt
  <1>9. /\ logs'[t][new.version].actor = c.actor
        /\ logs'[t][new.version].action = "ASSIGN"
        /\ logs'[t][new.version].toAssignee = a
        /\ Len(logs'[t]) = new.version
    BY <1>3, <1>6, <1>8
  <1>10. a \in Members(OwnerTeam(t)) /\ new.assignee = a
    BY <1>2
  <1> HIDE DEF a
  <1> QED
    BY <1>1, <1>4, <1>6, <1>7, <1>8, <1>9, <1>10 DEF MadeVersion

-----------------------------------------------------------------------------
(* What a client was told, and what a user is notified of.                 *)

(* An acknowledged answer is about the caller's team and about a version   *)
(* that was committed; a write's is about the caller's own version.        *)
AnswerHolds(r) ==
    LET c   == call[r]
        row == reply[r].row
        log == logs[c.task]
    IN  /\ c \in Call /\ OwnerTeam(c.task) = TeamOf[c.actor]
        /\ c.op # "delete" =>
              /\ row \in Row /\ row.version \in 1..task[c.task].version
              /\ StatusIs(log, row.version, row.status)
              /\ AssigneeIs(log, row.version, row.assignee)
        /\ Conditional(c) => row.version = c.version + 1 /\ log[row.version].actor = c.actor
        /\ c.op = "assign" => /\ row.assignee \in Members(OwnerTeam(c.task))
                              /\ log[row.version].action = "ASSIGN"
                              /\ log[row.version].toAssignee = row.assignee
        /\ c.op = "get" => /\ Len(reply[r].logs) >= row.version
                           /\ AssigneeIs(reply[r].logs, row.version, row.assignee)

AnswersHold == \A r \in Requests : Succeeded(r) => AnswerHolds(r)

(* No two acknowledged writes of a task made the same version.             *)
VersionsMadeOnce ==
    \A r, q \in Requests :
        Applied(r) /\ Applied(q) /\ r # q /\ call[r].task = call[q].task =>
            reply[r].row.version # reply[q].row.version

(* A goroutine that waits belongs to an acknowledged assignment, and what  *)
(* one has sent is what the audit log says of that version.                *)
Announced ==
    /\ \A r \in notify : Succeeded(r) /\ call[r].op = "assign"
    /\ \A n \in sent : /\ n.task \in Tasks /\ n.version \in 1..task[n.task].version
                       /\ logs[n.task][n.version].action = "ASSIGN"
                       /\ logs[n.task][n.version].toAssignee = n.assignee
                       /\ n.assignee \in Members(OwnerTeam(n.task))

Told == AnswersHold /\ VersionsMadeOnce /\ Announced

(* An answer that held still holds, because history stands.                *)
LEMMA AnswerStillHolds ==
    ASSUME IInv, IInv', Grows, NEW r \in Requests, AnswerHolds(r),
           reply'[r] = reply[r], call'[r] = call[r]
    PROVE  AnswerHolds(r)'
  <1> DEFINE c == call[r]
             t == c.task
             v == reply[r].row.version
  <1>1. c \in Call /\ t \in Tasks /\ task[t].version \in Nat /\ task'[t].version \in Nat
        /\ task[t].version <= Len(logs[t]) /\ Len(logs[t]) \in Nat
    <2>1. c \in Call
      BY DEF AnswerHolds
    <2>2. t \in Tasks
      BY <2>1 DEF Call
    <2> QED
      BY <2>1, <2>2, TableTypes DEF IInv, Typed, TypeOK, Row
  <1>2. CASE c.op = "delete"
    BY <1>2 DEF AnswerHolds, Conditional
  <1>3. CASE c.op # "delete"
    <2>1. v \in 1..task[t].version
      BY <1>3 DEF AnswerHolds
    <2>2. v \in 1..Len(logs[t]) /\ v \in 1..task'[t].version
      BY <1>1, <2>1 DEF Grows
    <2>3. /\ \A s : StatusIs(logs[t], v, s) => StatusIs(logs'[t], v, s)
          /\ \A a : AssigneeIs(logs[t], v, a) => AssigneeIs(logs'[t], v, a)
          /\ logs'[t][v] = logs[t][v]
      BY <1>1, <2>2, HistoryStands
    <2> QED
      BY <1>3, <2>2, <2>3 DEF AnswerHolds
  <1> QED
    BY <1>2, <1>3

LEMMA WriteAnswerHolds ==
    ASSUME IInv, IInv', NEW r \in Requests, CommitUpdate(r) \/ CommitAssign(r), MadeVersion(r)
    PROVE  AnswerHolds(r)'
  <1> DEFINE c   == call[r]
             t   == c.task
             row == reply'[r].row
  <1>1. c \in Call /\ c.op \in {"update", "assign"}
    BY CallsAssumption DEF IInv, Typed, TypeOK, CommitUpdate, CommitAssign
  <1>2. /\ t \in Tasks /\ row = task'[t] /\ row \in Row /\ call' = call
        /\ row.version = c.version + 1 /\ Len(logs'[t]) = row.version
        /\ logs'[t][row.version].actor = c.actor /\ OwnerTeam(t) = TeamOf[c.actor]
        /\ c.op = "assign" =>
              /\ logs'[t][row.version].action = "ASSIGN"
              /\ logs'[t][row.version].toAssignee = row.assignee
              /\ row.assignee \in Members(OwnerTeam(t))
    BY DEF MadeVersion
  <1>3. /\ StatusIs(logs'[t], row.version, row.status)
        /\ AssigneeIs(logs'[t], row.version, row.assignee)
        /\ row.version >= 1
    BY <1>2 DEF IInv, Core, RowWasCommitted
  <1>4. row.version \in 1..task'[t].version
    BY <1>2, <1>3 DEF Row
  <1> HIDE DEF row
  <1>5. c.op # "delete" /\ c.op # "get"
    BY <1>1
  <1> QED
    BY <1>1, <1>2, <1>3, <1>4, <1>5 DEF AnswerHolds, row

LEMMA DetailAnswerHolds ==
    ASSUME IInv, NEW r \in Requests, ReadLogs(r)
    PROVE  AnswerHolds(r)'
  <1> DEFINE c   == call[r]
             t   == c.task
             row == copy[r]
  <1>1. /\ c \in Call /\ t \in Tasks /\ OwnerTeam(t) = TeamOf[c.actor]
    BY ActorIsMember DEF IInv, ReadLogs, Reading
  <1>2. c.op = "get" /\ row \in Row
    BY DEF IInv, Typed, TypeOK, HandlerInv, ReadLogs, Reading
  <1>3. /\ StatusIs(logs[t], row.version, row.status)
        /\ AssigneeIs(logs[t], row.version, row.assignee)
        /\ row.version >= 1 /\ row.version <= task[t].version
    BY DEF IInv, Core, CopyWasCommitted, FreshCopy, ReadLogs, Reading
  <1>4. /\ row.version \in 1..task[t].version /\ Len(logs[t]) >= row.version
    BY <1>1, <1>2, <1>3, TableTypes DEF Row
  <1>5. /\ reply'[r].row = row /\ reply'[r].logs = logs[t]
        /\ task' = task /\ logs' = logs /\ call' = call
    BY DEF ReadLogs, Answer, db, IInv, Typed, TypeOK
  <1> QED
    BY <1>1, <1>2, <1>3, <1>4, <1>5 DEF AnswerHolds, Conditional

LEMMA DeleteAnswerHolds ==
    ASSUME IInv, NEW r \in Requests, CommitDelete(r)
    PROVE  AnswerHolds(r)'
  BY ActorIsMember DEF IInv, CommitDelete, Reading, AnswerHolds, Conditional

LEMMA AnswersStep ==
    ASSUME IInv, IInv', AnswersHold, [Next]_vars
    PROVE  AnswersHold'
  <1> SUFFICES ASSUME NEW r \in Requests, Succeeded(r)'
               PROVE  AnswerHolds(r)'
    BY DEF AnswersHold
  <1>1. AnswerStep(r) /\ Grows
    BY AnswerSteps, StepGrows
  <1>2. CASE pc'[r] = pc[r] /\ reply'[r] = reply[r] /\ call'[r] = call[r]
    <2>1. AnswerHolds(r)
      BY <1>2 DEF AnswersHold, Succeeded
    <2> QED
      BY <1>1, <1>2, <2>1, AnswerStillHolds
  <1>3. CASE CommitUpdate(r)
    BY <1>3, UpdateMakes, WriteAnswerHolds
  <1>4. CASE CommitAssign(r)
    BY <1>4, AssignMakes, WriteAnswerHolds
  <1> QED
    BY <1>1, <1>2, <1>3, <1>4, DetailAnswerHolds, DeleteAnswerHolds DEF AnswerStep

LEMMA VersionsStep ==
    ASSUME IInv, AnswersHold, VersionsMadeOnce, [Next]_vars
    PROVE  VersionsMadeOnce'
  <1>1. ASSUME NEW r \in Requests, Applied(r)'
        PROVE  \/ pc'[r] = pc[r] /\ reply'[r] = reply[r] /\ call'[r] = call[r]
               \/ MadeVersion(r)
    <2>1. AnswerStep(r)
      BY AnswerSteps
    <2>2. ~ReadLogs(r) /\ ~CommitDelete(r)
      BY <1>1 DEF Applied, Conditional, ReadLogs, CommitDelete, IInv, Typed, HandlerInv
    <2> QED
      BY <1>1, <2>1, <2>2, UpdateMakes, AssignMakes DEF AnswerStep, Applied
  <1>2. ASSUME NEW r \in Requests, NEW q \in Requests, r # q, MadeVersion(r),
               Applied(q)', call'[r].task = call'[q].task
        PROVE  reply'[r].row.version # reply'[q].row.version
    <2>1. /\ pc'[q] = pc[q] /\ reply'[q] = reply[q] /\ call' = call
          /\ reply'[r].row.version = task[call[r].task].version + 1
          /\ task[call[r].task].version \in Nat
      BY <1>2, TableTypes DEF MadeVersion
    <2>2. reply[q].row.version \in 1..task[call[q].task].version
      BY <1>2, <2>1 DEF AnswersHold, AnswerHolds, Applied, Succeeded, Conditional
    <2> QED
      BY <1>2, <2>1, <2>2
  <1> SUFFICES ASSUME NEW r \in Requests, NEW q \in Requests,
                      Applied(r)', Applied(q)', r # q, call'[r].task = call'[q].task
               PROVE  reply'[r].row.version # reply'[q].row.version
    BY DEF VersionsMadeOnce
  <1>3. CASE MadeVersion(r)
    BY <1>2, <1>3
  <1>4. CASE MadeVersion(q)
    BY <1>2, <1>4
  <1>5. CASE /\ pc'[r] = pc[r] /\ reply'[r] = reply[r] /\ call'[r] = call[r]
             /\ pc'[q] = pc[q] /\ reply'[q] = reply[q] /\ call'[q] = call[q]
    BY <1>5 DEF VersionsMadeOnce, Applied, Succeeded
  <1> QED
    BY <1>1, <1>3, <1>4, <1>5

LEMMA NotifySteps ==
    ASSUME IInv, Announced, [Next]_vars, NEW r \in notify'
    PROVE  Succeeded(r)' /\ call'[r].op = "assign"
  <1>1. r \in Requests /\ (r \in notify => Succeeded(r) /\ call[r].op = "assign")
    BY TypedStep DEF IInv, Typed, TypeOK, Announced
  <1>2. CASE r \in notify
    <2>1. Succeeded(r) /\ call[r].op = "assign"
      BY <1>1, <1>2
    <2>2. pc'[r] = pc[r] /\ reply'[r] = reply[r] /\ call'[r] = call[r]
      BY <1>1, <2>1, AnswerSteps DEF AnswerStep, Succeeded, ReadLogs, CommitUpdate,
         CommitAssign, CommitDelete
    <2> QED
      BY <2>1, <2>2 DEF Succeeded
  <1>3. CASE r \notin notify
    <2>1. PICK q \in Requests : CommitAssign(q)
      BY <1>3 DEF Next, Handle, vars, Accept, Reject, FindNothing, FindStale, FindTask,
         AcceptAssignee, RefuseAssignee, CommitUpdate, StaleCommit, CommitDelete, ReadLogs,
         DbFails, SendTaskAssignedNotification, Crash
    <2>2. PICK code \in CommitCodes :
            /\ AnswerCommit(q, code, Reassigned(copy[q], call[q]))
            /\ notify' = IF code = "ok" THEN notify \cup {q} ELSE notify
      BY <2>1 DEF CommitAssign, Dispatch
    <2>3. code = "ok" /\ r = q
      BY <1>3, <2>2
    <2>4. pc'[q] = "done" /\ reply'[q].code = code
      BY <2>2 DEF AnswerCommit, Answer, IInv, Typed, TypeOK
    <2>5. call'[q].op = "assign"
      BY <2>1 DEF CommitAssign
    <2> QED
      BY <2>3, <2>4, <2>5 DEF Succeeded
  <1> QED
    BY <1>2, <1>3

LEMMA SentSteps ==
    ASSUME IInv, IInv', AnswersHold, Announced, [Next]_vars, NEW n \in sent'
    PROVE  /\ n.task \in Tasks /\ n.version \in 1..task'[n.task].version
           /\ logs'[n.task][n.version].action = "ASSIGN"
           /\ logs'[n.task][n.version].toAssignee = n.assignee
           /\ n.assignee \in Members(OwnerTeam(n.task))
  <1>1. ASSUME n.task \in Tasks, n.version \in 1..task[n.task].version,
               logs[n.task][n.version].action = "ASSIGN",
               logs[n.task][n.version].toAssignee = n.assignee
        PROVE  /\ n.version \in 1..task'[n.task].version
               /\ logs'[n.task][n.version].action = "ASSIGN"
               /\ logs'[n.task][n.version].toAssignee = n.assignee
    <2>1. Grows
      BY StepGrows
    <2>2. /\ task[n.task].version \in Nat /\ task'[n.task].version \in Nat
          /\ task[n.task].version <= Len(logs[n.task]) /\ Len(logs[n.task]) \in Nat
          /\ task[n.task].version <= task'[n.task].version
      BY <1>1, <2>1, TableTypes DEF Grows, IInv, Typed, TypeOK, Row
    <2>3. n.version \in 1..Len(logs[n.task]) /\ n.version \in 1..task'[n.task].version
      BY <1>1, <2>2
    <2>4. logs'[n.task][n.version] = logs[n.task][n.version]
      BY <1>1, <2>1, <2>3 DEF Grows
    <2> QED
      BY <1>1, <2>3, <2>4
  <1>2. CASE n \in sent
    BY <1>1, <1>2 DEF Announced
  <1>3. CASE n \notin sent
    <2>1. PICK r \in Requests : SendTaskAssignedNotification(r)
      BY <1>3 DEF Next, Handle, vars, Accept, Reject, FindNothing, FindStale, FindTask,
         AcceptAssignee, RefuseAssignee, CommitUpdate, CommitAssign, StaleCommit, CommitDelete,
         ReadLogs, DbFails, Crash
    <2>2. /\ r \in notify
          /\ n = [task |-> call[r].task, assignee |-> reply[r].row.assignee,
                  version |-> reply[r].row.version]
      BY <1>3, <2>1 DEF SendTaskAssignedNotification
    <2>3. AnswerHolds(r) /\ call[r].op = "assign"
      BY <2>1, <2>2 DEF Announced, AnswersHold
    <2>4. /\ n.task \in Tasks /\ n.version \in 1..task[n.task].version
          /\ logs[n.task][n.version].action = "ASSIGN"
          /\ logs[n.task][n.version].toAssignee = n.assignee
          /\ n.assignee \in Members(OwnerTeam(n.task))
      BY <2>2, <2>3 DEF AnswerHolds, Call
    <2> QED
      BY <1>1, <2>4
  <1> QED
    BY <1>2, <1>3

LEMMA ToldInvariance == Spec => [](IInv /\ History /\ Told)
  <1>1. Init => IInv /\ Told
    <2> SUFFICES ASSUME Init PROVE IInv /\ Told
      OBVIOUS
    <2>1. IInv
      BY InitTyped, InitCore DEF IInv
    <2>2. \A r \in Requests : ~Succeeded(r)
      BY DEF Init, Succeeded
    <2> QED
      BY <2>1, <2>2 DEF Told, AnswersHold, VersionsMadeOnce, Applied, Announced, Init
  <1>2. IInv /\ Told /\ [Next]_vars => (IInv /\ Told)'
    <2> SUFFICES ASSUME IInv, Told, [Next]_vars PROVE (IInv /\ Told)'
      OBVIOUS
    <2>1. IInv'
      BY TypedStep, CoreStep DEF IInv
    <2>2. AnswersHold' /\ VersionsMadeOnce'
      BY <2>1, AnswersStep, VersionsStep DEF Told
    <2>3. Announced'
      BY <2>1, NotifySteps, SentSteps, Zenon DEF Told, Announced
    <2> QED
      BY <2>1, <2>2, <2>3 DEF Told
  <1> QED
    BY <1>1, <1>2, HistoryInvariance, PTL DEF Spec

(* An acknowledged update or assignment is never overwritten unseen: the   *)
(* version it made follows the one its caller had seen, carries its        *)
(* caller's entry, and was made by no other acknowledged request.          *)
THEOREM UpdatesAreNotLost == Spec => []NoLostUpdate
  <1>1. IInv /\ Told => NoLostUpdate
    <2> SUFFICES ASSUME IInv, Told, NEW r \in Requests, Applied(r)
                 PROVE  LET t == call[r].task
                            v == reply[r].row.version
                        IN  /\ v = call[r].version + 1
                            /\ v <= task[t].version
                            /\ logs[t][v].actor = call[r].actor
                            /\ \A other \in Requests \ {r} :
                                  Applied(other) /\ call[other].task = t
                                      => reply[other].row.version # v
      BY DEF NoLostUpdate
    <2>1. AnswerHolds(r) /\ Conditional(call[r]) /\ call[r].op # "delete"
      BY DEF Told, AnswersHold, Applied, Conditional
    <2>2. /\ reply[r].row.version = call[r].version + 1
          /\ reply[r].row.version \in 1..task[call[r].task].version
          /\ logs[call[r].task][reply[r].row.version].actor = call[r].actor
          /\ call[r].task \in Tasks
      BY <2>1 DEF AnswerHolds, Call
    <2>3. reply[r].row.version <= task[call[r].task].version
      BY <2>2, TableTypes
    <2> QED
      BY <2>2, <2>3 DEF Told, VersionsMadeOnce
  <1> QED
    BY <1>1, ToldInvariance, PTL

(* Every row in a response was the row of the table at the version it      *)
(* carries.                                                                *)
THEOREM RepliesWereCommitted == Spec => []ReplyWasCommitted
  <1>1. Told => ReplyWasCommitted
    BY DEF Told, AnswersHold, AnswerHolds, ReplyWasCommitted
  <1> QED
    BY <1>1, ToldInvariance, PTL

(* The log that GetTaskByID returns accounts for the row it returns, which *)
(* an earlier query read.                                                  *)
THEOREM DetailsCoverVersions == Spec => []DetailCoversVersion
  <1>1. Told => DetailCoversVersion
    BY DEF Told, AnswersHold, AnswerHolds, DetailCoversVersion
  <1> QED
    BY <1>1, ToldInvariance, PTL

(* Only members of a task's team act on it, see it, are assigned it or are *)
(* told of an assignment.                                                  *)
THEOREM TeamsStayApart == Spec => []TeamsApart
  <1>1. History /\ Told => TeamsApart
    BY DEF History, RecordsOfMembers, Told, AnswersHold, AnswerHolds, Announced, TeamsApart
  <1> QED
    BY <1>1, ToldInvariance, PTL

(* A notification is about an assignment that was committed, however long  *)
(* its goroutine waited.                                                   *)
THEOREM NotificationsMatchCommits == Spec => []NotificationMatchesCommit
  <1>1. IInv /\ Told => NotificationMatchesCommit
    <2> SUFFICES ASSUME IInv, Told, NEW n \in sent
                 PROVE  /\ n.version <= task[n.task].version
                        /\ logs[n.task][n.version].action = "ASSIGN"
                        /\ logs[n.task][n.version].toAssignee = n.assignee
      BY DEF NotificationMatchesCommit
    <2>1. n.task \in Tasks /\ n.version \in 1..task[n.task].version
      BY DEF Told, Announced
    <2>2. n.version <= task[n.task].version
      BY <2>1, TableTypes
    <2> QED
      BY <2>2 DEF Told, Announced
  <1> QED
    BY <1>1, ToldInvariance, PTL
=============================================================================
