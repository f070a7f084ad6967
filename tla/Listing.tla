------------------------------- MODULE Listing -------------------------------
(***************************************************************************)
(* The lists of tasks, of users and of teams: a client reads page after    *)
(* page of one list, with one filter and one order, while others change    *)
(* the table.  A page is answered by two queries, in no transaction: one   *)
(* counts the matching rows, one sorts them and cuts out the page.  Tasks  *)
(* are created, changed and deleted, users are only registered, and teams  *)
(* never change.                                                           *)
(*                                                                         *)
(* A row is listed when it is in the caller's team, not deleted, and       *)
(* passes the filter; otherwise it is hidden.  Its times are drawn before  *)
(* its transaction commits, so that it may appear among older rows, and    *)
(* they may coincide: rows with equal keys are sorted anew, at will, by    *)
(* every query.  A column that never changes (a name, an email) sorts as   *)
(* the creation time does; the orders by title are left out.               *)
(*                                                                         *)
(* MaxTime bounds the times, MaxInt is Go's largest int: (Page - 1) * Limit*)
(* wraps around beyond it.                                                 *)
(***************************************************************************)
EXTENDS Integers, Sequences, FiniteSets, SequencesExt

CONSTANTS
    Rows,           \* identifiers of the rows there are or may be
    MaxTime, MaxInt,
    DefaultLimit,   \* 10
    MaxLimit,       \* 100
    Queries, Faults

Orders == {"latest", "earliest", "lastUpdated"}

(* "valid": status and identifiers of the filter are; "foreign": it names  *)
(* another team than the caller's.                                         *)
Query == [table : {"tasks", "users", "teams"}, page : Int, limit : Int,
          order : Orders, valid : BOOLEAN, foreign : BOOLEAN]

ASSUME RowsAssumption == IsFiniteSet(Rows)
ASSUME LimitsAssumption ==
    /\ {DefaultLimit, MaxLimit, MaxTime, MaxInt} \subseteq Nat \ {0}
    /\ DefaultLimit <= MaxLimit
ASSUME QueriesAssumption ==
    /\ Queries \subseteq Query
    /\ \A q \in Queries : /\ q.page \in (-MaxInt)..MaxInt /\ q.limit \in (-MaxInt)..MaxInt
                          /\ q.order = "lastUpdated" => q.table = "tasks"
                          /\ q.foreign => q.table # "teams"
ASSUME FaultsAssumption == Faults \subseteq {"db"}

VARIABLES
    row,      \* the table: state and times of every row
    pc, query,
    total,    \* what the counting query returned
    reply,    \* the last page answered
    seen,     \* the rows on the pages read so far
    start,    \* for properties: the rows listed when the first page was
              \* asked for,
    touched,  \* those changed since,
    calm,     \* whether no row left the list since, nor had a twin's time,
    quiet     \* and whether nothing changed since the counting query

vars == <<row, pc, query, total, reply, seen, start, touched, calm, quiet>>

Absent == [state |-> "absent", created |-> 0, updated |-> 0]
New(n) == [state |-> "listed", created |-> n, updated |-> n]

Matching == {t \in Rows : row[t].state = "listed"}

NoPage == [items |-> <<>>, page |-> 1, count |-> 0, totalPages |-> 0, code |-> "none",
           quiet |-> FALSE]

Init ==
    /\ row \in [Rows -> {Absent} \cup {New(n) : n \in 1..MaxTime}]
    /\ pc = "idle"
    /\ query = [table |-> "tasks", page |-> 1, limit |-> DefaultLimit, order |-> "latest",
                valid |-> TRUE, foreign |-> FALSE]
    /\ total = 0
    /\ reply = NoPage
    /\ seen = {} /\ start = {} /\ touched = {}
    /\ calm = TRUE /\ quiet = TRUE

-----------------------------------------------------------------------------
(* The handler.                                                            *)

(* Mutation: only a missing limit is replaced.                             *)
NormalizeMissing(q) ==
    [q EXCEPT !.limit = IF q.limit = 0 THEN DefaultLimit ELSE q.limit,
              !.page = IF q.page <= 0 THEN 1 ELSE q.page]

Normalize(q) ==
    [q EXCEPT !.limit = CASE q.limit <= 0       -> DefaultLimit
                          [] q.limit > MaxLimit -> MaxLimit
                          [] OTHER              -> q.limit,
              !.page = IF q.page <= 0 THEN 1 ELSE q.page]

Refuse(code) == reply' = [NoPage EXCEPT !.code = code] /\ pc' = "done"

(* The controller and the checks of the service.                           *)
Accept(q, refusal) ==
    /\ pc = "idle"
    /\ query' = Normalize(q)
    /\ CASE ~q.valid              -> Refuse("badRequest")
         [] q.valid /\ q.foreign -> Refuse(refusal)
         [] OTHER                -> pc' = "count" /\ reply' = reply
    /\ start' = IF Normalize(q).page = 1 THEN Matching ELSE {}
    /\ UNCHANGED <<row, total, seen, touched, calm, quiet>>

ListTasks(q) == q.table = "tasks" /\ Accept(q, "notFound")
ListUsers(q) == q.table = "users" /\ Accept(q, "badRequest")
GetTeams(q)  == q.table = "teams" /\ Accept(q, "badRequest")

Count ==
    /\ pc = "count"
    /\ total' = Cardinality(Matching)
    /\ quiet' = TRUE
    /\ pc' = "find"
    /\ UNCHANGED <<row, query, reply, seen, start, touched, calm>>

(* Two's complement.                                                       *)
Wrap(n) == ((n + MaxInt + 1) % (2 * (MaxInt + 1))) - (MaxInt + 1)

(* Mutation: the first page is counted as page 0.                          *)
OffsetFromZero(q) == Wrap(q.page * q.limit)

Offset(q) == Wrap((q.page - 1) * q.limit)

(* Mutation: the last, incomplete page is not counted.                     *)
FullPages(count, limit) == count \div limit

TotalPages(count, limit) ==
    IF count > 0 /\ limit > 0 THEN (count + limit - 1) \div limit ELSE 0

Key(t) == IF query.order = "lastUpdated" THEN row[t].updated ELSE row[t].created

Before(t, u) == IF query.order = "earliest" THEN Key(t) <= Key(u) ELSE Key(t) >= Key(u)

(* ORDER BY: any sequence of the matching rows that the key does not      *)
(* contradict.                                                             *)
Sorted == {s \in SetToSeqs(Matching) :
              \A i, j \in 1..Len(s) : i < j => Before(s[i], s[j])}

(* OFFSET and LIMIT; the library leaves out an offset that is not positive.*)
Cut(s, offset, limit) ==
    LET from == IF offset > 0 THEN offset ELSE 0
    IN  SubSeq(s, from + 1, IF from + limit < Len(s) THEN from + limit ELSE Len(s))

Twins == \E t, u \in Matching : t # u /\ Key(t) = Key(u)

(* The page is answered, and the client asks for the next one unless this  *)
(* one was not full.                                                       *)
Find ==
    /\ pc = "find"
    /\ \E s \in Sorted :
          LET items == Cut(s, Offset(query), query.limit)
          IN  /\ reply' = [items |-> items, page |-> query.page, count |-> total,
                           totalPages |-> TotalPages(total, query.limit), code |-> "ok",
                           quiet |-> quiet]
              /\ seen' = seen \cup {items[i] : i \in 1..Len(items)}
              /\ IF Len(items) < query.limit \/ query.page = MaxInt
                 THEN pc' = "done" /\ query' = query
                 ELSE pc' = "count" /\ query' = [query EXCEPT !.page = @ + 1]
    /\ calm' = (calm /\ ~Twins)
    /\ UNCHANGED <<row, total, start, touched, quiet>>

DbFails ==
    /\ "db" \in Faults
    /\ pc \in {"count", "find"}
    /\ Refuse("error")
    /\ UNCHANGED <<row, query, total, seen, start, touched, calm, quiet>>

-----------------------------------------------------------------------------
(* What others do to the table meanwhile.                                  *)

Reading == pc \in {"count", "find"}

Change(t, new) ==
    /\ Reading
    /\ row' = [row EXCEPT ![t] = new]
    /\ touched' = touched \cup {t}
    /\ calm' = (calm /\ (row[t].state = "listed" => new.state = "listed"))
    /\ quiet' = FALSE
    /\ UNCHANGED <<pc, query, total, reply, seen, start>>

CreateTask(t, n) ==
    /\ query.table = "tasks" /\ row[t] = Absent
    /\ Change(t, New(n))

(* An update or assignment: it was made after the version it replaces.     *)
UpdateTask(t, n, state) ==
    /\ query.table = "tasks"
    /\ row[t].state \in {"listed", "hidden"} /\ n > row[t].updated
    /\ Change(t, [row[t] EXCEPT !.updated = n, !.state = state])

DeleteTask(t) ==
    /\ query.table = "tasks"
    /\ row[t].state \in {"listed", "hidden"}
    /\ Change(t, [row[t] EXCEPT !.state = "deleted"])

Register(t, n) ==
    /\ query.table = "users" /\ row[t] = Absent
    /\ Change(t, New(n))

Others ==
    \E t \in Rows :
       \/ \E n \in 1..MaxTime : \/ CreateTask(t, n) \/ Register(t, n)
                                \/ \E state \in {"listed", "hidden"} : UpdateTask(t, n, state)
       \/ DeleteTask(t)

Next ==
    \/ \E q \in Queries : ListTasks(q) \/ ListUsers(q) \/ GetTeams(q)
    \/ Count \/ Find \/ DbFails
    \/ Others

Spec == Init /\ [][Next]_vars
-----------------------------------------------------------------------------
(* Properties.                                                             *)

TimedRow == [state : {"listed", "hidden", "deleted"},
             created : 1..MaxTime, updated : 1..MaxTime]

Page == [items : Seq(Rows), page : 1..MaxInt, count : Nat, totalPages : Nat,
         code : {"none", "ok", "badRequest", "notFound", "error"}, quiet : BOOLEAN]

(* Every variable has the shape its comment gives it, and a query that     *)
(* reaches the database has a page and a limit it can be cut by.           *)
TypeOK ==
    /\ row \in [Rows -> TimedRow \cup {Absent}]
    /\ pc \in {"idle", "count", "find", "done"}
    /\ query \in Query
    /\ query.limit \in 1..MaxLimit /\ query.page \in 1..MaxInt
    /\ total \in 0..Cardinality(Rows)
    /\ reply \in Page /\ Len(reply.items) <= query.limit
    /\ {seen, start, touched} \subseteq SUBSET Rows
    /\ {calm, quiet} \subseteq BOOLEAN

(* A client that reads from the first page until one is not full has seen  *)
(* every row that was listed when it started, although rows are created    *)
(* between and during its requests, even among the older ones.  Only when  *)
(* a row leaves the list, or two have the same key, may it miss others;    *)
(* and in the order of last changes it may miss the tasks that changed.    *)
WalkMissesNothing ==
    pc = "done" /\ reply.code = "ok" /\ calm =>
        start \ (IF query.order = "lastUpdated" THEN touched ELSE {}) \subseteq seen

(* The number of pages fits the pages: when nothing changes between the    *)
(* two queries, a page holds what count, limit and its number promise, and *)
(* it is empty exactly beyond total_pages (service lines 209-237), for     *)
(* every page whose offset is an int.                                      *)
PagesFitCount ==
    LET before == (reply.page - 1) * query.limit
    IN  reply.code = "ok" /\ reply.quiet /\ before <= MaxInt =>
            /\ reply.items = <<>> <=> reply.page > reply.totalPages
            /\ reply.page < reply.totalPages => Len(reply.items) = query.limit
            /\ reply.page = reply.totalPages => Len(reply.items) = reply.count - before
=============================================================================
