# TLA+ models and proofs of the Task Management Core API

These modules model the Go service in `src/`: an HTTP API (Gin) over PostgreSQL
(GORM) and Redis, through which members of a team create, list, read, update,
assign and delete tasks. Paths below are relative to `src/internal/` unless they
start with `cmd/`, `docs/`, `migrations/` or `README.md`.

## 1. The system

```
client -> routes/router.go -> middlewares -> controllers -> services -> repositories -> PostgreSQL
                                                               |              `--------> Redis
                                                               `-> goroutine -> pkg/notification
```

There is no state in the process beyond the handlers in flight and the goroutines
they leave behind: everything shared is in the database and in Redis. So all the
concurrency is between statements that different handlers (of one or several
processes) send to those two.

| Component | State | Operations | What is hard | What makes it correct |
|---|---|---|---|---|
| Task operations: `services/task_service.go`, `repositories/task_repository.go`, `controllers/task_controller.go` | `tasks` rows with a version and a soft-delete mark; `task_logs`, an audit log per task | `GetTaskByID`, `UpdateTask`, `AssignTask`, `DeleteTask` | each handler reads the row first and writes later, in a transaction, on the strength of what it read; deletion checks no version; the detail view uses several queries; a commit may be acknowledged or not | no update is lost; row and audit log tell one story; what a response shows was stored; deletion is final; teams stay apart |
| Idempotent creation: `CreateTask` in `services/task_service.go`, `repositories/idempotency_repository.go` | response cache and lock per Idempotency-Key in Redis, both with a lifetime | `CreateTask` | check, lock, check again, create, cache, release are separate commands to two systems; locks expire; waiters poll; each command may fail after having had its effect | one task per key and window; duplicates get the same answer; nobody waits forever |
| Assignment notification: `pkg/notification/notifier.go` | goroutines | `SendTaskAssignedNotification` | runs after the response, in any order, and dies with the process | says only what was committed; is sent while the process lives |
| Accounts and sessions: `services/auth_service.go`, `repositories/session_repository.go`, `pkg/jwt/jwt.go`, `middlewares/auth_middleware.go` | `users` rows, sessions in Redis, tokens held by clients | `Register`, `Login`, `Authenticate` | lookup and insert race; token and session have separate lifetimes and are checked one after the other | one account per address; true answers; a valid token has a session; a request runs as the user who logged in |
| Lists: `ListTasks`, `ListUsers`, `GetTeams` with their repositories and validations | none of their own | three read operations | two queries without a transaction; pages cut by offset while the table changes; integer arithmetic on page numbers | a client that reads on misses nothing; counts, page numbers and pages fit |
| Request pipeline: `routes/router.go`, `middlewares/*`, `controllers/controllers.go`, `pkg/apperror` | per request | recovery, logging, client data, basic and bearer authentication, error mapping | which of them answers first; errors wrapped several times | one answer per request |
| Process lifecycle: `cmd/api/main.go` | running handlers | start, signal, shutdown within 5 s | shutdown against running handlers and goroutines | accepted requests are answered or lost whole |
| Adapters: `adapters/database`, `adapters/redis`, `adapters/s3` | connection pool; nil, open or closed | connect, ping, close, transactions, and the commands used above | transactions wait for connections and row locks; outside production an adapter may be missing | statements of a transaction act as one step; what needs a missing adapter is refused, not skipped |
| Health check, documentation pages | none | three read operations | | a health check calls no missing adapter connected |
| Configuration: `config/config.go` | none after start | | | |

Interactions: handlers share the `tasks`, `task_logs` and `users` tables and the keys
`idempotency:*`, `lock:idempotency:*` and `auth:session:*` in Redis. `AssignTask` starts a
goroutine. `Authenticate` puts the identity that `getAuthUser` reads into the context of
every task operation; its result is the `actor` of the calls of `TaskService`.

The hazards of this code, each with its line and the properties aimed at it, are listed
in `PROJECT.json` under `hazards`.

## 2. The modules

| Module | Models | Runs |
|---|---|---|
| `TaskData` | users, teams, rows, audit entries, and how an audit log is read back | (extended by the next two) |
| `VersionedTask` | the abstract promise: a versioned row with an audit log, changed by atomic steps | property of `task_safety` |
| `TaskService` | the four operations on a task as concurrent handlers; a transaction is one step | `task_safety`, `task_one_deletion` |
| `TaskServiceProofs` | proofs about `TaskService`, for all constants: types, row and log, refinement | |
| `TaskServiceHistory` | extends it by proofs of what the log, the answers and the notifications say | |
| `TaskTx` | the same handlers with their transactions statement by statement: connection pool, row locks, times of audit entries, rollback | `task_tx`, `task_liveness` |
| `TaskTxProofs` | proofs about `TaskTx`, for all constants | |
| `IdempotentCreate` | `CreateTask`'s protocol with Redis and the database, with time | `create_once`, `create_liveness`, `create_slow_holder`, `create_save_error`, `create_cancelled` |
| `IdempotentCreateProofs` | proofs about `IdempotentCreate`, for all constants | |
| `Accounts` | `Register`, `Login`, `Authenticate` with lifetimes | `accounts_safety` |
| `AccountsProofs` | proofs about `Accounts`, for all constants | |
| `Listing` | pages of the lists while the table changes | `listing` |
| `ListingProofs` | proofs about `Listing`, for all constants | |
| `Pipeline` | middlewares, guards, adapter calls, panics, error mapping and access log around every handler | (extended by `Lifecycle`) |
| `Lifecycle` | the process: connecting, listening, signals, shutdown; requests of `Pipeline` meanwhile | `lifecycle` |
| `LifecycleProofs` | proofs about `Lifecycle` and `Pipeline`, for all constants | |
| `MC...` | instances for the model checker | |

Three modules form a chain. `TaskTx` implements `TaskService` (its transactions act as single
steps), and `TaskService` implements `VersionedTask` (its handlers change a task only by
whole edits, assignments and deletions of the current row). Each link is a `PROPERTY` of
a run and a theorem; their composition is a theorem (`TxRefinement`).

### TaskService

`task` and `logs` are the two tables. A request has a `pc` that names the next
statement its handler will send, `call` (the bound JSON body and the authenticated user),
`copy` (the row it read) and `reply`.

| Action | Code |
|---|---|
| `Accept`, `Reject` | controller: binding and `validations/task_validation.go` |
| `FindNothing`, `FindStale`, `FindTask` | `FindTaskByID`, then the team check and the first version check of the service, which happen in memory right after the query |
| `AcceptAssignee`, `RefuseAssignee` | `FindUserByID` and the team check |
| `CommitUpdate`, `CommitAssign`, `CommitDelete` | the whole transaction: conditional update, row count, audit entry |
| `StaleCommit` | the conditional update matched no row: rollback, 409 |
| `ReadLogs` | the preload of the audit log in `FindTaskDetailByID` |
| `SendTaskAssignedNotification` | the goroutine of `AssignTask` |
| `DbFails`, `Crash` | any failing query or rolled back transaction (500); the end of the process |

A transaction is one step here; that its statements act as one step is what `TaskTx` is
about. A commit whose
acknowledgement is lost is the action's second outcome (`CommitCodes`). Creator, team
and identifier of a task never change, so that they are functions (`OwnerTeam`) and not
columns. Title and description are one datum, because the code treats them alike, and a
`Blank` status is one that is empty after trimming, which passes validation and changes
nothing. `Init` has the tasks as `CreateTaskWithLog` inserts them, since creation itself
is the subject of `IdempotentCreate`. The log is in commit order; the times of the
entries are in `TaskTx`.

### TaskTx

`task` and `logs` are the committed tables. `TaskTx` extends `TaskService`, keeps its steps
outside the transactions (each query now needs a free connection while it runs) and replaces the
commit actions by the statements. `ServicePc` shows every label inside a transaction as
`commit`, which is the refinement mapping.

| Action | Code |
|---|---|
| `Stamp` | `now := time.Now()` in the service, before the transaction |
| `Begin` | `r.db.Transaction(...)`: waits for a connection of the pool (`SetMaxOpenConns`; `RunMigrations` keeps one for good) |
| `WriteRow` | the `UPDATE ... WHERE id AND version` (or the soft delete): waits for the row's lock, then matches the committed row again |
| `WriteConflict`, `WriteNothing` | no row matched: `ErrStaleVersion` and rollback; a deletion does not look and goes on |
| `InsertLog` | `tx.Create(log)` |
| `Commit` | COMMIT: row, entry and time become visible, the lock is free; the acknowledgement may be lost |
| `TxFails` | any statement or the wait for a connection or lock fails: rollback, 500 |
| `TxCrash`, `Tick` | the process ends and the database rolls its transactions back; the process's clock |

The clock is one that is not set back; a wall clock that is, or several server processes with
different clocks, may break `VersionsInTimeOrder` and nothing else.

`MaxOpenConn` is `cfg.DBPoolMaxOpenConn`, where 0 stands for a pool without bound, as in `database/sql`.
`RunMigrations` (`adapters/database/postgres.go:82`) hands the pool to golang-migrate's `postgres.WithInstance`, which
takes a connection of its own from it, and nobody closes that driver: the handlers share
one connection fewer (`FreeConnection`). With `DB_POOL_MAX_OPEN_CONN=1`, which `config.go:76` accepts, the
server starts and then no handler ever gets a connection. `TxAnswered` therefore has the condition
`PoolServes == MaxOpenConn # 1`; without it TLC finds the starvation.

### IdempotentCreate

A key is one logical request; a task is named by the request whose handler created it.
`lock[k]` and `cache[k]` carry what is left of their lifetime. `pc` names the next command:
`check` (GET), `acquire` (SETNX), `wait` (the polling loop), `recheck` (GET under the lock),
`create` (transaction), `save` (SET), `release` (the deferred DEL). `Cancel` models a client that goes away: the Redis client and the
database driver refuse commands under a cancelled context, the release included.

`adapters/redis/redis.go:21` leaves the Redis client's `MaxRetries` at its default of 3: a command whose reply is
lost is sent again. A SETNX that took the lock answers false the second time, and the handler waits for itself
(`AcquireUnheard`, then `AcquireLater`); a SET writes the response again (`SaveUnheard`); a DEL deletes the lock again,
by then perhaps another handler's (`ReleaseUnheard`). After any of them the command may still fail for good, which
gives the failing command that has taken effect. How often a command is sent is left open and bounded by
`MaxHold` only. Each sending takes effect, if it does, before the next one or before the handler goes on: a command that
was given up does not reach Redis later. Sending a GET again changes nothing; the same goes, in `Accounts`, for the SET of a
session, whose second sending only renews the lifetime of a session no client knows of yet.

Time advances by `Tick`. `MaxHold` bounds how long a handler takes for the steps up to the
lock command and, again, from there to its return. The code does not enforce such a bound: it is
an assumption, needed for `MutualExclusion` and `OneRecordPerKey` (`MaxHold < LockTTL`), and
`create_slow_holder` shows what happens without it.

*A DEL that is sent again.* With `db` and `releaseReply` added to the faults of one instance, `MutualExclusion`,
`OneRecordPerKey` and `SameAnswer` do not hold, with handlers as fast as one likes and a cache that works: the creation of
request 1 fails, its DEL takes effect and the reply is lost; request 2 takes the lock; the DEL of request 1 is sent again
and deletes it; request 2 finds nothing in the cache; request 3 takes the lock and finds nothing either; both create. That is
two records for what `README.md:661` calls "exactly one database record", for the same reason as in `create_slow_holder`:
the DEL does not look at whose lock it deletes (`repositories/idempotency_repository.go:25`). No run is kept for it:
add `releaseReply` to `Faults` in `CreateOnce.cfg` to see it. `create_once` and the theorems say what holds instead.

### Accounts

Users, sessions and token pairs are named by the request that made them. `life[r][k]` is what
is left of the token of kind `k` that login `r` signed, `sessions[r]` of its session. `Present`
lets any client send any token a login gave out, at any time; the token is validated in one
step and its session read in the next. Time may pass between any two steps. `Clean` is the
lower-casing and trimming of emails, on which the lookup and the unique index
(`migrations/000003_create_users.up.sql`) agree. Hashing and signatures are perfect.
A Redis that loses a session looks to `Authenticate` like a failing read (`read` in `Faults`).
Nothing in `config/config.go` makes access tokens (24 hours by default) shorter-lived than sessions (7 days), so the model does
not assume it: `SessionBacksTokens` has it as a condition of its second half. The run has the default order, under which
the end of a session never decides in `DeadTokensRefused`, because the token has expired by then; the theorem is for any two lifetimes.

### Listing

One client reads page after page (`ListTasks`, `ListUsers` or `GetTeams`, then `Count` and `Find`
per page, the client asking on after a full page) while `CreateTask`, `UpdateTask`, `DeleteTask` or
`Register` change the table between any two queries. A row is listed, hidden (by team or filter)
or deleted. Times are drawn before the commit and may coincide; among equal keys every query sorts as it
likes. `Offset` wraps around as Go's `int` does, and `Cut` drops an offset that is not
positive, as GORM does.

### Pipeline and Lifecycle

A request passes its route's guard, calls the adapters its handler needs in order (`Calls`),
and returns through the middlewares. `cause` is why it is answered as it is, `status` what the
client gets, `line` what the access log says. An error is a sequence of layers; `Wrap` finds the first
`AppError` among them as `errors.As` does. A command to a missing database panics (the repositories
use a nil `*gorm.DB`), one to a missing Redis is an error. A creation whose response is cached succeeds after its
first call (`Complete`); success is 201 for a creation and a registration, 200 otherwise.

`main` names the next step of `cmd/api/main.go`: `NewPostgres`, `NewRedis`, `NewS3` (each connects, ends
the process in production, or is skipped with a warning), `Wire`, then the wait for a signal
(`Signal` while `NotifyContext` has it, `Kill` outside), `Shutdown`, `Drained` or `DrainTimeout` (five seconds,
which a connection that has sent no request can use up, too),
and the deferred closes. `Listen`, `ListenFails` and `ListenTooLate` are the goroutine that serves. A `log.Fatalf`
ends the process with no deferred call.

## 3. What the runs check

Deadlock checking is off in every run but `accounts_safety`: when all requests are answered,
nobody has to call again, and the system may stop. Runs with several interchangeable
requests (or rows) use them as a symmetry set; liveness runs do not.

| Run | Instance | Shows |
|---|---|---|
| `task_safety` | 1 task, 3 concurrent requests drawn from 18 calls (every operation; versions 0, 1, 2; one, all or no columns; callers of two teams; assignees of the team, of another, unknown), failing queries, lost acknowledgements, crashes | `FreshCopy`, `AuditTrail`, `AuditReplays`, `DeletionSnapshot`, `NoLostUpdate`, `ReplyWasCommitted`, `DetailCoversVersion`, `TeamsApart`, `NotificationMatchesCommit`, `DeletedIsFinal`, and `ImplementsVersionedTask` |
| `task_tx` | 1 task, 3 concurrent requests drawn from 7 calls, a pool of 3 connections (2 free ones), times 0 and 1, failing statements, lost acknowledgements, crashes | `WritesStayValid`, `VersionsInTimeOrder`, and `ImplementsTaskService` |
| `task_liveness` | the handlers of `task_tx`, 3 requests, a pool of 3 connections, failing statements, no crash, fair handlers | `TxAnswered`, `AssignmentsAnnounced` |
| `task_one_deletion` | 2 requests, no faults | violated: two concurrent deletions both succeed and both write a DELETE entry |
| `create_once` | 3 requests, a good key and one whose assignee is refused; failing lock commands, releases, transactions; SETNX and SET sent again; holders faster than the lock, done two polling rounds before a waiter's timeout | `MutualExclusion`, `OneRecordPerKey`, `SameAnswer`, `DuplicatesServed` |
| `create_liveness` | 2 requests, 2 keys, every fault, commands sent again, cancellation and crash, fair handlers and time | `AnswersAreTasks`, `Answered`, `LocksExpire` |
| `create_slow_holder` | a holder as slow as the lock's lifetime | violated: two tasks under one key |
| `create_save_error` | the SET of the response may fail | violated: the client's retry creates a second task |
| `create_cancelled` | the client may go away | violated: the lock is still there when the handler has returned |
| `accounts_safety` | 4 requests, two spellings of one address and another address, every fault | `OneAccountPerEmail`, `RegistrationAnswers`, `SessionBacksTokens`, `ActsAsLogin`, `DeadTokensRefused` |
| `lifecycle` | 2 requests, each to one of `HealthCheck`, `GetTeams`, `Login`, `CreateTask` (no adapter, database only, Redis after it, Redis on both sides); production or not; any adapter missing; signals, a failing listener, hanging handlers | `OrderlyExit`, `AnswersAreLogged`, `MissingAdapters`, `StopsWhenTold` |
| `listing` | 3 rows, times 1 to 3, limits 1 and 2, 5-bit ints, pages beyond the end and beyond the largest offset | `WalkMissesNothing`, `PagesFitCount` |

Every module also has a type invariant (`TypeOK`, `TxTypeOK`), checked by its first run.

*Bounds.* Operations on different tasks touch different rows and lock no common one, so one
task shows the races; three requests are enough for a reader, a writer and one that
overtakes both, and for versions 1 to 4. In `task_tx`, the third of three handlers waits for a connection
while a second waits for the row that the first has locked, and two values of the clock
let a handler carry an older time than one that commits before it. The proofs lift the bounds for what they
cover. In `IdempotentCreate`, three requests give a holder, a waiter and a late duplicate;
the lifetimes keep the order of the defaults (5 s < 30 s < 24 h). In `Lifecycle` two requests are
one that is answered and one that is still running when the five seconds pass. Four requests in `Accounts` are two
racing registrations, a login and a use of its token. In `Listing` three rows fill two pages,
the last of them not full, with rows moving across the page border.

*What the conditions of some properties say.* `OneRecordPerKey` and `SameAnswer` hold when
cache commands do not fail, holders are faster than the lock and no DEL is sent again (or, if one is, no creation
fails). `create_slow_holder` and `create_save_error`
drop one condition each. A fourth one matters: the second cache read ignores an
error (line 70 of the service) and goes on as after a miss, so that a failing read breaks the property
as well. `WalkMissesNothing` needs that no row leaves the list during the walk and no
two have equal keys: the code breaks ties by nothing. `PagesFitCount` is about a list that does not change between the count and the page and about offsets that are
an `int`: the run reaches pages whose offset wraps, but the property leaves them out, since the code then answers the first page.
`DuplicatesServed` names whom a waiter that gives up was let down by: a request with its key that failed or was refused, or one that
took the lock without hearing of it, which may be the waiter itself. It also needs responses that last: if a release can fail,
a lock can stay for 30 seconds, and with an `IDEMPOTENCY_TTL` shorter than that (`README.md:660` has 1 s and 5 s as examples)
a request that comes after the response has expired and before the lock has waits for nobody, all requests before it having been
answered. If releases do not fail, more than twice the time of a handler is enough.

*Fairness.* `TaskTx` (`TxFairSpec`): weak fairness of each handler and each goroutine, which the Go
runtime's scheduler gives to a goroutine that can run; no fairness of clients, faults or
crashes. A handler that waits for a connection or a row is not continuously enabled, but weak fairness
is enough: whoever has them is not waiting for anything, and there are finitely many requests.
(PostgreSQL's and the pool's own queues are fair; nothing here depends on it.) `Lifecycle`: only the
steps of `main` are fair, since nothing in the code makes a handler return. `IdempotentCreate`:
as in `TaskTx` for handlers, and also for `Tick`, and for `GiveUp` by itself, because a
`select` chooses at random among its ready cases, so that a fired timeout is not
passed over for ever by the poll timer. `Unheard`, the sending of a command that has to be sent again, is not fair, but it does not
disable `Handle` either: four sendings are the limit, so that a handler goes on at last.

*Disagreements with the documentation* (`findings`): `README.md:661` promises "exactly
one database record" for concurrent duplicates and `docs/openapi.yaml:236` no duplicate creation on
retries, which a slow holder and a failing SET break; the comment at
`services/task_service.go:65` promises that the lock is released on return, which a cancelled
request prevents; `README.md:561` describes one deletion entry, of which two concurrent deletions write two.
Five more, not given a run: a DEL that is sent again breaks `README.md:661`, too (see `IdempotentCreate` above);
`docs/openapi.yaml:388` describes the notification as part of the assignment's transaction "with rollback on failure", where the
code only logs its failure (`services/task_service.go:418`); `docs/openapi.yaml:117` documents 409 for a taken email
where `constants/error.go:14` answers 400 (500 when two registrations race);
the comment at `services/auth_service.go:83` has `Login` store the session if Redis is configured, where
the code calls `SaveSession` in any case and answers 500 without Redis (`MissingAdapters` states what it does);
the comment at `services/task_service.go:363` puts the notification inside the
transaction, where the code (and `README.md:673`) sends it afterwards.

## 4. What is proved

Every safety property that a passing run checks is also a theorem, for every value of the constants that
satisfies the modules' named assumptions and, where listed below, the assumptions on speed and faults that the
run's instance makes too. The inductive invariants were model-checked on the runs' instances before they were proved.

`TaskServiceProofs` proves, for any sets of tasks, users, teams, calls, requests and faults
that satisfy the named assumptions of `TaskData` and `TaskService`:

- `TypeCorrect`: `Spec => []TypeOK`
- `CopiesAreFresh`: `Spec => []FreshCopy`
- `AuditTrailKept`: `Spec => []AuditTrail`
- `DeletionIsFinal`: `Spec => DeletedIsFinal`
- `Refinement`: `Spec => ImplementsVersionedTask`

The inductive invariant is `IInv == Typed /\ Core`. `FreshCopy` and `AuditTrail`
are not inductive by themselves. A deletion writes what its handler read, and for `Refinement` that
must be a state the task once had: so `CopyWasCommitted` says that each copy is what the log replays to
at the copy's version, and `RowWasCommitted` says the same of the row. Both
survive a step because the log only grows (`StatusIs` and `AssigneeIs` look at a prefix: the lemmas on appending)
and because a conditional update that matches the version finds, by `FreshCopy`, exactly the content that was
read. With these, each commit action is shown to be an `Edit`, a `Reassign` or a `Delete`
of `VersionedTask`, and every other action leaves both tables alone.

`TaskServiceHistory` goes on from `IInv`, under the same assumptions:

- `LogReplaysToRow`: `Spec => []AuditReplays`; `DeletionsRecordSnapshots`: `Spec => []DeletionSnapshot`
- `UpdatesAreNotLost`: `Spec => []NoLostUpdate`; `RepliesWereCommitted`: `Spec => []ReplyWasCommitted`;
  `DetailsCoverVersions`: `Spec => []DetailCoversVersion`
- `TeamsStayApart`: `Spec => []TeamsApart`; `NotificationsMatchCommits`: `Spec => []NotificationMatchesCommit`

Two invariants are added. `History` is about the tables: each entry changes from what the entries before it left, deletions
record what the task once was, and everybody in them is a member. `Told` is about clients: `AnswersHold` says of each
acknowledged answer that its version was committed with the status and assignee it shows (and, of a write, with the
caller's own entry), `VersionsMadeOnce` that no two acknowledged writes made one version, `Announced` that goroutines and
notifications belong to committed assignments. Both rest on one fact, `StepGrows`: whatever the step, logs only grow and versions
do not decrease, so that what an answer said of a version stays true (`HistoryStands`, from the lemma `PrefixReplay` that
replaying looks at a prefix only). A new answer holds because a commit appends the entry of the version it answers with
(`MadeVersion`), which is also why nobody else's answer can name that version.

`TaskTxProofs` proves, for any number of requests and connections and any bound of the clock:

- `TxTypeCorrect`: `TxSpec => []TxTypeOK`
- `LocksKeepWrites`: `TxSpec => []WritesStayValid`
- `TimesFollowVersions`: `TxSpec => []VersionsInTimeOrder`
- `TransactionsAreAtomic`: `TxSpec => ImplementsTaskService`
- `TxAuditTrailKept` and `TxRefinement`: `AuditTrail` and the refinement to `VersionedTask`, carried over
- `TxHistoryKept`, `TxAnswersHold`, `TxDeletionIsFinal`: `AuditReplays` and `DeletionSnapshot`; `NoLostUpdate`,
  `ReplyWasCommitted`, `DetailCoversVersion`, `TeamsApart` and `NotificationMatchesCommit`; `DeletedIsFinal`, all
  carried over: no run checks these on `TaskTx`

Its invariant `TxInv` contains `IInv` of `TaskServiceProofs` with `ServicePc` for `pc`. The module instantiates
`TaskServiceHistory` (and so `TaskServiceProofs`) under that mapping (`Atomic`) and shows that every step is a step of it or none
(`StepRefines`), so that `IInv` is preserved by the lemmas already proved. `WritesStayValid` makes `Commit` a
`CommitUpdate`, `CommitAssign` or `CommitDelete`: because the lock keeps others from the row, what `WriteRow`
matched and wrote is what the committed row would be matched and changed to at the end. It needs `NoGet` (no
reading request is in a transaction). `VersionsInTimeOrder` needs `InTime`: the time a handler carries is
not before those of the versions it has read, since it was drawn after it had read them.

`IdempotentCreateProofs` proves, for any requests, keys and times:

- `TypeCorrect`: `Spec => []TypeOK`, with `IdleTimers` as strengthening: a request that
  has not arrived has taken no time, or its first phase could begin too old.
- `LockExcludes`: `Spec => []MutualExclusion`, assuming `HoldersAreFast` (`MaxHold < LockTTL`) and `ReleasesHeard`
  (no DEL is sent again after it took effect), under every combination of the other faults. The inductive invariant is `Locked`: a holder's lock is exactly
  as old as its phase (`LockAge`), so it is alive while the phase lasts, so SETNX
  fails and the unconditional DEL of a holder hits nobody's lock but its own (`OneHolder`).
- `AnswersTruthful`: `Spec => []AnswersAreTasks`, with no assumption on speed or faults. It needs
  `TasksOfRequests`: who is about to cache has created, and who has created keeps the key.
- `OncePerWindow`: `Spec => OneRecordPerKey`, and `DuplicatesAgree`: `Spec => SameAnswer`, assuming
  `HoldersAreFast`, `PublishingWorks` (no fault that comes between a commit and the caching of
  its response) and `RetriesHarmless` (`ReleasesHeard`, or no transaction fails and `2 * MaxHold < CacheTTL`). The invariant `Publication` adds to `Locked` that a task younger than
  `CacheTTL` is in the cache for as long, or its creator is about to put it there
  (`LatestIsCached`), and that whoever is past the second look at the cache found nothing
  (`CreatorsFoundNothing`). That second look is what makes the invariant inductive; the first
  look, before the lock, plays no part. With `ReleasesHeard` there is one creator because the lock
  excludes; if DELs are sent again but every creation succeeds, there is because whoever's lock is deleted too early finds the response
  that the deleting handler has left (`Exposed` locks are `Sheltered` by a response, in the invariant `Retried`). The runs `create_slow_holder` and
  `create_save_error` show that neither assumption can be dropped.

- `WaitersAreServed`: `Spec => []DuplicatesServed`, assuming `HoldersArePrompt` (`MaxHold + 1 < WaitTime`), `ResponsesLast`
  (a cached response outlives two handlers' phases, `2 * MaxHold < CacheTTL`, and if releases can fail also a lock,
  `LockTTL + 2 * MaxHold <= CacheTTL`) and `WaitersCanRead` (no failing read of the cache, no cancellation, no crash). Locking,
  saving, releasing and committing may fail, their commands may be sent again, and `MaxHold < LockTTL` is not needed. The invariant `Service` says that a lock is somebody's who
  is at work, or a response outlives it, or somebody was let down (`LockCovered`); that a waiter waits for a handler that
  has worked at least as long as it has waited, or finds a response by its next look (`Promised`); and that the response a
  handler finds at its second look is a recent one (`FreshAt`), without which the response could expire before
  the waiters had polled it. The conclusion excludes other waiters as the culprit, so that waiters do not let each other down.

`AccountsProofs` proves, for any users, addresses, lifetimes and faults:

- `AccountTypes`: `Spec => []TypeOK`; `EmailsAreUnique`: `Spec => []OneAccountPerEmail`; `RegistrationsAnswerTruly`:
  `Spec => []RegistrationAnswers`; `SessionsOutliveTokens`: `Spec => []SessionBacksTokens`; `RequestsActAsTheirLogin`:
  `Spec => []ActsAsLogin`; `DeadTokensStayDead`: `Spec => []DeadTokensRefused`

The invariant `AInv` follows a request through its queries: every account was made by a registration that has returned
(`MadeBy`), so that an account in a reply is still one in the table; what a login found is an account of its email (`LoginAt`);
a bearer's token is one of a login that succeeded, and what was dead when the request arrived is dead while it is checked (`TokenAt`).
`SessionBacksTokens` is inductive because both lifetimes lose one unit in the same `Tick`.

`LifecycleProofs` proves, for any set of requests and any called handlers:

- `LifecycleTypes`: `Spec => []TypeOK`; `ExitsInOrder`: `Spec => []OrderlyExit`; `EveryAnswerIsLogged`: `Spec => []AnswersAreLogged`;
  `MissingAdaptersAreNoticed`: `Spec => []MissingAdapters`

`LInv` has a part for each request (what its `pc` says of status, line, cause and of the calls made, `RequestInv`)
and one for `main` (what its position says of the listener, the adapters and the requests, `ProcessInv`). The two meet
where `main` closes adapters: `Drained` needs that nobody is in flight, and nobody is accepted after `main` stopped waiting.

`ListingProofs` proves, for any finite table, limits, times and width of `int`:

- `ListingTypes`: `Spec => []TypeOK`
- `PagesMatchTheirCount`: `Spec => []PagesFitCount`. The invariant is small (`Stages`: in a quiet request the count is that of the rows
  to be cut); the proof is the arithmetic of `CutFacts` (what offset and limit cut out) and `PageArithmetic` (rounding up).
- `WalksMissNothing`: `Spec => []WalkMissesNothing`, assuming `TableFits` (no more rows than the largest `int`: otherwise an offset
  wraps in the middle of the table). The invariant `Walk` counts: a row the client is owed has been seen, or at least as many
  rows lie before it (`Rank`) as the pages so far have shown. A rank never decreases while no listed row leaves, and without two equal keys a row's rank
  is its place in whatever order the database returns (`RankIsPlace`), so that the page that reaches a row's rank shows it.

Only model-checked: liveness under fairness (`TxAnswered`, `AssignmentsAnnounced`, `Answered`, `LocksExpire`,
`StopsWhenTold`), which is out of the prover's reach, as it has no rules for `ENABLED`. The four violations are
counterexamples the runs find.

## 5. Plan

Done: `TaskData`, `VersionedTask`, `TaskService` (first, because every other part serves
these rows), `IdempotentCreate`, `Accounts`, `Listing`, `TaskTx` with the times of audit entries,
`Pipeline` and `Lifecycle`, and the proofs of their safety properties.

Next: `OneTaskPerKey`, an abstract specification of idempotent creation (a key maps to at most one task per
window, and answers name it), implemented by `IdempotentCreate` under the assumptions of `OncePerWindow`.

## 6. Not modelled

- Configuration: parsing of environment variables, read once. What it decides is a parameter of the modules
  (lifetimes, `MaxOpenConn`, `production`).
- The operations of the object storage adapter on buckets and objects, `WithContext`, `Transaction` and `SQLDB` of the
  database adapter, and `DeleteSession`: they have no caller.
- What the migrations' SQL creates is assumed (the unique index of `users` is in `Accounts`).
- Request identifiers and client metadata: opaque data nothing decides on. Wording, logging other than
  the status in the access log, JSON layout; password hashing and signatures (assumed perfect); lengths and formats
  of texts in validations.
- Several server processes: their handlers are covered, as handlers share nothing in memory, except for the times of audit
  entries, which need one clock.

The database and Redis are modelled as the code uses them: READ COMMITTED transactions with row locks, unique
indexes, single-command atomicity, keys with a lifetime.
