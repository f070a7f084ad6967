--------------------------- MODULE IdempotentCreate ---------------------------
(***************************************************************************)
(* CreateTask's idempotency protocol: concurrent handlers, of one server   *)
(* or several, that receive the same logical request under the same        *)
(* Idempotency-Key, the response cache and the lock in Redis, and the      *)
(* database that records which tasks were created.                         *)
(*                                                                         *)
(* A key stands for one logical request, and a task is named by the        *)
(* request whose handler created it (each handler draws a new UUID).       *)
(* Each Redis command and each transaction is a step of its own.           *)
(*                                                                         *)
(* Time advances in ticks.  A lock and a cached response carry what is     *)
(* left of their lifetime, a handler how long its current phase has taken. *)
(* MaxHold is the assumption about speed: a handler that is not waiting    *)
(* takes at most MaxHold ticks from its arrival to the lock command, and   *)
(* as many from taking the lock to its return.  The code does not enforce  *)
(* it; with MaxHold >= LockTTL the model has handlers slower than the      *)
(* lock's lifetime.  A tick is no shorter than the waiters' polling        *)
(* interval: a waiter polls at least once in each.                         *)
(*                                                                         *)
(* Faults: "read", "lock", "save" and "release" are Redis commands (GET,   *)
(* SETNX, SET, DEL) that fail; "lockReply", "saveReply" and "releaseReply" *)
(* are commands that take effect while their reply is lost.  The Redis     *)
(* client then sends the command again, because redis.go leaves its        *)
(* MaxRetries at the default of three; it may also fail after that.  (How  *)
(* often is left open; MaxHold bounds it.  A command takes effect, if it   *)
(* does, before it is sent again or given up.)  "db" is a transaction or   *)
(* query that fails, "ack" a commit whose acknowledgement is lost;         *)
(* "cancel" is a client that goes away, after which every command of its   *)
(* handler fails; "crash" ends all handlers.                               *)
(***************************************************************************)
EXTENDS Naturals

CONSTANTS
    Requests, Keys, None,
    Refused,     \* keys of requests that name an assignee outside the team
    LockTTL,     \* 30 seconds
    WaitTime,    \* 5 seconds
    CacheTTL,    \* cfg.IdempotencyTTL, 24 hours
    MaxHold,
    Faults

ASSUME NamesAssumption == None \notin Keys /\ None \notin Requests /\ Refused \subseteq Keys
ASSUME TimesAssumption == {LockTTL, WaitTime, CacheTTL, MaxHold} \subseteq Nat \ {0}
ASSUME FaultsAssumption ==
    Faults \subseteq {"read", "lock", "lockReply", "save", "saveReply", "release",
                      "releaseReply", "db", "ack", "cancel", "crash"}

VARIABLES
    lock,       \* per key: what is left of the lock's lifetime; 0, no lock
    cache,      \* per key: the cached task and what is left of its lifetime
    created,    \* the tasks in the database
    pc, key, reply,
    timer,      \* per request: how long its current phase has taken
    polled,     \* waiters that polled since the last tick
    cancelled,  \* requests whose client is gone
    latest,     \* per key, for properties: the last task created, and what
                \* is left of CacheTTL since then
    unheard     \* for properties: requests that took the lock and were not told

redis == <<lock, cache>>
vars == <<redis, created, pc, key, reply, timer, polled, cancelled, latest, unheard>>

Holding == {"recheck", "create", "save", "release"}
InFlight == {"check", "acquire", "wait"} \cup Holding
Codes == {"pending", "created", "badRequest", "notInTeam", "error", "lost"}

Init ==
    /\ lock = [k \in Keys |-> 0]
    /\ cache = [k \in Keys |-> [task |-> None, ttl |-> 0]]
    /\ created = {}
    /\ pc = [r \in Requests |-> "idle"]
    /\ key = [r \in Requests |-> None]
    /\ reply = [r \in Requests |-> [code |-> "pending", task |-> None]]
    /\ timer = [r \in Requests |-> 0]
    /\ polled = {}
    /\ cancelled = {}
    /\ latest = [k \in Keys |-> [task |-> None, left |-> 0]]
    /\ unheard = {}

Hit(r) == cache[key[r]].ttl > 0

Works(r) == r \notin cancelled
MayFail(command, r) == command \in Faults \/ r \in cancelled

Goto(r, label) == pc' = [pc EXCEPT ![r] = label]

Outcome(r, code, t) == reply' = [reply EXCEPT ![r] = [code |-> code, task |-> t]]

(* Return before the lock is taken, or return through the deferred release.*)
Return(r, code, t) == Goto(r, "done") /\ Outcome(r, code, t)
ReturnHolding(r, code, t) == Goto(r, "release") /\ Outcome(r, code, t)

-----------------------------------------------------------------------------
Receive(r, k) ==
    /\ pc[r] = "idle"
    /\ key' = [key EXCEPT ![r] = k]
    /\ Goto(r, "check")
    /\ UNCHANGED <<redis, created, reply, timer, polled, cancelled, latest, unheard>>

(* Mutation: the refusal of a bad key does not end the handler.            *)
RejectForgotten(r) ==
    /\ pc[r] = "idle"
    /\ Goto(r, "check")
    /\ UNCHANGED <<redis, created, key, reply, timer, polled, cancelled, latest, unheard>>

(* No key, a key that is no UUID, or a body that does not validate.        *)
Reject(r) ==
    /\ pc[r] = "idle"
    /\ Return(r, "badRequest", None)
    /\ UNCHANGED <<redis, created, key, timer, polled, cancelled, latest, unheard>>

CheckHit(r) ==
    /\ pc[r] = "check" /\ Works(r) /\ Hit(r)
    /\ Return(r, "created", cache[key[r]].task)
    /\ UNCHANGED <<redis, created, key, timer, polled, cancelled, latest, unheard>>

CheckMiss(r) ==
    /\ pc[r] = "check" /\ Works(r) /\ ~Hit(r)
    /\ Goto(r, "acquire")
    /\ UNCHANGED <<redis, created, key, reply, timer, polled, cancelled, latest, unheard>>

CheckFails(r) ==
    /\ pc[r] = "check" /\ MayFail("read", r)
    /\ Return(r, "error", None)
    /\ UNCHANGED <<redis, created, key, timer, polled, cancelled, latest, unheard>>

-----------------------------------------------------------------------------
(* SETNX lock:idempotency:<key>                                            *)

(* Mutation: SET instead of SETNX.                                         *)
AcquireAlways(r) ==
    /\ pc[r] = "acquire" /\ Works(r)
    /\ lock' = [lock EXCEPT ![key[r]] = LockTTL]
    /\ Goto(r, "recheck")
    /\ timer' = [timer EXCEPT ![r] = 0]
    /\ UNCHANGED <<cache, created, key, reply, polled, cancelled, latest, unheard>>

Acquire(r) ==
    /\ pc[r] = "acquire" /\ Works(r) /\ lock[key[r]] = 0
    /\ lock' = [lock EXCEPT ![key[r]] = LockTTL]
    /\ Goto(r, "recheck")
    /\ timer' = [timer EXCEPT ![r] = 0]
    /\ UNCHANGED <<cache, created, key, reply, polled, cancelled, latest, unheard>>

AcquireLater(r) ==
    /\ pc[r] = "acquire" /\ Works(r) /\ lock[key[r]] > 0
    /\ Goto(r, "wait")
    /\ timer' = [timer EXCEPT ![r] = 0]
    /\ UNCHANGED <<redis, created, key, reply, polled, cancelled, latest, unheard>>

(* The lock is taken, but the reply is lost: the command is sent again and *)
(* finds the lock taken, so that the handler waits for itself.             *)
AcquireUnheard(r) ==
    /\ "lockReply" \in Faults
    /\ pc[r] = "acquire" /\ Works(r) /\ lock[key[r]] = 0
    /\ lock' = [lock EXCEPT ![key[r]] = LockTTL]
    /\ unheard' = unheard \cup {r}
    /\ UNCHANGED <<cache, created, pc, key, reply, timer, polled, cancelled, latest>>

AcquireFails(r) ==
    /\ pc[r] = "acquire" /\ MayFail("lock", r)
    /\ Return(r, "error", None)
    /\ UNCHANGED <<redis, created, key, timer, polled, cancelled, latest, unheard>>

-----------------------------------------------------------------------------
(* The waiting loop: it polls the cache and never tries the lock again.    *)

PollHit(r) ==
    /\ pc[r] = "wait" /\ Works(r) /\ Hit(r)
    /\ Return(r, "created", cache[key[r]].task)
    /\ polled' = polled \ {r}
    /\ UNCHANGED <<redis, created, key, timer, cancelled, latest, unheard>>

PollMiss(r) ==
    /\ pc[r] = "wait" /\ r \notin polled
    /\ MayFail("read", r) \/ ~Hit(r)
    /\ polled' = polled \cup {r}
    /\ UNCHANGED <<redis, created, pc, key, reply, timer, cancelled, latest, unheard>>

(* Mutations: the loop has no timeout; the release is deferred before the  *)
(* lock is known to be taken.                                              *)
WaitForever(r) ==
    /\ pc[r] = "wait"
    /\ r \in cancelled
    /\ Return(r, "error", None)
    /\ polled' = polled \ {r}
    /\ UNCHANGED <<redis, created, key, timer, cancelled, latest, unheard>>

GiveUpReleasing(r) ==
    /\ pc[r] = "wait"
    /\ timer[r] = WaitTime \/ r \in cancelled
    /\ Return(r, "error", None)
    /\ polled' = polled \ {r}
    /\ lock' = [lock EXCEPT ![key[r]] = 0]
    /\ UNCHANGED <<cache, created, key, timer, cancelled, latest, unheard>>

GiveUp(r) ==
    /\ pc[r] = "wait"
    /\ timer[r] = WaitTime \/ r \in cancelled
    /\ Return(r, "error", None)
    /\ polled' = polled \ {r}
    /\ UNCHANGED <<redis, created, key, timer, cancelled, latest, unheard>>

-----------------------------------------------------------------------------
(* With the lock.                                                          *)

RecheckHit(r) ==
    /\ pc[r] = "recheck" /\ Works(r) /\ Hit(r)
    /\ ReturnHolding(r, "created", cache[key[r]].task)
    /\ UNCHANGED <<redis, created, key, timer, polled, cancelled, latest, unheard>>

(* Mutation: no second look at the cache.                                  *)
NoRecheck(r) ==
    /\ pc[r] = "recheck"
    /\ Goto(r, "create")
    /\ UNCHANGED <<redis, created, key, reply, timer, polled, cancelled, latest, unheard>>

(* An error of the second look at the cache counts as a miss.              *)
RecheckMiss(r) ==
    /\ pc[r] = "recheck"
    /\ MayFail("read", r) \/ ~Hit(r)
    /\ Goto(r, "create")
    /\ UNCHANGED <<redis, created, key, reply, timer, polled, cancelled, latest, unheard>>

RefuseAssignee(r) ==
    /\ pc[r] = "create" /\ Works(r) /\ key[r] \in Refused
    /\ ReturnHolding(r, "notInTeam", None)
    /\ UNCHANGED <<redis, created, key, timer, polled, cancelled, latest, unheard>>

Insert(r) ==
    /\ created' = created \cup {r}
    /\ latest' = [latest EXCEPT ![key[r]] = [task |-> r, left |-> CacheTTL]]

CreateTaskWithLog(r) ==
    /\ pc[r] = "create" /\ Works(r) /\ key[r] \notin Refused
    /\ Insert(r)
    /\ Goto(r, "save")
    /\ UNCHANGED <<redis, key, reply, timer, polled, cancelled, unheard>>

CreateAckLost(r) ==
    /\ "ack" \in Faults
    /\ pc[r] = "create" /\ Works(r) /\ key[r] \notin Refused
    /\ Insert(r)
    /\ ReturnHolding(r, "error", None)
    /\ UNCHANGED <<redis, key, timer, polled, cancelled, unheard>>

(* Mutation: the transaction's error is ignored.                           *)
CreateErrorIgnored(r) ==
    /\ pc[r] = "create" /\ MayFail("db", r)
    /\ Goto(r, "save")
    /\ UNCHANGED <<redis, created, key, reply, timer, polled, cancelled, latest, unheard>>

CreateFails(r) ==
    /\ pc[r] = "create" /\ MayFail("db", r)
    /\ ReturnHolding(r, "error", None)
    /\ UNCHANGED <<redis, created, key, timer, polled, cancelled, latest, unheard>>

(* Mutation: the response is not cached.                                   *)
StoreNothing(r) == cache' = cache

Store(r) == cache' = [cache EXCEPT ![key[r]] = [task |-> r, ttl |-> CacheTTL]]

SaveResponse(r) ==
    /\ pc[r] = "save" /\ Works(r)
    /\ Store(r)
    /\ ReturnHolding(r, "created", r)
    /\ UNCHANGED <<lock, created, key, timer, polled, cancelled, latest, unheard>>

SaveUnheard(r) ==
    /\ "saveReply" \in Faults
    /\ pc[r] = "save" /\ Works(r)
    /\ Store(r)
    /\ UNCHANGED <<lock, created, pc, key, reply, timer, polled, cancelled, latest, unheard>>

SaveFails(r) ==
    /\ pc[r] = "save" /\ MayFail("save", r)
    /\ ReturnHolding(r, "error", None)
    /\ UNCHANGED <<redis, created, key, timer, polled, cancelled, latest, unheard>>

(* DEL lock:idempotency:<key>, whoever's lock it is by now.                *)
ReleaseLock(r) ==
    /\ pc[r] = "release" /\ Works(r)
    /\ lock' = [lock EXCEPT ![key[r]] = 0]
    /\ Goto(r, "done")
    /\ UNCHANGED <<cache, created, key, reply, timer, polled, cancelled, latest, unheard>>

(* The lock is gone, but not the command, which is sent again.             *)
ReleaseUnheard(r) ==
    /\ "releaseReply" \in Faults
    /\ pc[r] = "release" /\ Works(r)
    /\ lock' = [lock EXCEPT ![key[r]] = 0]
    /\ UNCHANGED <<cache, created, pc, key, reply, timer, polled, cancelled, latest, unheard>>

(* The deferred call's error is dropped.                                   *)
ReleaseFails(r) ==
    /\ pc[r] = "release" /\ MayFail("release", r)
    /\ Goto(r, "done")
    /\ UNCHANGED <<redis, created, key, reply, timer, polled, cancelled, latest, unheard>>

-----------------------------------------------------------------------------
(* The surroundings.                                                       *)

Cancel(r) ==
    /\ "cancel" \in Faults
    /\ pc[r] \in InFlight /\ r \notin cancelled
    /\ cancelled' = cancelled \cup {r}
    /\ UNCHANGED <<redis, created, pc, key, reply, timer, polled, latest, unheard>>

Crash ==
    /\ "crash" \in Faults
    /\ \E r \in Requests : pc[r] \in InFlight
    /\ pc' = [r \in Requests |-> IF pc[r] \in InFlight THEN "done" ELSE pc[r]]
    /\ reply' = [r \in Requests |-> IF pc[r] \in InFlight
                                    THEN [code |-> "lost", task |-> None] ELSE reply[r]]
    /\ polled' = {}
    /\ UNCHANGED <<redis, created, key, timer, cancelled, latest, unheard>>

Less(n) == IF n = 0 THEN 0 ELSE n - 1

(* Time for one phase: a waiter's is bounded by its own timeout.           *)
Elapsed(r) ==
    CASE pc[r] = "wait"                      -> IF timer[r] < WaitTime THEN timer[r] + 1
                                                                       ELSE WaitTime
      [] pc[r] \in InFlight \ {"wait"}       -> timer[r] + 1
      [] OTHER                               -> timer[r]

(* Mutation: the lock is set without a lifetime.                           *)
TickKeepingLocks ==
    /\ \A r \in Requests :
          /\ pc[r] = "wait" => r \in polled
          /\ pc[r] \in InFlight \ {"wait"} => timer[r] < MaxHold
    /\ cache' = [k \in Keys |-> IF cache[k].ttl <= 1 THEN [task |-> None, ttl |-> 0]
                                ELSE [cache[k] EXCEPT !.ttl = @ - 1]]
    /\ latest' = [k \in Keys |-> [latest[k] EXCEPT !.left = Less(@)]]
    /\ timer' = [r \in Requests |-> Elapsed(r)]
    /\ polled' = {}
    /\ UNCHANGED <<lock, created, pc, key, reply, cancelled, unheard>>

Tick ==
    /\ \A r \in Requests :
          /\ pc[r] = "wait" => r \in polled
          /\ pc[r] \in InFlight \ {"wait"} => timer[r] < MaxHold
    /\ lock' = [k \in Keys |-> Less(lock[k])]
    /\ cache' = [k \in Keys |-> IF cache[k].ttl <= 1 THEN [task |-> None, ttl |-> 0]
                                ELSE [cache[k] EXCEPT !.ttl = @ - 1]]
    /\ latest' = [k \in Keys |-> [latest[k] EXCEPT !.left = Less(@)]]
    /\ timer' = [r \in Requests |-> Elapsed(r)]
    /\ polled' = {}
    /\ UNCHANGED <<created, pc, key, reply, cancelled, unheard>>

Handle(r) ==
    \/ CheckHit(r) \/ CheckMiss(r) \/ CheckFails(r)
    \/ Acquire(r) \/ AcquireLater(r) \/ AcquireFails(r)
    \/ PollHit(r) \/ PollMiss(r) \/ GiveUp(r)
    \/ RecheckHit(r) \/ RecheckMiss(r) \/ RefuseAssignee(r)
    \/ CreateTaskWithLog(r) \/ CreateAckLost(r) \/ CreateFails(r)
    \/ SaveResponse(r) \/ SaveFails(r)
    \/ ReleaseLock(r) \/ ReleaseFails(r)

Unheard(r) == AcquireUnheard(r) \/ SaveUnheard(r) \/ ReleaseUnheard(r)

Next ==
    \/ \E r \in Requests :
          Handle(r) \/ Unheard(r) \/ Cancel(r) \/ Reject(r) \/ \E k \in Keys : Receive(r, k)
    \/ Crash \/ Tick

Spec == Init /\ [][Next]_vars

(* A handler that may proceed does, and time passes.  The Redis client     *)
(* sends a command four times at most, so that a lost reply does not keep  *)
(* a handler forever.  A waiter whose timeout has fired leaves its loop    *)
(* although polling goes on, because Go's select chooses at random among   *)
(* the cases that are ready.                                               *)
FairSpec ==
    /\ Spec
    /\ \A r \in Requests : WF_vars(Handle(r)) /\ WF_vars(GiveUp(r))
    /\ WF_vars(Tick)

-----------------------------------------------------------------------------
(* Properties.                                                             *)

(* Every variable has the shape its comment gives it, timers stay within   *)
(* their bounds, and a request in flight has a key.                        *)
TypeOK ==
    /\ lock \in [Keys -> 0..LockTTL]
    /\ cache \in [Keys -> [task : Requests \cup {None}, ttl : 0..CacheTTL]]
    /\ created \subseteq Requests
    /\ pc \in [Requests -> InFlight \cup {"idle", "done"}]
    /\ key \in [Requests -> Keys \cup {None}]
    /\ reply \in [Requests -> [code : Codes, task : Requests \cup {None}]]
    /\ timer \in [Requests -> Nat]
    /\ polled \subseteq Requests
    /\ cancelled \subseteq Requests
    /\ latest \in [Keys -> [task : Requests \cup {None}, left : 0..CacheTTL]]
    /\ unheard \subseteq Requests
    /\ \A r \in Requests :
          /\ pc[r] \in InFlight => key[r] \in Keys
          /\ timer[r] <= IF pc[r] = "wait" THEN WaitTime
                         ELSE IF pc[r] \in InFlight THEN MaxHold ELSE timer[r]

(* The lock does its job while its holders are faster than its lifetime    *)
(* and no DEL is sent twice: never are two handlers with the same key      *)
(* between taking and releasing it, whatever else fails; and such a        *)
(* handler's lock has not expired (service lines 39-66).  A DEL that is    *)
(* sent again can delete the lock of whoever took it in between.           *)
MutualExclusion ==
    \A r, q \in Requests :
        pc[r] \in Holding /\ pc[q] \in Holding /\ key[r] = key[q] =>
            r = q /\ lock[key[r]] > 0

(* What a client is told was created was created, by a request with its    *)
(* own key; the same goes for what the cache holds.                        *)
AnswersAreTasks ==
    /\ \A r \in Requests : reply[r].code = "created" =>
          reply[r].task \in created /\ key[reply[r].task] = key[r]
    /\ \A k \in Keys : cache[k].ttl > 0 => cache[k].task \in created /\ key[cache[k].task] = k

(* A task is created only when none was created under the same key during  *)
(* the cache's lifetime: one database record per key.                      *)
CreatedOncePerWindow ==
    \A r \in created' \ created : latest[key[r]].left = 0

OneRecordPerKey == [][CreatedOncePerWindow]_vars

(* Whoever is told of a task, the creator, a waiter or a late duplicate,   *)
(* is told of the last one created under its key: duplicates within the    *)
(* cache's lifetime get the same answer.                                   *)
AnswersTheLatest ==
    \A r \in Requests : reply'[r] # reply[r] /\ reply'[r].code = "created" =>
        reply'[r].task = latest[key[r]].task

SameAnswer == [][AnswersTheLatest]_vars

(* Duplicates that arrive together are served: a waiter whose time is up   *)
(* was let down by another request with its key, one that failed or was    *)
(* refused, and not by another waiter (service lines 50-63), or by one, it *)
(* may be itself, that took the lock and never heard of it.  This is for   *)
(* holders done a polling round before the timeout, MaxHold + 1 < WaitTime,*)
(* and for responses that stay for two of their phases and, if a release   *)
(* can fail, for the lock's lifetime as well.                              *)
GaveUp(r) == pc[r] = "done" /\ reply[r].code = "error" /\ timer[r] = WaitTime

DuplicatesServed ==
    \A r \in Requests : GaveUp(r) =>
        \E q \in Requests :
            /\ key[q] = key[r]
            /\ q \in unheard \/ (~GaveUp(q) /\ reply[q].code \in {"error", "notInTeam"})

(* Every request is answered; in particular a waiter whose lock holder     *)
(* failed, or died, does not wait forever.                                 *)
Answered == \A r \in Requests : pc[r] \in InFlight ~> pc[r] = "done"

(* A lock that nobody releases goes away by itself, so that a key is never *)
(* blocked for good.                                                       *)
LocksExpire == \A k \in Keys : lock[k] > 0 ~> lock[k] = 0

-----------------------------------------------------------------------------
(* A statement about the code that it does not keep in every case.         *)

(* "Lock is acquired by this goroutine: ensure lock is released on         *)
(* return": when a handler that took the lock returns, the lock is free.   *)
ReturnsUnlocked ==
    \A r \in Requests : pc[r] = "release" /\ pc'[r] = "done" => lock'[key[r]] = 0

ReleasedOnReturn == [][ReturnsUnlocked]_vars
=============================================================================
