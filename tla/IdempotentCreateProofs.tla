------------------------- MODULE IdempotentCreateProofs -------------------------
(***************************************************************************)
(* Proofs about IdempotentCreate, for any number of keys and of concurrent *)
(* requests and any times.  What needs an assumption about faults or about *)
(* the speed of the handlers states it in the theorem.                     *)
(***************************************************************************)
EXTENDS IdempotentCreate, TLAPS

(* A handler's time from taking the lock to returning stays below the      *)
(* lock's lifetime.                                                        *)
HoldersAreFast == MaxHold < LockTTL

(* No DEL is sent again whose first sending took effect.                   *)
ReleasesHeard == "releaseReply" \notin Faults

(* No fault that separates the insertion of a task from the caching of its *)
(* response: lost commits, failing or cancelled cache commands, crashes.   *)
PublishingWorks == Faults \cap {"read", "save", "ack", "cancel", "crash"} = {}

LEMMA Times ==
    /\ LockTTL \in Nat /\ LockTTL > 0
    /\ WaitTime \in Nat /\ WaitTime > 0
    /\ CacheTTL \in Nat /\ CacheTTL > 0
    /\ MaxHold \in Nat /\ MaxHold > 0
  BY TimesAssumption

LEMMA LessType == \A n \in Nat : Less(n) \in Nat /\ Less(n) <= n /\ (n > 0 => Less(n) = n - 1)
  BY DEF Less

(* One tick of a phase's timer.                                            *)
LEMMA ElapsedFacts ==
    ASSUME NEW r \in Requests, timer[r] \in Nat
    PROVE  /\ Elapsed(r) \in Nat
           /\ pc[r] = "wait" => Elapsed(r) <= WaitTime
           /\ pc[r] \in InFlight \ {"wait"} => Elapsed(r) = timer[r] + 1
           /\ pc[r] \notin InFlight => Elapsed(r) = timer[r]
  <1>1. CASE pc[r] = "wait"
    <2>1. Elapsed(r) = IF timer[r] < WaitTime THEN timer[r] + 1 ELSE WaitTime
      BY <1>1 DEF Elapsed
    <2> QED
      BY <1>1, <2>1, Times DEF InFlight
  <1>2. CASE pc[r] \in InFlight \ {"wait"}
    BY <1>2 DEF Elapsed
  <1>3. CASE pc[r] \notin InFlight
    BY <1>3 DEF Elapsed, InFlight
  <1> QED
    BY <1>1, <1>2, <1>3

-----------------------------------------------------------------------------
(* Types.                                                                  *)

LEMMA InitTyped == Init => TypeOK
  BY Times DEF Init, TypeOK, InFlight, Holding, Codes

LEMMA CacheType ==
    ASSUME TypeOK, NEW k \in Keys
    PROVE  /\ cache[k].task \in Requests \cup {None} /\ cache[k].ttl \in 0..CacheTTL
           /\ latest[k].task \in Requests \cup {None} /\ latest[k].left \in 0..CacheTTL
  <1>1. /\ cache[k] \in [task : Requests \cup {None}, ttl : 0..CacheTTL]
        /\ latest[k] \in [task : Requests \cup {None}, left : 0..CacheTTL]
    BY DEF TypeOK
  <1> QED
    BY <1>1

(* Time passes.                                                            *)
LEMMA TickTyped ==
    ASSUME TypeOK, Tick
    PROVE  TypeOK'
  <1>1. lock' \in [Keys -> 0..LockTTL]
    BY Times, LessType DEF TypeOK, Tick
  <1>2. ASSUME NEW k \in Keys
        PROVE  /\ cache'[k] \in [task : Requests \cup {None}, ttl : 0..CacheTTL]
               /\ latest'[k] \in [task : Requests \cup {None}, left : 0..CacheTTL]
    <2>1. /\ cache[k] \in [task : Requests \cup {None}, ttl : 0..CacheTTL]
          /\ latest[k] \in [task : Requests \cup {None}, left : 0..CacheTTL]
      BY DEF TypeOK
    <2>2. CASE cache[k].ttl <= 1
      <3>1. cache'[k] = [task |-> None, ttl |-> 0]
        BY <2>2 DEF Tick
      <3>2. latest'[k] = [latest[k] EXCEPT !.left = Less(latest[k].left)]
        BY DEF Tick
      <3> QED
        BY <2>1, <3>1, <3>2, LessType, Times
    <2>3. CASE ~(cache[k].ttl <= 1)
      <3>1. cache'[k] = [cache[k] EXCEPT !.ttl = cache[k].ttl - 1]
        BY <2>3 DEF Tick
      <3>2. latest'[k] = [latest[k] EXCEPT !.left = Less(latest[k].left)]
        BY DEF Tick
      <3> QED
        BY <2>1, <2>3, <3>1, <3>2, LessType, Times
    <2> QED
      BY <2>2, <2>3
  <1>3. /\ cache' \in [Keys -> [task : Requests \cup {None}, ttl : 0..CacheTTL]]
        /\ latest' \in [Keys -> [task : Requests \cup {None}, left : 0..CacheTTL]]
    BY <1>2 DEF Tick
  <1>4. timer' \in [Requests -> Nat]
    BY ElapsedFacts DEF TypeOK, Tick
  <1>5. ASSUME NEW r \in Requests
        PROVE  timer'[r] <= IF pc'[r] = "wait" THEN WaitTime
                            ELSE IF pc'[r] \in InFlight THEN MaxHold ELSE timer'[r]
    <2>1. timer'[r] = Elapsed(r) /\ timer[r] \in Nat /\ pc'[r] = pc[r]
      BY DEF TypeOK, Tick
    <2>2. pc[r] \in InFlight \ {"wait"} => timer[r] < MaxHold
      BY DEF Tick
    <2> QED
      BY <2>1, <2>2, ElapsedFacts, Times
  <1> QED
    BY <1>1, <1>3, <1>4, <1>5 DEF TypeOK, Tick

(* A handler moves on to another phase, taking its timer along unless the  *)
(* phase begins a new one, and possibly answers.                           *)
Moves(r, label) ==
    /\ pc[r] \in InFlight
    /\ Goto(r, label)
    /\ label \in InFlight => label # "wait" /\ pc[r] # "wait"
    /\ UNCHANGED <<key, timer>>

Starts(r, label) ==
    /\ pc[r] \in InFlight
    /\ Goto(r, label)
    /\ timer' = [timer EXCEPT ![r] = 0]
    /\ UNCHANGED <<key, reply>>

LEMMA PhaseTyped ==
    ASSUME TypeOK, NEW r \in Requests, NEW label \in InFlight \cup {"done"},
           Moves(r, label) \/ Starts(r, label)
    PROVE  /\ pc' \in [Requests -> InFlight \cup {"idle", "done"}]
           /\ key' \in [Requests -> Keys \cup {None}]
           /\ timer' \in [Requests -> Nat]
           /\ \A q \in Requests :
                 /\ pc'[q] \in InFlight => key'[q] \in Keys
                 /\ timer'[q] <= IF pc'[q] = "wait" THEN WaitTime
                                 ELSE IF pc'[q] \in InFlight THEN MaxHold ELSE timer'[q]
  <1>1. CASE Moves(r, label)
    BY <1>1 DEF Moves, Goto, TypeOK
  <1>2. CASE Starts(r, label)
    BY <1>2, Times DEF Starts, Goto, TypeOK
  <1> QED
    BY <1>1, <1>2

LEMMA OutcomeTyped ==
    ASSUME TypeOK, NEW r \in Requests, NEW code \in Codes, NEW t \in Requests \cup {None},
           Outcome(r, code, t)
    PROVE  reply' \in [Requests -> [code : Codes, task : Requests \cup {None}]]
  BY DEF TypeOK, Outcome

(* The steps of a handler.                                                 *)
LEMMA HandleTyped ==
    ASSUME TypeOK, NEW r \in Requests, Handle(r)
    PROVE  TypeOK'
  <1>0. pc[r] \in InFlight => key[r] \in Keys
    BY DEF TypeOK
  <1>1. CASE CheckHit(r) \/ PollHit(r)
    <2>1. Moves(r, "done")
      BY <1>1 DEF Moves, CheckHit, PollHit, Return, ReturnHolding, redis, InFlight, Holding
    <2>2. "done" \in InFlight \cup {"done"}
      BY DEF InFlight, Holding
    <2>3. Outcome(r, "created", cache[key[r]].task)
      BY <1>1 DEF CheckHit, PollHit, Return
    <2>4. "created" \in Codes /\ cache[key[r]].task \in Requests \cup {None}
      BY <1>1, <1>0, CacheType DEF CheckHit, PollHit, Codes, InFlight, Holding
    <2>5. reply' \in [Requests -> [code : Codes, task : Requests \cup {None}]]
      BY <2>3, <2>4, OutcomeTyped
    <2> QED
      BY <1>1, <2>1, <2>2, PhaseTyped, <2>5 DEF TypeOK, CheckHit, PollHit, redis
  <1>2. CASE RecheckHit(r)
    <2>1. Moves(r, "release")
      BY <1>2 DEF Moves, RecheckHit, Return, ReturnHolding, redis, InFlight, Holding
    <2>2. "release" \in InFlight \cup {"done"}
      BY DEF InFlight, Holding
    <2>3. Outcome(r, "created", cache[key[r]].task)
      BY <1>2 DEF RecheckHit, ReturnHolding
    <2>4. "created" \in Codes /\ cache[key[r]].task \in Requests \cup {None}
      BY <1>2, <1>0, CacheType DEF RecheckHit, Codes, InFlight, Holding
    <2>5. reply' \in [Requests -> [code : Codes, task : Requests \cup {None}]]
      BY <2>3, <2>4, OutcomeTyped
    <2> QED
      BY <1>2, <2>1, <2>2, PhaseTyped, <2>5 DEF TypeOK, RecheckHit, redis
  <1>3. CASE CheckMiss(r)
    <2>1. Moves(r, "acquire")
      BY <1>3 DEF Moves, CheckMiss, Return, ReturnHolding, redis, InFlight, Holding
    <2>2. "acquire" \in InFlight \cup {"done"}
      BY DEF InFlight, Holding
    <2>3. reply' = reply
      BY <1>3 DEF CheckMiss
    <2> QED
      BY <1>3, <2>1, <2>2, PhaseTyped, <2>3 DEF TypeOK, CheckMiss, redis
  <1>4. CASE RecheckMiss(r)
    <2>1. Moves(r, "create")
      BY <1>4 DEF Moves, RecheckMiss, Return, ReturnHolding, redis, InFlight, Holding
    <2>2. "create" \in InFlight \cup {"done"}
      BY DEF InFlight, Holding
    <2>3. reply' = reply
      BY <1>4 DEF RecheckMiss
    <2> QED
      BY <1>4, <2>1, <2>2, PhaseTyped, <2>3 DEF TypeOK, RecheckMiss, redis
  <1>5. CASE CheckFails(r) \/ GiveUp(r)
    <2>1. Moves(r, "done")
      BY <1>5 DEF Moves, CheckFails, GiveUp, Return, ReturnHolding, redis, InFlight, Holding
    <2>2. "done" \in InFlight \cup {"done"}
      BY DEF InFlight, Holding
    <2>3. Outcome(r, "error", None)
      BY <1>5 DEF CheckFails, GiveUp, Return
    <2>4. "error" \in Codes /\ None \in Requests \cup {None}
      BY DEF Codes
    <2>5. reply' \in [Requests -> [code : Codes, task : Requests \cup {None}]]
      BY <2>3, <2>4, OutcomeTyped
    <2> QED
      BY <1>5, <2>1, <2>2, PhaseTyped, <2>5 DEF TypeOK, CheckFails, GiveUp, redis
  <1>6. CASE CreateFails(r)
    <2>1. Moves(r, "release")
      BY <1>6 DEF Moves, CreateFails, Return, ReturnHolding, redis, InFlight, Holding
    <2>2. "release" \in InFlight \cup {"done"}
      BY DEF InFlight, Holding
    <2>3. Outcome(r, "error", None)
      BY <1>6 DEF CreateFails, ReturnHolding
    <2>4. "error" \in Codes /\ None \in Requests \cup {None}
      BY DEF Codes
    <2>5. reply' \in [Requests -> [code : Codes, task : Requests \cup {None}]]
      BY <2>3, <2>4, OutcomeTyped
    <2> QED
      BY <1>6, <2>1, <2>2, PhaseTyped, <2>5 DEF TypeOK, CreateFails, redis
  <1>7. CASE RefuseAssignee(r)
    <2>1. Moves(r, "release")
      BY <1>7 DEF Moves, RefuseAssignee, Return, ReturnHolding, redis, InFlight, Holding
    <2>2. "release" \in InFlight \cup {"done"}
      BY DEF InFlight, Holding
    <2>3. Outcome(r, "notInTeam", None)
      BY <1>7 DEF RefuseAssignee, ReturnHolding
    <2>4. "notInTeam" \in Codes /\ None \in Requests \cup {None}
      BY DEF Codes
    <2>5. reply' \in [Requests -> [code : Codes, task : Requests \cup {None}]]
      BY <2>3, <2>4, OutcomeTyped
    <2> QED
      BY <1>7, <2>1, <2>2, PhaseTyped, <2>5 DEF TypeOK, RefuseAssignee, redis
  <1>8. CASE Acquire(r)
    <2>1. Starts(r, "recheck")
      BY <1>8 DEF Starts, Acquire, Return, ReturnHolding, redis, InFlight, Holding
    <2>2. "recheck" \in InFlight \cup {"done"}
      BY DEF InFlight, Holding
    <2>3. reply' = reply
      BY <1>8 DEF Acquire
    <2>4. lock' \in [Keys -> 0..LockTTL]
      BY <1>8, Times DEF Acquire, redis, TypeOK
    <2> QED
      BY <1>8, <2>1, <2>2, PhaseTyped, <2>3, <2>4 DEF TypeOK, Acquire, redis
  <1>9. CASE AcquireLater(r)
    <2>1. Starts(r, "wait")
      BY <1>9 DEF Starts, AcquireLater, Return, ReturnHolding, redis, InFlight, Holding
    <2>2. "wait" \in InFlight \cup {"done"}
      BY DEF InFlight, Holding
    <2>3. reply' = reply
      BY <1>9 DEF AcquireLater
    <2> QED
      BY <1>9, <2>1, <2>2, PhaseTyped, <2>3 DEF TypeOK, AcquireLater, redis
  <1>10. CASE AcquireFails(r)
    <2>1. Moves(r, "done")
      BY <1>10 DEF Moves, AcquireFails, Return, ReturnHolding, redis, InFlight, Holding
    <2>2. "done" \in InFlight \cup {"done"}
      BY DEF InFlight, Holding
    <2>3. Outcome(r, "error", None)
      BY <1>10 DEF AcquireFails, Return
    <2>4. "error" \in Codes /\ None \in Requests \cup {None}
      BY DEF Codes
    <2>5. reply' \in [Requests -> [code : Codes, task : Requests \cup {None}]]
      BY <2>3, <2>4, OutcomeTyped
    <2>6. lock' \in [Keys -> 0..LockTTL]
      BY <1>10 DEF AcquireFails, redis, TypeOK
    <2> QED
      BY <1>10, <2>1, <2>2, PhaseTyped, <2>5, <2>6 DEF TypeOK, AcquireFails, redis
  <1>11. CASE CreateTaskWithLog(r)
    <2>1. Moves(r, "save")
      BY <1>11 DEF Moves, CreateTaskWithLog, Return, ReturnHolding, redis, InFlight, Holding
    <2>2. "save" \in InFlight \cup {"done"}
      BY DEF InFlight, Holding
    <2>3. reply' = reply
      BY <1>11 DEF CreateTaskWithLog
    <2>4. latest' \in [Keys -> [task : Requests \cup {None}, left : 0..CacheTTL]]
      BY <1>11, Times DEF CreateTaskWithLog, Insert, TypeOK
    <2> QED
      BY <1>11, <2>1, <2>2, PhaseTyped, <2>3, <2>4 DEF TypeOK, CreateTaskWithLog, Insert, redis
  <1>12. CASE CreateAckLost(r)
    <2>1. Moves(r, "release")
      BY <1>12 DEF Moves, CreateAckLost, Return, ReturnHolding, redis, InFlight, Holding
    <2>2. "release" \in InFlight \cup {"done"}
      BY DEF InFlight, Holding
    <2>3. Outcome(r, "error", None)
      BY <1>12 DEF CreateAckLost, ReturnHolding
    <2>4. "error" \in Codes /\ None \in Requests \cup {None}
      BY DEF Codes
    <2>5. reply' \in [Requests -> [code : Codes, task : Requests \cup {None}]]
      BY <2>3, <2>4, OutcomeTyped
    <2>6. latest' \in [Keys -> [task : Requests \cup {None}, left : 0..CacheTTL]]
      BY <1>12, Times DEF CreateAckLost, Insert, TypeOK
    <2> QED
      BY <1>12, <2>1, <2>2, PhaseTyped, <2>5, <2>6 DEF TypeOK, CreateAckLost, Insert, redis
  <1>13. CASE SaveResponse(r)
    <2>1. Moves(r, "release")
      BY <1>13 DEF Moves, SaveResponse, Return, ReturnHolding, redis, InFlight, Holding
    <2>2. "release" \in InFlight \cup {"done"}
      BY DEF InFlight, Holding
    <2>3. Outcome(r, "created", r)
      BY <1>13 DEF SaveResponse, ReturnHolding
    <2>4. "created" \in Codes /\ r \in Requests \cup {None}
      BY DEF Codes
    <2>5. reply' \in [Requests -> [code : Codes, task : Requests \cup {None}]]
      BY <2>3, <2>4, OutcomeTyped
    <2>6. cache' \in [Keys -> [task : Requests \cup {None}, ttl : 0..CacheTTL]]
      BY <1>13, Times DEF SaveResponse, Store, TypeOK
    <2> QED
      BY <1>13, <2>1, <2>2, PhaseTyped, <2>5, <2>6 DEF TypeOK, SaveResponse, redis
  <1>14. CASE SaveFails(r)
    <2>1. Moves(r, "release")
      BY <1>14 DEF Moves, SaveFails, Return, ReturnHolding, redis, InFlight, Holding
    <2>2. "release" \in InFlight \cup {"done"}
      BY DEF InFlight, Holding
    <2>3. Outcome(r, "error", None)
      BY <1>14 DEF SaveFails, ReturnHolding
    <2>4. "error" \in Codes /\ None \in Requests \cup {None}
      BY DEF Codes
    <2>5. reply' \in [Requests -> [code : Codes, task : Requests \cup {None}]]
      BY <2>3, <2>4, OutcomeTyped
    <2>6. cache' \in [Keys -> [task : Requests \cup {None}, ttl : 0..CacheTTL]]
      BY <1>14, Times DEF SaveFails, redis, TypeOK
    <2> QED
      BY <1>14, <2>1, <2>2, PhaseTyped, <2>5, <2>6 DEF TypeOK, SaveFails, redis
  <1>15. CASE ReleaseLock(r) \/ ReleaseFails(r)
    <2>1. Moves(r, "done")
      BY <1>15 DEF Moves, ReleaseLock, ReleaseFails, Return, ReturnHolding, redis, InFlight, Holding
    <2>2. "done" \in InFlight \cup {"done"}
      BY DEF InFlight, Holding
    <2>3. reply' = reply
      BY <1>15 DEF ReleaseLock, ReleaseFails
    <2>4. lock' \in [Keys -> 0..LockTTL]
      BY <1>15, Times DEF ReleaseLock, ReleaseFails, redis, TypeOK
    <2> QED
      BY <1>15, <2>1, <2>2, PhaseTyped, <2>3, <2>4 DEF TypeOK, ReleaseLock, ReleaseFails, redis
  <1>16. CASE PollMiss(r)
    BY <1>16 DEF TypeOK, PollMiss, redis
  <1> QED
    BY <1>1, <1>2, <1>3, <1>4, <1>5, <1>6, <1>7, <1>8, <1>9,
       <1>10, <1>11, <1>12, <1>13, <1>14, <1>15, <1>16 DEF Handle

(* A command took effect, and its handler does not know.                   *)
LEMMA UnheardTyped ==
    ASSUME TypeOK, NEW r \in Requests, Unheard(r)
    PROVE  TypeOK'
  <1>1. CASE AcquireUnheard(r)
    BY <1>1, Times DEF TypeOK, AcquireUnheard, InFlight
  <1>2. CASE SaveUnheard(r)
    BY <1>2, Times DEF TypeOK, SaveUnheard, Store
  <1>3. CASE ReleaseUnheard(r)
    BY <1>3, Times DEF TypeOK, ReleaseUnheard
  <1> QED
    BY <1>1, <1>2, <1>3 DEF Unheard

(* A request that has not arrived has taken no time.                       *)
IdleTimers == \A r \in Requests : pc[r] = "idle" => timer[r] = 0

LEMMA IdleStays ==
    ASSUME TypeOK, [Next]_vars, NEW r \in Requests, pc'[r] = "idle"
    PROVE  pc[r] = "idle" /\ timer'[r] = timer[r]
  <1>1. ASSUME NEW q \in Requests, Handle(q)
        PROVE  pc[r] = "idle" /\ timer'[r] = timer[r]
    BY <1>1 DEF TypeOK, Handle, CheckHit, CheckMiss, CheckFails, Acquire, AcquireLater,
       AcquireFails, PollHit, PollMiss, GiveUp, RecheckHit, RecheckMiss, RefuseAssignee,
       CreateTaskWithLog, CreateAckLost, CreateFails, SaveResponse, SaveFails, ReleaseLock,
       ReleaseFails, Return, ReturnHolding, Goto
  <1>2. ASSUME NEW q \in Requests, Reject(q) \/ Cancel(q) \/ \E k \in Keys : Receive(q, k)
        PROVE  pc[r] = "idle" /\ timer'[r] = timer[r]
    BY <1>2 DEF TypeOK, Reject, Cancel, Receive, Return, Goto
  <1>3. CASE Tick
    BY <1>3, ElapsedFacts DEF TypeOK, Tick, InFlight, Holding
  <1>4. CASE Crash
    BY <1>4 DEF TypeOK, Crash
  <1>5. CASE UNCHANGED vars
    BY <1>5 DEF vars
  <1>6. ASSUME NEW q \in Requests, Unheard(q)
        PROVE  pc[r] = "idle" /\ timer'[r] = timer[r]
    BY <1>6 DEF Unheard, AcquireUnheard, SaveUnheard, ReleaseUnheard
  <1> QED
    BY <1>1, <1>2, <1>3, <1>4, <1>5, <1>6 DEF Next

LEMMA TypedStep == TypeOK /\ IdleTimers /\ [Next]_vars => TypeOK' /\ IdleTimers'
  <1> SUFFICES ASSUME TypeOK, IdleTimers, [Next]_vars PROVE TypeOK' /\ IdleTimers'
    OBVIOUS
  <1>1. ASSUME NEW r \in Requests, Reject(r)
        PROVE  TypeOK'
    <2>1. Outcome(r, "badRequest", None) /\ "badRequest" \in Codes
      BY <1>1 DEF Reject, Return, Codes
    <2>2. reply' \in [Requests -> [code : Codes, task : Requests \cup {None}]]
      BY <2>1, OutcomeTyped
    <2> QED
      BY <1>1, <2>2 DEF TypeOK, Reject, Return, Goto, redis, InFlight, Holding
  <1>2. ASSUME NEW r \in Requests, NEW k \in Keys, Receive(r, k)
        PROVE  TypeOK'
    BY <1>2, Times DEF TypeOK, IdleTimers, Receive, Goto, redis, InFlight, Holding
  <1>3. ASSUME NEW r \in Requests, Cancel(r)
        PROVE  TypeOK'
    BY <1>3 DEF TypeOK, Cancel, redis
  <1>4. ASSUME Crash
        PROVE  TypeOK'
    <2> DEFINE lost == [code |-> "lost", task |-> None]
    <2>1. lost \in [code : Codes, task : Requests \cup {None}]
      BY DEF Codes
    <2>2. reply' = [r \in Requests |-> IF pc[r] \in InFlight THEN lost ELSE reply[r]]
      BY <1>4 DEF Crash
    <2> HIDE DEF lost
    <2>3. reply' \in [Requests -> [code : Codes, task : Requests \cup {None}]]
      BY <2>1, <2>2 DEF TypeOK
    <2>4. /\ pc' = [r \in Requests |-> IF pc[r] \in InFlight THEN "done" ELSE pc[r]]
          /\ polled' = {}
          /\ lock' = lock /\ cache' = cache /\ created' = created /\ key' = key
          /\ timer' = timer /\ cancelled' = cancelled /\ latest' = latest
          /\ unheard' = unheard
      BY <1>4 DEF Crash, redis
    <2> QED
      BY <2>3, <2>4 DEF TypeOK, InFlight, Holding
  <1>5. ASSUME UNCHANGED vars
        PROVE  TypeOK'
    <2>1. /\ lock' = lock /\ cache' = cache /\ created' = created /\ pc' = pc /\ key' = key
          /\ reply' = reply /\ timer' = timer /\ polled' = polled /\ cancelled' = cancelled
          /\ latest' = latest /\ unheard' = unheard
      BY <1>5 DEF vars, redis
    <2> QED
      BY <2>1 DEF TypeOK
  <1>6. TypeOK'
    BY <1>1, <1>2, <1>3, <1>4, <1>5, TickTyped, HandleTyped, UnheardTyped DEF Next
  <1>7. ASSUME NEW r \in Requests, pc'[r] = "idle"
        PROVE  pc[r] = "idle" /\ timer'[r] = timer[r]
    BY <1>7, IdleStays
  <1> QED
    BY <1>6, <1>7 DEF IdleTimers

(* Type correctness; in particular no phase of a handler that is not       *)
(* waiting outlasts MaxHold, and no waiter its timeout.                    *)
THEOREM TypeCorrect == Spec => []TypeOK
  <1>1. Init => IdleTimers
    BY DEF Init, IdleTimers
  <1> QED
    BY <1>1, InitTyped, TypedStep, PTL DEF Spec

-----------------------------------------------------------------------------
(* Mutual exclusion.                                                       *)

(* A holder's lock is exactly as old as its phase, and a key has at most   *)
(* one holder.                                                             *)
LockAge == \A r \in Requests : pc[r] \in Holding => lock[key[r]] = LockTTL - timer[r]

OneHolder ==
    \A r, q \in Requests :
        pc[r] \in Holding /\ pc[q] \in Holding /\ key[r] = key[q] => r = q

Locked == TypeOK /\ IdleTimers /\ LockAge /\ OneHolder

LEMMA HeldLocks ==
    ASSUME HoldersAreFast, Locked, NEW r \in Requests, pc[r] \in Holding
    PROVE  key[r] \in Keys /\ lock[key[r]] > 0
  <1>1. timer[r] <= MaxHold /\ timer[r] \in Nat /\ key[r] \in Keys
    BY DEF Locked, TypeOK, InFlight, Holding
  <1>2. lock[key[r]] = LockTTL - timer[r]
    BY DEF Locked, LockAge
  <1> QED
    BY <1>1, <1>2, Times DEF HoldersAreFast

(* Steps after which the holders are holders of before, with their locks.  *)
LEMMA HoldersKept ==
    ASSUME Locked,
           \A q \in Requests : pc'[q] \in Holding =>
               /\ pc[q] \in Holding
               /\ key'[q] = key[q] /\ timer'[q] = timer[q]
               /\ lock'[key[q]] = lock[key[q]]
    PROVE  LockAge' /\ OneHolder'
  <1>1. LockAge'
    BY DEF Locked, LockAge
  <1>2. OneHolder'
    BY DEF Locked, OneHolder
  <1> QED
    BY <1>1, <1>2

LEMMA LockedHandle ==
    ASSUME HoldersAreFast, Locked, NEW r \in Requests, Handle(r)
    PROVE  LockAge' /\ OneHolder'
  <1>0. pc \in [Requests -> InFlight \cup {"idle", "done"}] /\ timer \in [Requests -> Nat]
    BY DEF Locked, TypeOK
  <1>1. CASE Acquire(r)
    <2>1. /\ pc' = [pc EXCEPT ![r] = "recheck"] /\ key' = key
          /\ timer' = [timer EXCEPT ![r] = 0]
          /\ lock' = [lock EXCEPT ![key[r]] = LockTTL]
          /\ lock[key[r]] = 0
      BY <1>1 DEF Acquire, Goto
    <2>2. key[r] \in Keys /\ lock \in [Keys -> 0..LockTTL]
      BY <1>1 DEF Locked, TypeOK, Acquire, InFlight
    <2>3. \A q \in Requests : pc[q] \in Holding => key[q] # key[r]
      BY <2>1, HeldLocks
    <2>4. LockAge'
      BY <1>0, <2>1, <2>2, <2>3, Times, HeldLocks DEF Locked, LockAge
    <2>5. OneHolder'
      BY <1>0, <2>1, <2>3 DEF Locked, OneHolder
    <2> QED
      BY <2>4, <2>5
  <1>3. CASE ReleaseLock(r)
    <2>1. /\ pc' = [pc EXCEPT ![r] = "done"] /\ key' = key /\ timer' = timer
          /\ lock' = [lock EXCEPT ![key[r]] = 0]
          /\ pc[r] \in Holding
      BY <1>3 DEF ReleaseLock, Goto, Holding
    <2>2. lock \in [Keys -> 0..LockTTL]
      BY DEF Locked, TypeOK
    <2>3. \A q \in Requests : pc'[q] \in Holding => pc[q] \in Holding /\ q # r
      BY <1>0, <2>1 DEF Holding
    <2>4. \A q \in Requests : pc[q] \in Holding /\ q # r => lock'[key[q]] = lock[key[q]]
      BY <2>1, <2>2, HeldLocks DEF Locked, OneHolder
    <2> QED
      BY <2>1, <2>3, <2>4, HoldersKept
  <1>4. CASE \/ CheckHit(r) \/ CheckMiss(r) \/ CheckFails(r) \/ AcquireLater(r)
             \/ AcquireFails(r) \/ PollHit(r) \/ PollMiss(r) \/ GiveUp(r)
    <2>1. lock' = lock /\ key' = key
      BY <1>4 DEF CheckHit, CheckMiss, CheckFails, AcquireLater, AcquireFails, PollHit, PollMiss,
         GiveUp, redis
    <2>2. \A q \in Requests : pc'[q] \in Holding => pc[q] \in Holding /\ timer'[q] = timer[q]
      BY <1>0, <1>4 DEF CheckHit, CheckMiss, CheckFails, AcquireLater, AcquireFails, PollHit,
         PollMiss, GiveUp, Return, Goto, Holding
    <2> QED
      BY <2>1, <2>2, HoldersKept
  <1>5. CASE \/ RecheckHit(r) \/ RecheckMiss(r) \/ RefuseAssignee(r) \/ CreateTaskWithLog(r)
             \/ CreateAckLost(r) \/ CreateFails(r) \/ SaveResponse(r) \/ SaveFails(r)
             \/ ReleaseFails(r)
    <2>1. lock' = lock /\ key' = key /\ timer' = timer /\ pc[r] \in Holding
      BY <1>5 DEF RecheckHit, RecheckMiss, RefuseAssignee, CreateTaskWithLog, CreateAckLost,
         CreateFails, SaveResponse, SaveFails, ReleaseFails, redis, Holding
    <2>2. \A q \in Requests \ {r} : pc'[q] = pc[q]
      BY <1>0, <1>5 DEF RecheckHit, RecheckMiss, RefuseAssignee, CreateTaskWithLog,
         CreateAckLost, CreateFails, SaveResponse, SaveFails, ReleaseFails, ReturnHolding, Goto
    <2> QED
      BY <2>1, <2>2, HoldersKept
  <1> QED
    BY <1>1, <1>3, <1>4, <1>5 DEF Handle

LEMMA LockedUnheard ==
    ASSUME HoldersAreFast, ReleasesHeard, Locked, NEW r \in Requests, Unheard(r)
    PROVE  LockAge' /\ OneHolder'
  <1>1. /\ pc' = pc /\ key' = key /\ timer' = timer
        /\ lock' = lock \/ (lock[key[r]] = 0 /\ lock' = [lock EXCEPT ![key[r]] = LockTTL])
    BY DEF Unheard, AcquireUnheard, SaveUnheard, ReleaseUnheard, ReleasesHeard
  <1>2. \A q \in Requests : pc[q] \in Holding => lock'[key[q]] = lock[key[q]]
    BY <1>1, HeldLocks DEF Locked, TypeOK
  <1> QED
    BY <1>1, <1>2, HoldersKept

LEMMA LockedStep == HoldersAreFast /\ ReleasesHeard /\ Locked /\ [Next]_vars => Locked'
  <1> SUFFICES ASSUME HoldersAreFast, ReleasesHeard, Locked, [Next]_vars PROVE Locked'
    OBVIOUS
  <1>0. /\ pc \in [Requests -> InFlight \cup {"idle", "done"}] /\ timer \in [Requests -> Nat]
        /\ lock \in [Keys -> 0..LockTTL]
    BY DEF Locked, TypeOK
  <1>1. ASSUME NEW r \in Requests, Cancel(r) \/ Reject(r) \/ \E k \in Keys : Receive(r, k)
        PROVE  LockAge' /\ OneHolder'
    <2>1. lock' = lock /\ timer' = timer
      BY <1>1 DEF Cancel, Reject, Receive, redis
    <2>2. \A q \in Requests : pc'[q] \in Holding => pc[q] \in Holding /\ key'[q] = key[q]
      BY <1>0, <1>1 DEF Cancel, Reject, Receive, Return, Goto, Holding, Locked, TypeOK
    <2> QED
      BY <2>1, <2>2, HoldersKept
  <1>2. ASSUME Crash
        PROVE  LockAge' /\ OneHolder'
    <2>1. \A q \in Requests : pc'[q] \notin Holding
      BY <1>2 DEF Crash, InFlight, Holding
    <2> QED
      BY <2>1, HoldersKept
  <1>3. ASSUME Tick
        PROVE  LockAge' /\ OneHolder'
    <2>1. ASSUME NEW r \in Requests, pc[r] \in Holding
          PROVE  lock'[key[r]] = lock[key[r]] - 1 /\ timer'[r] = timer[r] + 1
      <3>1. key[r] \in Keys /\ lock[key[r]] > 0 /\ lock[key[r]] \in Nat
        BY <1>0, <2>1, HeldLocks
      <3>2. timer'[r] = Elapsed(r) /\ lock'[key[r]] = Less(lock[key[r]])
        BY <1>3, <3>1 DEF Tick
      <3> QED
        BY <1>0, <2>1, <3>1, <3>2, LessType, ElapsedFacts DEF InFlight, Holding
    <2>2. pc' = pc /\ key' = key
      BY <1>3 DEF Tick
    <2>3. \A r \in Requests : pc[r] \in Holding =>
              lock[key[r]] = LockTTL - timer[r] /\ timer[r] \in Nat
      BY <1>0 DEF Locked, LockAge
    <2>4. LockAge'
      <3> SUFFICES ASSUME NEW r \in Requests, pc[r] \in Holding
                   PROVE  lock'[key[r]] = LockTTL - timer'[r]
        BY <2>2 DEF LockAge
      <3> QED
        BY <2>1, <2>3, Times
    <2>5. OneHolder'
      BY <2>2 DEF Locked, OneHolder
    <2> QED
      BY <2>4, <2>5
  <1>4. ASSUME UNCHANGED vars
        PROVE  LockAge' /\ OneHolder'
    <2>1. lock' = lock /\ timer' = timer /\ pc' = pc /\ key' = key
      BY <1>4 DEF vars, redis
    <2> QED
      BY <2>1, HoldersKept
  <1>5. LockAge' /\ OneHolder'
    BY <1>1, <1>2, <1>3, <1>4, LockedHandle, LockedUnheard DEF Next
  <1>6. TypeOK' /\ IdleTimers'
    BY TypedStep DEF Locked
  <1> QED
    BY <1>5, <1>6 DEF Locked

LEMMA InitLocked == Init => Locked
  <1> SUFFICES ASSUME Init PROVE Locked
    OBVIOUS
  <1>1. \A r \in Requests : pc[r] = "idle" /\ timer[r] = 0
    BY DEF Init
  <1> QED
    BY <1>1, InitTyped DEF Locked, IdleTimers, LockAge, OneHolder, Holding

(* Two handlers are never between taking and releasing the lock of one     *)
(* key, and a holder's lock has not expired, provided that a holder is     *)
(* done before the lock's lifetime is over and that no DEL is sent again   *)
(* after it took effect: every other command and transaction may fail or   *)
(* be sent again, a DEL may fail, handlers may crash and clients go away.  *)
(* Both assumptions are needed: the code neither renews the lock nor looks *)
(* whose lock it deletes.                                                  *)
THEOREM LockExcludes ==
    ASSUME HoldersAreFast, ReleasesHeard
    PROVE  Spec => []MutualExclusion
  <1>1. Locked => MutualExclusion
    BY HeldLocks DEF Locked, OneHolder, MutualExclusion
  <1>2. Locked /\ [Next]_vars => Locked'
    BY LockedStep
  <1> QED
    BY <1>1, <1>2, InitLocked, PTL DEF Spec

-----------------------------------------------------------------------------
(* Answers.                                                                *)

(* A handler that caches its response has created its task, and a task's   *)
(* request has arrived, so that its key no longer changes.                 *)
TasksOfRequests ==
    \A r \in Requests : /\ pc[r] = "save" => r \in created
                        /\ r \in created => pc[r] # "idle"

(* A request that has not arrived has no answer.                           *)
IdleReplies == \A r \in Requests : pc[r] = "idle" => reply[r].code = "pending"

Truthful == TypeOK /\ IdleTimers /\ IdleReplies /\ AnswersAreTasks /\ TasksOfRequests

LEMMA CacheAges ==
    ASSUME TypeOK, Tick, NEW k \in Keys
    PROVE  /\ cache[k].ttl \in Nat /\ cache'[k].ttl = Less(cache[k].ttl)
           /\ cache'[k].ttl > 0 => cache[k].ttl > 0 /\ cache'[k].task = cache[k].task
           /\ latest[k].left \in Nat /\ latest'[k].left = Less(latest[k].left)
           /\ latest'[k].task = latest[k].task
  <1>1. /\ cache[k] \in [task : Requests \cup {None}, ttl : 0..CacheTTL]
        /\ latest[k] \in [task : Requests \cup {None}, left : 0..CacheTTL]
    BY DEF TypeOK
  <1>2. latest'[k] = [latest[k] EXCEPT !.left = Less(latest[k].left)]
    BY DEF Tick
  <1>3. CASE cache[k].ttl <= 1
    <2>1. cache'[k] = [task |-> None, ttl |-> 0]
      BY <1>3 DEF Tick
    <2> QED
      BY <1>1, <1>2, <1>3, <2>1, Times DEF Less
  <1>4. CASE ~(cache[k].ttl <= 1)
    <2>1. cache'[k] = [cache[k] EXCEPT !.ttl = cache[k].ttl - 1]
      BY <1>4 DEF Tick
    <2> QED
      BY <1>1, <1>2, <1>4, <2>1, Times DEF Less
  <1> QED
    BY <1>3, <1>4

LEMMA IdleRepliesStep ==
    ASSUME TypeOK, IdleReplies, [Next]_vars
    PROVE  IdleReplies'
  <1> SUFFICES ASSUME NEW r \in Requests, pc'[r] = "idle"
               PROVE  reply'[r] = reply[r] /\ pc[r] = "idle"
    BY DEF IdleReplies
  <1>1. pc[r] = "idle"
    BY IdleStays
  <1>2. /\ pc \in [Requests -> InFlight \cup {"idle", "done"}]
        /\ reply \in [Requests -> [code : Codes, task : Requests \cup {None}]]
    BY DEF TypeOK
  <1>3. ASSUME NEW q \in Requests, Handle(q)
        PROVE  reply'[r] = reply[r]
    BY <1>1, <1>2, <1>3 DEF Handle, CheckHit, CheckMiss, CheckFails, Acquire, AcquireLater,
       AcquireFails, PollHit, PollMiss, GiveUp, RecheckHit, RecheckMiss, RefuseAssignee,
       CreateTaskWithLog, CreateAckLost, CreateFails, SaveResponse, SaveFails, ReleaseLock,
       ReleaseFails, Return, ReturnHolding, Outcome
  <1>4. ASSUME NEW q \in Requests, Reject(q) \/ Cancel(q) \/ \E k \in Keys : Receive(q, k)
        PROVE  reply'[r] = reply[r]
    BY <1>1, <1>2, <1>4 DEF Reject, Cancel, Receive, Return, Goto, Outcome
  <1>5. ASSUME Crash PROVE reply'[r] = reply[r]
    BY <1>1, <1>5 DEF Crash, InFlight, Holding
  <1>6. ASSUME Tick \/ UNCHANGED vars PROVE reply'[r] = reply[r]
    BY <1>6 DEF Tick, vars
  <1>7. ASSUME NEW q \in Requests, Unheard(q) PROVE reply'[r] = reply[r]
    BY <1>7 DEF Unheard, AcquireUnheard, SaveUnheard, ReleaseUnheard
  <1> QED
    BY <1>1, <1>3, <1>4, <1>5, <1>6, <1>7 DEF Next

(* Steps that neither cache nor answer anything new.                       *)
LEMMA AnswersKept ==
    ASSUME Truthful,
           created \subseteq created',
           \A q \in created : key'[q] = key[q],
           \A q \in Requests : reply'[q].code = "created" =>
               \/ reply'[q] = reply[q] /\ key'[q] = key[q]
               \/ reply'[q].task \in created' /\ key'[reply'[q].task] = key'[q],
           \A k \in Keys : cache'[k].ttl > 0 =>
               \/ cache[k].ttl > 0 /\ cache'[k].task = cache[k].task
               \/ cache'[k].task \in created' /\ key'[cache'[k].task] = k
    PROVE  AnswersAreTasks'
  BY DEF Truthful, AnswersAreTasks

LEMMA TruthfulHandle ==
    ASSUME Truthful, NEW r \in Requests, Handle(r)
    PROVE  AnswersAreTasks' /\ TasksOfRequests'
  <1>0. /\ pc \in [Requests -> InFlight \cup {"idle", "done"}]
        /\ cache \in [Keys -> [task : Requests \cup {None}, ttl : 0..CacheTTL]]
        /\ reply \in [Requests -> [code : Codes, task : Requests \cup {None}]]
        /\ created \subseteq Requests
        /\ pc[r] \in InFlight => key[r] \in Keys
    BY DEF Truthful, TypeOK
  <1>1. CASE CheckHit(r) \/ PollHit(r) \/ RecheckHit(r)
    <2>1. /\ created' = created /\ key' = key /\ cache' = cache
          /\ reply' = [reply EXCEPT ![r] = [code |-> "created", task |-> cache[key[r]].task]]
          /\ cache[key[r]].ttl > 0 /\ pc[r] \in InFlight
      BY <1>1 DEF CheckHit, PollHit, RecheckHit, Hit, Return, ReturnHolding, Outcome, redis,
         InFlight, Holding
    <2>2. cache[key[r]].task \in created /\ key[cache[key[r]].task] = key[r]
      BY <1>0, <2>1 DEF Truthful, AnswersAreTasks
    <2>3. AnswersAreTasks'
      BY <1>0, <2>1, <2>2, AnswersKept
    <2>4. TasksOfRequests'
      BY <1>0, <1>1, <2>1 DEF CheckHit, PollHit, RecheckHit, Return, ReturnHolding, Goto,
         Truthful, TasksOfRequests
    <2> QED
      BY <2>3, <2>4
  <1>2. CASE CreateTaskWithLog(r) \/ CreateAckLost(r)
    <2>1. /\ created' = created \cup {r} /\ key' = key /\ cache' = cache
          /\ \A q \in Requests : reply'[q].code = "created" => reply'[q] = reply[q]
      BY <1>0, <1>2 DEF CreateTaskWithLog, CreateAckLost, Insert, ReturnHolding, Outcome, redis
    <2>2. AnswersAreTasks'
      BY <2>1, AnswersKept
    <2>3. TasksOfRequests'
      BY <1>0, <1>2, <2>1 DEF CreateTaskWithLog, CreateAckLost, ReturnHolding, Goto, Truthful,
         TasksOfRequests
    <2> QED
      BY <2>2, <2>3
  <1>3. CASE SaveResponse(r) \/ SaveFails(r)
    <2>1. /\ created' = created /\ key' = key /\ pc[r] = "save"
          /\ \A q \in Requests : reply'[q].code = "created" =>
                reply'[q] = reply[q] \/ (q = r /\ reply'[q].task = r)
      BY <1>0, <1>3 DEF SaveResponse, SaveFails, ReturnHolding, Outcome
    <2>2. r \in created /\ key[r] \in Keys
      BY <1>0, <2>1 DEF Truthful, TasksOfRequests, InFlight, Holding
    <2>3. \A k \in Keys : cache'[k] = cache[k] \/ (k = key[r] /\ cache'[k].task = r)
      BY <1>0, <1>3 DEF SaveResponse, SaveFails, Store, redis
    <2>4. AnswersAreTasks'
      BY <2>1, <2>2, <2>3, AnswersKept
    <2>5. TasksOfRequests'
      BY <1>0, <1>3, <2>1 DEF SaveResponse, SaveFails, ReturnHolding, Goto, Truthful,
         TasksOfRequests
    <2> QED
      BY <2>4, <2>5
  <1>4. CASE \/ CheckMiss(r) \/ CheckFails(r) \/ Acquire(r) \/ AcquireLater(r) \/ AcquireFails(r)
             \/ PollMiss(r) \/ GiveUp(r)
    <2>1. created' = created /\ key' = key /\ cache' = cache
      BY <1>4 DEF CheckMiss, CheckFails, Acquire, AcquireLater, AcquireFails, PollMiss, GiveUp,
         redis
    <2>2. \A q \in Requests : reply'[q].code = "created" => reply'[q] = reply[q]
      BY <1>0, <1>4 DEF CheckMiss, CheckFails, Acquire, AcquireLater, AcquireFails, PollMiss,
         GiveUp, Return, Outcome
    <2>3. TasksOfRequests'
      BY <1>0, <1>4, <2>1 DEF CheckMiss, CheckFails, Acquire, AcquireLater, AcquireFails,
         PollMiss, GiveUp, Return, Goto, Truthful, TasksOfRequests
    <2> QED
      BY <2>1, <2>2, <2>3, AnswersKept
  <1>5. CASE \/ RecheckMiss(r) \/ RefuseAssignee(r) \/ CreateFails(r)
             \/ ReleaseLock(r) \/ ReleaseFails(r)
    <2>1. created' = created /\ key' = key /\ cache' = cache
      BY <1>5 DEF RecheckMiss, RefuseAssignee, CreateFails, ReleaseLock, ReleaseFails, redis
    <2>2. \A q \in Requests : reply'[q].code = "created" => reply'[q] = reply[q]
      BY <1>0, <1>5 DEF RecheckMiss, RefuseAssignee, CreateFails, ReleaseLock, ReleaseFails,
         ReturnHolding, Outcome
    <2>3. TasksOfRequests'
      BY <1>0, <1>5, <2>1 DEF RecheckMiss, RefuseAssignee, CreateFails, ReleaseLock,
         ReleaseFails, ReturnHolding, Goto, Truthful, TasksOfRequests
    <2> QED
      BY <2>1, <2>2, <2>3, AnswersKept
  <1> QED
    BY <1>1, <1>2, <1>3, <1>4, <1>5 DEF Handle

LEMMA TruthfulUnheard ==
    ASSUME Truthful, NEW r \in Requests, Unheard(r)
    PROVE  AnswersAreTasks' /\ TasksOfRequests'
  <1>1. created' = created /\ key' = key /\ pc' = pc /\ reply' = reply
    BY DEF Unheard, AcquireUnheard, SaveUnheard, ReleaseUnheard
  <1>2. \A k \in Keys : cache'[k] = cache[k] \/ (k = key[r] /\ cache'[k].task = r /\ r \in created)
    BY DEF Unheard, AcquireUnheard, SaveUnheard, ReleaseUnheard, Store, Truthful, TypeOK,
       TasksOfRequests
  <1>3. AnswersAreTasks'
    BY <1>1, <1>2, AnswersKept
  <1> QED
    BY <1>1, <1>3 DEF Truthful, TasksOfRequests

LEMMA TruthfulStep == Truthful /\ [Next]_vars => Truthful'
  <1> SUFFICES ASSUME Truthful, [Next]_vars PROVE Truthful'
    OBVIOUS
  <1>0. /\ pc \in [Requests -> InFlight \cup {"idle", "done"}]
        /\ key \in [Requests -> Keys \cup {None}]
        /\ cache \in [Keys -> [task : Requests \cup {None}, ttl : 0..CacheTTL]]
        /\ reply \in [Requests -> [code : Codes, task : Requests \cup {None}]]
        /\ created \subseteq Requests
    BY DEF Truthful, TypeOK
  <1>1. ASSUME NEW r \in Requests, NEW k \in Keys, Receive(r, k)
        PROVE  AnswersAreTasks' /\ TasksOfRequests'
    <2>1. /\ created' = created /\ cache' = cache /\ reply' = reply
          /\ r \notin created /\ \A q \in Requests \ {r} : key'[q] = key[q]
      BY <1>0, <1>1 DEF Receive, redis, Truthful, TasksOfRequests
    <2>2. reply[r].code # "created"
      BY <1>1 DEF Receive, Truthful, IdleReplies
    <2>3. AnswersAreTasks'
      BY <1>0, <2>1, <2>2, AnswersKept
    <2>4. TasksOfRequests'
      BY <1>0, <1>1, <2>1 DEF Receive, Goto, Truthful, TasksOfRequests
    <2> QED
      BY <2>3, <2>4
  <1>2. ASSUME NEW r \in Requests, Reject(r) \/ Cancel(r)
        PROVE  AnswersAreTasks' /\ TasksOfRequests'
    <2>1. created' = created /\ cache' = cache /\ key' = key
      BY <1>2 DEF Reject, Cancel, redis
    <2>2. \A q \in Requests : reply'[q].code = "created" => reply'[q] = reply[q]
      BY <1>0, <1>2 DEF Reject, Cancel, Return, Outcome
    <2>3. TasksOfRequests'
      BY <1>0, <1>2, <2>1 DEF Reject, Cancel, Return, Goto, Truthful, TasksOfRequests
    <2> QED
      BY <2>1, <2>2, <2>3, AnswersKept
  <1>3. ASSUME Crash
        PROVE  AnswersAreTasks' /\ TasksOfRequests'
    <2>1. created' = created /\ cache' = cache /\ key' = key
      BY <1>3 DEF Crash, redis
    <2>2. \A q \in Requests : reply'[q].code = "created" => reply'[q] = reply[q]
      BY <1>0, <1>3 DEF Crash
    <2>3. TasksOfRequests'
      BY <1>0, <1>3, <2>1 DEF Crash, Truthful, TasksOfRequests
    <2> QED
      BY <2>1, <2>2, <2>3, AnswersKept
  <1>4. ASSUME Tick
        PROVE  AnswersAreTasks' /\ TasksOfRequests'
    <2>1. created' = created /\ pc' = pc /\ key' = key /\ reply' = reply
      BY <1>4 DEF Tick
    <2>2. \A k \in Keys : cache'[k].ttl > 0 => cache[k].ttl > 0 /\ cache'[k].task = cache[k].task
      BY <1>4, CacheAges DEF Truthful
    <2>3. TasksOfRequests'
      BY <2>1 DEF Truthful, TasksOfRequests
    <2> QED
      BY <2>1, <2>2, <2>3, AnswersKept
  <1>5. ASSUME UNCHANGED vars
        PROVE  AnswersAreTasks' /\ TasksOfRequests'
    <2>1. created' = created /\ pc' = pc /\ key' = key /\ reply' = reply /\ cache' = cache
      BY <1>5 DEF vars, redis
    <2> QED
      BY <2>1 DEF Truthful, AnswersAreTasks, TasksOfRequests
  <1>6. AnswersAreTasks' /\ TasksOfRequests'
    BY <1>1, <1>2, <1>3, <1>4, <1>5, TruthfulHandle, TruthfulUnheard DEF Next
  <1>7. TypeOK' /\ IdleTimers'
    BY TypedStep DEF Truthful
  <1>8. IdleReplies'
    BY IdleRepliesStep DEF Truthful
  <1> QED
    BY <1>6, <1>7, <1>8 DEF Truthful

(* No client is ever told of a task that is not in the database or was not *)
(* created under the client's own key, whatever fails.                     *)
THEOREM AnswersTruthful == Spec => []AnswersAreTasks
  <1>1. Init => Truthful
    <2> SUFFICES ASSUME Init PROVE Truthful
      OBVIOUS
    <2>1. /\ created = {}
          /\ \A r \in Requests : /\ pc[r] = "idle" /\ timer[r] = 0
                                 /\ reply[r].code = "pending"
          /\ \A k \in Keys : ~(cache[k].ttl > 0)
      BY DEF Init
    <2> QED
      BY <2>1, InitTyped DEF Truthful, IdleTimers, IdleReplies, AnswersAreTasks, TasksOfRequests
  <1>2. Truthful => AnswersAreTasks
    BY DEF Truthful
  <1> QED
    BY <1>1, <1>2, TruthfulStep, PTL DEF Spec

-----------------------------------------------------------------------------
(* One record, and one answer, per key and cache lifetime.                 *)

(* DELs are not sent twice, or at least no creation fails and a response   *)
(* outlives the two phases of a handler that finds it, so that a lock that *)
(* is deleted under its holder protects nothing but a second look at the   *)
(* cache.                                                                  *)
RetriesHarmless == ReleasesHeard \/ ("db" \notin Faults /\ 2 * MaxHold < CacheTTL)

(* Nobody's client is gone; only one handler at a time creates a key's     *)
(* task; what the cache holds is the last task created under its key;      *)
(* while a task is younger than CacheTTL, the cache holds it as long or    *)
(* its creator is about to put it there; and whoever is past the second    *)
(* look at the cache found nothing there.                                  *)
Creating(r) == pc[r] \in {"create", "save"} /\ key[r] \notin Refused

OneCreator ==
    \A r, q \in Requests : Creating(r) /\ Creating(q) /\ key[r] = key[q] => r = q

CachedIsLatest == \A k \in Keys : cache[k].ttl > 0 => cache[k].task = latest[k].task

LatestIsCached ==
    \A k \in Keys : latest[k].left > 0 =>
        \/ cache[k].ttl >= latest[k].left
        \/ \E r \in Requests : pc[r] = "save" /\ key[r] = k

CreatorsFoundNothing ==
    \A r \in Requests :
        /\ pc[r] = "create" /\ key[r] \notin Refused => cache[key[r]].ttl = 0
        /\ pc[r] = "save" => latest[key[r]].task = r /\ key[r] \notin Refused

Published == CachedIsLatest /\ LatestIsCached /\ CreatorsFoundNothing

Publication == TypeOK /\ IdleTimers /\ cancelled = {} /\ OneCreator /\ Published

LEMMA Faultless ==
    ASSUME PublishingWorks
    PROVE  \A f \in {"read", "save", "ack", "cancel", "crash"} : f \notin Faults
  BY DEF PublishingWorks

(* Steps that leave the cache and the record of the last task alone, and   *)
(* by which nobody starts to create or is done saving.                     *)
LEMMA PublicationKept ==
    ASSUME Publication,
           cache' = cache, latest' = latest,
           \A q \in Requests :
               /\ pc'[q] \in {"create", "save"} => pc'[q] = pc[q] /\ key'[q] = key[q]
               /\ pc[q] = "save" => pc'[q] = "save" /\ key'[q] = key[q]
    PROVE  Published'
  <1>1. CachedIsLatest'
    BY DEF Publication, Published, CachedIsLatest
  <1>2. LatestIsCached'
    BY DEF Publication, Published, LatestIsCached
  <1>3. CreatorsFoundNothing'
    BY DEF Publication, Published, CreatorsFoundNothing
  <1> QED
    BY <1>1, <1>2, <1>3 DEF Published

(* A handler about to create a task is the first within CacheTTL.          *)
LEMMA FirstInWindow ==
    ASSUME Publication, NEW r \in Requests, pc[r] = "create", key[r] \notin Refused
    PROVE  key[r] \in Keys /\ latest[key[r]].left = 0
  <1>1. key[r] \in Keys
    BY DEF Publication, TypeOK, InFlight, Holding
  <1>2. latest[key[r]].left \in Nat
    BY <1>1, CacheType, Times DEF Publication
  <1>3. cache[key[r]].ttl = 0
    BY DEF Publication, Published, CreatorsFoundNothing
  <1>4. ~\E q \in Requests : pc[q] = "save" /\ key[q] = key[r]
    BY DEF Publication, OneCreator, Creating
  <1> QED
    BY <1>1, <1>2, <1>3, <1>4 DEF Publication, Published, LatestIsCached

LEMMA PublicationHandle ==
    ASSUME PublishingWorks, Publication, NEW r \in Requests, Handle(r)
    PROVE  Published'
  <1>0. /\ pc \in [Requests -> InFlight \cup {"idle", "done"}]
        /\ cache \in [Keys -> [task : Requests \cup {None}, ttl : 0..CacheTTL]]
        /\ latest \in [Keys -> [task : Requests \cup {None}, left : 0..CacheTTL]]
        /\ pc[r] \in InFlight => key[r] \in Keys
        /\ cancelled = {}
    BY DEF Publication, TypeOK
  <1>1. CASE CreateTaskWithLog(r)
    <2>1. /\ pc' = [pc EXCEPT ![r] = "save"] /\ key' = key /\ cache' = cache
          /\ latest' = [latest EXCEPT ![key[r]] = [task |-> r, left |-> CacheTTL]]
          /\ pc[r] = "create" /\ key[r] \in Keys /\ key[r] \notin Refused
      BY <1>0, <1>1 DEF CreateTaskWithLog, Insert, Goto, redis, InFlight, Holding
    <2>2. cache[key[r]].ttl = 0
      BY <2>1 DEF Publication, Published, CreatorsFoundNothing
    <2>3. \A q \in Requests \ {r} : pc[q] \in {"create", "save"} => key[q] # key[r]
      BY <2>1 DEF Publication, OneCreator, Creating, Published, CreatorsFoundNothing
    <2>4. CachedIsLatest'
      BY <1>0, <2>1, <2>2 DEF Publication, Published, CachedIsLatest
    <2>5. LatestIsCached'
      <3>1. pc'[r] = "save" /\ key'[r] = key[r]
        BY <1>0, <2>1
      <3>2. ASSUME NEW k \in Keys, k # key[r], latest'[k].left > 0
            PROVE  \/ cache'[k].ttl >= latest'[k].left
                   \/ \E q \in Requests : pc'[q] = "save" /\ key'[q] = k
        <4>1. latest'[k] = latest[k]
          BY <1>0, <2>1, <3>2
        <4>2. \/ cache[k].ttl >= latest[k].left
              \/ \E q \in Requests : pc[q] = "save" /\ key[q] = k
          BY <3>2, <4>1 DEF Publication, Published, LatestIsCached
        <4> QED
          BY <1>0, <2>1, <3>2, <4>1, <4>2
      <3> QED
        BY <3>1, <3>2 DEF LatestIsCached
    <2>6. CreatorsFoundNothing'
      <3>1. \A q \in Requests \ {r} : pc'[q] = pc[q]
        BY <1>0, <2>1
      <3>2. latest'[key[r]].task = r
        BY <1>0, <2>1
      <3>3. \A q \in Requests \ {r} :
                pc[q] \in {"create", "save"} => latest'[key[q]] = latest[key[q]]
        BY <1>0, <2>1, <2>3
      <3> QED
        BY <2>1, <2>2, <3>1, <3>2, <3>3 DEF Publication, Published, CreatorsFoundNothing
    <2> QED
      BY <2>4, <2>5, <2>6 DEF Published
  <1>2. CASE SaveResponse(r)
    <2>1. /\ pc' = [pc EXCEPT ![r] = "release"] /\ key' = key /\ latest' = latest
          /\ cache' = [cache EXCEPT ![key[r]] = [task |-> r, ttl |-> CacheTTL]]
          /\ pc[r] = "save" /\ key[r] \in Keys
      BY <1>0, <1>2 DEF SaveResponse, Store, ReturnHolding, Goto, InFlight, Holding
    <2>2. latest[key[r]].task = r
      BY <2>1 DEF Publication, Published, CreatorsFoundNothing
    <2>3. \A q \in Requests \ {r} : pc[q] \in {"create", "save"} => key[q] # key[r]
      BY <2>1 DEF Publication, OneCreator, Creating, Published, CreatorsFoundNothing
    <2>4. CachedIsLatest'
      BY <1>0, <2>1, <2>2 DEF Publication, Published, CachedIsLatest
    <2>5. LatestIsCached'
      <3>1. cache'[key[r]].ttl >= latest'[key[r]].left
        <4>1. latest[key[r]].left \in 0..CacheTTL
          BY <2>1, CacheType DEF Publication
        <4> QED
          BY <1>0, <2>1, <4>1, Times
      <3>2. ASSUME NEW k \in Keys, k # key[r], latest'[k].left > 0
            PROVE  \/ cache'[k].ttl >= latest'[k].left
                   \/ \E q \in Requests : pc'[q] = "save" /\ key'[q] = k
        <4>1. cache'[k] = cache[k]
          BY <1>0, <2>1, <3>2
        <4>2. \/ cache[k].ttl >= latest[k].left
              \/ \E q \in Requests : pc[q] = "save" /\ key[q] = k
          BY <2>1, <3>2 DEF Publication, Published, LatestIsCached
        <4> QED
          BY <1>0, <2>1, <3>2, <4>1, <4>2
      <3> QED
        BY <3>1, <3>2 DEF LatestIsCached
    <2>6. CreatorsFoundNothing'
      <3>1. pc'[r] = "release" /\ \A q \in Requests \ {r} : pc'[q] = pc[q]
        BY <1>0, <2>1
      <3>2. \A q \in Requests \ {r} :
                pc[q] \in {"create", "save"} => cache'[key[q]] = cache[key[q]]
        BY <1>0, <2>1, <2>3
      <3> QED
        BY <2>1, <3>1, <3>2 DEF Publication, Published, CreatorsFoundNothing
    <2> QED
      BY <2>4, <2>5, <2>6 DEF Published
  <1>3. CASE RecheckMiss(r)
    <2>1. /\ pc' = [pc EXCEPT ![r] = "create"] /\ key' = key /\ cache' = cache
          /\ latest' = latest /\ pc[r] = "recheck" /\ key[r] \in Keys
      BY <1>0, <1>3 DEF RecheckMiss, Goto, redis, InFlight, Holding
    <2>2. cache[key[r]].ttl = 0
      <3>1. ~(cache[key[r]].ttl > 0)
        BY <1>0, <1>3, Faultless DEF RecheckMiss, MayFail, Hit
      <3>2. cache[key[r]].ttl \in Nat
        BY <2>1, CacheType, Times DEF Publication
      <3> QED
        BY <3>1, <3>2
    <2>3. CachedIsLatest'
      BY <2>1 DEF Publication, Published, CachedIsLatest
    <2>4. \A q \in Requests : pc[q] = "save" <=> pc'[q] = "save"
      BY <1>0, <2>1
    <2>5. LatestIsCached'
      BY <2>1, <2>4 DEF Publication, Published, LatestIsCached
    <2>6. CreatorsFoundNothing'
      BY <1>0, <2>1, <2>2 DEF Publication, Published, CreatorsFoundNothing
    <2> QED
      BY <2>3, <2>5, <2>6 DEF Published
  <1>4. CASE CreateAckLost(r) \/ SaveFails(r)
    BY <1>0, <1>4, Faultless DEF CreateAckLost, SaveFails, MayFail
  <1>5. CASE \/ CheckHit(r) \/ CheckMiss(r) \/ CheckFails(r)
             \/ Acquire(r) \/ AcquireLater(r) \/ AcquireFails(r)
             \/ PollHit(r) \/ PollMiss(r) \/ GiveUp(r)
    <2>1. cache' = cache /\ latest' = latest /\ key' = key
      BY <1>5 DEF CheckHit, CheckMiss, CheckFails, Acquire, AcquireLater, AcquireFails, PollHit,
         PollMiss, GiveUp, redis
    <2>2. \A q \in Requests : /\ pc'[q] \in {"create", "save"} => pc'[q] = pc[q]
                              /\ pc[q] = "save" => pc'[q] = "save"
      BY <1>0, <1>5 DEF CheckHit, CheckMiss, CheckFails, Acquire, AcquireLater, AcquireFails,
         PollHit, PollMiss, GiveUp, Return, Goto
    <2> QED
      BY <2>1, <2>2, PublicationKept
  <1>6. CASE \/ RecheckHit(r) \/ RefuseAssignee(r) \/ CreateFails(r)
             \/ ReleaseLock(r) \/ ReleaseFails(r)
    <2>1. cache' = cache /\ latest' = latest /\ key' = key
      BY <1>6 DEF RecheckHit, RefuseAssignee, CreateFails, ReleaseLock, ReleaseFails, redis
    <2>2. \A q \in Requests : /\ pc'[q] \in {"create", "save"} => pc'[q] = pc[q]
                              /\ pc[q] = "save" => pc'[q] = "save"
      BY <1>0, <1>6 DEF RecheckHit, RefuseAssignee, CreateFails, ReleaseLock, ReleaseFails,
         ReturnHolding, Goto
    <2> QED
      BY <2>1, <2>2, PublicationKept
  <1> QED
    BY <1>1, <1>2, <1>3, <1>4, <1>5, <1>6 DEF Handle

LEMMA PublicationTick ==
    ASSUME Publication, Tick
    PROVE  Published'
  <1>1. pc' = pc /\ key' = key /\ TypeOK
    BY DEF Tick, Publication
  <1>2. CachedIsLatest'
    BY <1>1, CacheAges DEF Publication, Published, CachedIsLatest
  <1>3. LatestIsCached'
    <2> SUFFICES ASSUME NEW k \in Keys, latest'[k].left > 0
                 PROVE  \/ cache'[k].ttl >= latest'[k].left
                        \/ \E r \in Requests : pc[r] = "save" /\ key[r] = k
      BY <1>1 DEF LatestIsCached
    <2>1. /\ latest[k].left \in Nat /\ latest'[k].left = Less(latest[k].left)
          /\ cache[k].ttl \in Nat /\ cache'[k].ttl = Less(cache[k].ttl)
      BY <1>1, CacheAges
    <2>2. \/ cache[k].ttl >= latest[k].left
          \/ \E r \in Requests : pc[r] = "save" /\ key[r] = k
      BY <2>1 DEF Less, Publication, Published, LatestIsCached
    <2> QED
      BY <2>1, <2>2 DEF Less
  <1>4. CreatorsFoundNothing'
    <2> SUFFICES ASSUME NEW r \in Requests, pc[r] \in {"create", "save"}
                 PROVE  /\ cache[key[r]].ttl = 0 => cache'[key[r]].ttl = 0
                        /\ latest'[key[r]].task = latest[key[r]].task
      BY <1>1 DEF Publication, Published, CreatorsFoundNothing
    <2>1. key[r] \in Keys
      BY <1>1 DEF TypeOK, InFlight, Holding
    <2> QED
      BY <1>1, <2>1, CacheAges DEF Less
  <1> QED
    BY <1>2, <1>3, <1>4 DEF Published

LEMMA PublicationUnheard ==
    ASSUME Publication, NEW r \in Requests, Unheard(r)
    PROVE  Published'
  <1>0. /\ pc[r] \in InFlight => key[r] \in Keys
        /\ cache \in [Keys -> [task : Requests \cup {None}, ttl : 0..CacheTTL]]
    BY DEF Publication, TypeOK
  <1>1. pc' = pc /\ key' = key /\ latest' = latest
    BY DEF Unheard, AcquireUnheard, SaveUnheard, ReleaseUnheard
  <1>2. CASE SaveUnheard(r)
    <2>1. /\ cache' = [cache EXCEPT ![key[r]] = [task |-> r, ttl |-> CacheTTL]]
          /\ pc[r] = "save" /\ key[r] \in Keys
      BY <1>0, <1>2 DEF SaveUnheard, Store, InFlight, Holding
    <2>2. latest[key[r]].task = r /\ key[r] \notin Refused
      BY <2>1 DEF Publication, Published, CreatorsFoundNothing
    <2>3. \A q \in Requests : pc[q] = "create" => key[q] # key[r]
      BY <2>1, <2>2 DEF Publication, OneCreator, Creating
    <2>4. CachedIsLatest'
      BY <1>0, <1>1, <2>1, <2>2 DEF Publication, Published, CachedIsLatest
    <2>5. LatestIsCached'
      <3> SUFFICES ASSUME NEW k \in Keys, latest[k].left > 0
                   PROVE  \/ cache'[k].ttl >= latest[k].left
                          \/ \E q \in Requests : pc[q] = "save" /\ key[q] = k
        BY <1>1 DEF LatestIsCached
      <3>1. CASE k = key[r]
        BY <2>1, <3>1
      <3>2. CASE k # key[r]
        <4>1. cache'[k] = cache[k]
          BY <1>0, <2>1, <3>2
        <4> QED
          BY <4>1 DEF Publication, Published, LatestIsCached
      <3> QED
        BY <3>1, <3>2
    <2>6. CreatorsFoundNothing'
      BY <1>0, <1>1, <2>1, <2>3 DEF Publication, Published, CreatorsFoundNothing
    <2> QED
      BY <2>4, <2>5, <2>6 DEF Published
  <1>3. CASE AcquireUnheard(r) \/ ReleaseUnheard(r)
    <2>1. cache' = cache
      BY <1>3 DEF AcquireUnheard, ReleaseUnheard
    <2> QED
      BY <1>1, <2>1, PublicationKept
  <1> QED
    BY <1>2, <1>3 DEF Unheard

LEMMA PublicationStep ==
    PublishingWorks /\ Publication /\ [Next]_vars =>
        TypeOK' /\ IdleTimers' /\ cancelled' = {} /\ Published'
  <1> SUFFICES ASSUME PublishingWorks, Publication, [Next]_vars
               PROVE  TypeOK' /\ IdleTimers' /\ cancelled' = {} /\ Published'
    OBVIOUS
  <1>0. /\ pc \in [Requests -> InFlight \cup {"idle", "done"}]
        /\ key \in [Requests -> Keys \cup {None}]
    BY DEF Publication, TypeOK
  <1>1. TypeOK' /\ IdleTimers'
    BY TypedStep DEF Publication
  <1>2. ~Crash /\ \A r \in Requests : ~Cancel(r)
    BY Faultless DEF Crash, Cancel
  <1>3. ASSUME NEW r \in Requests, Reject(r) \/ \E k \in Keys : Receive(r, k)
        PROVE  Published' /\ cancelled' = cancelled
    <2>1. cache' = cache /\ latest' = latest /\ cancelled' = cancelled
      BY <1>3 DEF Reject, Receive, redis
    <2>2. \A q \in Requests :
              /\ pc'[q] \in {"create", "save"} => pc'[q] = pc[q] /\ key'[q] = key[q]
              /\ pc[q] = "save" => pc'[q] = "save" /\ key'[q] = key[q]
      BY <1>0, <1>3 DEF Reject, Receive, Return, Goto
    <2> QED
      BY <2>1, <2>2, PublicationKept
  <1>4. ASSUME Tick
        PROVE  Published' /\ cancelled' = cancelled
    BY <1>4, PublicationTick DEF Tick
  <1>5. ASSUME UNCHANGED vars
        PROVE  Published' /\ cancelled' = cancelled
    <2>1. pc' = pc /\ key' = key /\ cache' = cache /\ latest' = latest /\ cancelled' = cancelled
      BY <1>5 DEF vars, redis
    <2> QED
      BY <2>1, PublicationKept
  <1>6. ASSUME NEW r \in Requests, Handle(r)
        PROVE  cancelled' = cancelled
    BY <1>6 DEF Handle, CheckHit, CheckMiss, CheckFails, Acquire, AcquireLater,
       AcquireFails, PollHit, PollMiss, GiveUp, RecheckHit, RecheckMiss, RefuseAssignee,
       CreateTaskWithLog, CreateAckLost, CreateFails, SaveResponse, SaveFails, ReleaseLock,
       ReleaseFails
  <1>7. ASSUME NEW r \in Requests, Unheard(r)
        PROVE  Published' /\ cancelled' = cancelled
    BY <1>7, PublicationUnheard DEF Unheard, AcquireUnheard, SaveUnheard, ReleaseUnheard
  <1>8. Published' /\ cancelled' = cancelled
    BY <1>2, <1>3, <1>4, <1>5, <1>6, <1>7, PublicationHandle DEF Next
  <1> QED
    BY <1>1, <1>8 DEF Publication

LEMMA InitPublication == Init => Publication
  <1> SUFFICES ASSUME Init PROVE Publication
    OBVIOUS
  <1>1. /\ cancelled = {}
        /\ \A r \in Requests : pc[r] = "idle" /\ timer[r] = 0
        /\ \A k \in Keys : ~(cache[k].ttl > 0) /\ ~(latest[k].left > 0)
    BY DEF Init
  <1> QED
    BY <1>1, InitTyped DEF Publication, Published, IdleTimers, OneCreator, Creating,
       CachedIsLatest, LatestIsCached, CreatorsFoundNothing

(* One creator at a time, first when DELs are not sent twice: the lock     *)
(* excludes.                                                               *)
LEMMA LockedCreators ==
    HoldersAreFast /\ ReleasesHeard /\ PublishingWorks
    /\ Publication /\ Locked /\ [Next]_vars => Publication' /\ Locked'
  <1> SUFFICES ASSUME HoldersAreFast, ReleasesHeard, PublishingWorks, Publication, Locked,
                      [Next]_vars
               PROVE  Publication' /\ Locked'
    OBVIOUS
  <1>1. Locked'
    BY LockedStep
  <1>2. OneCreator'
    BY <1>1 DEF Locked, OneHolder, OneCreator, Creating, Holding
  <1> QED
    BY <1>1, <1>2, PublicationStep DEF Publication

(* A key yields one database record per cache lifetime, however many       *)
(* And when DELs may be sent twice but no creation fails: a handler that   *)
(* creates, or is going to, has its lock, however old, and nobody else is  *)
(* with it; whoever releases a lock leaves a response behind; and a        *)
(* response that a handler finds at its second look is younger than its    *)
(* first, so that it does not expire under its eyes.                       *)
DeletesLate == "db" \notin Faults /\ 2 * MaxHold < CacheTTL

Exposed(r) ==
    /\ key[r] \notin Refused
    /\ pc[r] \in {"create", "save"} \/ (pc[r] = "recheck" /\ cache[key[r]].ttl = 0)

Sheltered ==
    \A r \in Requests : Exposed(r) =>
        /\ lock[key[r]] = LockTTL - timer[r]
        /\ \A q \in Requests : pc[q] \in Holding /\ key[q] = key[r] => q = r

Responded ==
    \A r \in Requests : pc[r] = "release" /\ key[r] \notin Refused =>
        cache[key[r]].ttl + timer[r] > MaxHold

FreshAt(r) ==
    LET ttl == cache[key[r]].ttl
    IN  /\ pc[r] = "acquire" /\ ttl > 0 => ttl + timer[r] >= CacheTTL
        /\ pc[r] = "recheck" /\ ttl > 0 => ttl + timer[r] + MaxHold >= CacheTTL

Fresh == \A r \in Requests : FreshAt(r)

Retried == Publication /\ Sheltered /\ Responded /\ Fresh

Caches == \A k \in Keys : cache'[k] = cache[k] \/ cache'[k].ttl = CacheTTL

LEMMA Ages ==
    ASSUME TypeOK
    PROVE  /\ \A r \in Requests : /\ timer[r] \in Nat
                                  /\ pc[r] \in InFlight => key[r] \in Keys
                                  /\ pc[r] \in InFlight \ {"wait"} => timer[r] <= MaxHold
           /\ \A k \in Keys : /\ cache[k].ttl \in 0..CacheTTL /\ lock[k] \in 0..LockTTL
                              /\ cache[k] \in [task : Requests \cup {None}, ttl : 0..CacheTTL]
  <1>1. \A k \in Keys : cache[k] \in [task : Requests \cup {None}, ttl : 0..CacheTTL]
    BY DEF TypeOK
  <1> QED
    BY <1>1 DEF TypeOK

(* Steps that change no clock but those of the request that takes them and *)
(* of a response that is cached.                                           *)
LEMMA StepResponded ==
    ASSUME DeletesLate, Retried, TypeOK', NEW r \in Requests, Caches,
           \A q \in Requests \ {r} :
               pc'[q] = pc[q] /\ key'[q] = key[q] /\ timer'[q] = timer[q],
           pc'[r] = "release" /\ key'[r] \notin Refused =>
               cache'[key'[r]].ttl + timer'[r] > MaxHold,
           FreshAt(r)'
    PROVE  Responded' /\ Fresh'
  <1>0. /\ \A q \in Requests : timer[q] \in Nat /\ (pc[q] \in InFlight => key[q] \in Keys)
        /\ \A k \in Keys : cache[k].ttl \in Nat /\ cache'[k].ttl \in Nat
    <2>1. \A k \in Keys : cache'[k] \in [task : Requests \cup {None}, ttl : 0..CacheTTL]
      BY DEF TypeOK
    <2> QED
      BY <2>1, Ages, Times DEF Retried, Publication
  <1>1. ASSUME NEW q \in Requests \ {r}, pc[q] = "release", key[q] \notin Refused
        PROVE  cache'[key[q]].ttl + timer[q] > MaxHold
    <2>1. key[q] \in Keys
      BY <1>0, <1>1 DEF InFlight, Holding
    <2>2. cache'[key[q]] = cache[key[q]] \/ cache'[key[q]].ttl = CacheTTL
      BY <2>1 DEF Caches
    <2>3. cache[key[q]].ttl + timer[q] > MaxHold
      BY <1>1 DEF Retried, Responded
    <2> QED
      BY <1>0, <2>1, <2>2, <2>3, Times DEF DeletesLate
  <1>2. ASSUME NEW q \in Requests \ {r}
        PROVE  FreshAt(q)'
    <2>1. CASE pc[q] \in {"acquire", "recheck"}
      <3>1. key[q] \in Keys
        BY <1>0, <2>1 DEF InFlight, Holding
      <3>2. cache'[key[q]] = cache[key[q]] \/ cache'[key[q]].ttl = CacheTTL
        BY <3>1 DEF Caches
      <3>3. FreshAt(q)
        BY DEF Retried, Fresh
      <3> QED
        BY <1>0, <3>1, <3>2, <3>3, Times DEF FreshAt
    <2>2. CASE pc[q] \notin {"acquire", "recheck"}
      BY <2>2 DEF FreshAt
    <2> QED
      BY <2>1, <2>2
  <1>3. Responded'
    BY <1>1 DEF Responded
  <1> QED
    BY <1>2, <1>3 DEF Fresh

(* Steps by which nobody takes a lock or loses one it needs.               *)
LEMMA StepSheltered ==
    ASSUME Retried, NEW r \in Requests, Caches,
           \A q \in Requests \ {r} :
               pc'[q] = pc[q] /\ key'[q] = key[q] /\ timer'[q] = timer[q],
           \A q \in Requests : Exposed(q) /\ (q = r => Exposed(r)') =>
               lock'[key[q]] = lock[key[q]],
           pc'[r] \in Holding => pc[r] \in Holding /\ key'[r] = key[r],
           Exposed(r)' => Exposed(r) /\ timer'[r] = timer[r]
    PROVE  Sheltered'
  <1> SUFFICES ASSUME NEW q \in Requests, Exposed(q)'
               PROVE  /\ lock'[key'[q]] = LockTTL - timer'[q]
                      /\ \A p \in Requests : pc'[p] \in Holding /\ key'[p] = key'[q] => p = q
    BY DEF Sheltered
  <1>1. pc[q] \in Holding /\ key'[q] = key[q] /\ timer'[q] = timer[q]
    BY DEF Exposed, Holding
  <1>2. Exposed(q)
    <2>1. CASE q = r
      BY <2>1
    <2>2. CASE q # r
      <3>1. key[q] \in Keys
        BY <1>1, Ages DEF Retried, Publication, InFlight
      <3>2. cache'[key[q]].ttl = 0 => cache[key[q]].ttl = 0
        BY <3>1, Times DEF Caches
      <3> QED
        BY <2>2, <3>2 DEF Exposed
    <2> QED
      BY <2>1, <2>2
  <1>3. lock'[key[q]] = lock[key[q]] /\ lock[key[q]] = LockTTL - timer[q]
    BY <1>2 DEF Retried, Sheltered
  <1>4. \A p \in Requests : pc'[p] \in Holding => pc[p] \in Holding /\ key'[p] = key[p]
    OBVIOUS
  <1>5. \A p \in Requests : pc[p] \in Holding /\ key[p] = key[q] => p = q
    BY <1>2 DEF Retried, Sheltered
  <1> QED
    BY <1>1, <1>3, <1>4, <1>5

(* A lock that is free is nobody's who needs it.                           *)
LEMMA ExposedLocks ==
    ASSUME HoldersAreFast, Retried, NEW q \in Requests, Exposed(q)
    PROVE  key[q] \in Keys /\ lock[key[q]] > 0
  <1>1. pc[q] \in InFlight \ {"wait"}
    BY DEF Exposed, InFlight, Holding
  <1>2. timer[q] <= MaxHold /\ timer[q] \in Nat /\ key[q] \in Keys
    BY <1>1, Ages DEF Retried, Publication
  <1> QED
    BY <1>2, Times DEF HoldersAreFast, Retried, Sheltered

LEMMA RetriedAcquire ==
    ASSUME HoldersAreFast, DeletesLate, Retried, TypeOK', NEW r \in Requests, Acquire(r)
    PROVE  Sheltered' /\ Responded' /\ Fresh'
  <1>0. TypeOK /\ pc \in [Requests -> InFlight \cup {"idle", "done"}]
        /\ timer \in [Requests -> Nat] /\ lock \in [Keys -> 0..LockTTL]
    BY DEF Retried, Publication, TypeOK
  <1>1. /\ pc' = [pc EXCEPT ![r] = "recheck"] /\ key' = key /\ cache' = cache
        /\ timer' = [timer EXCEPT ![r] = 0]
        /\ lock' = [lock EXCEPT ![key[r]] = LockTTL]
        /\ lock[key[r]] = 0 /\ pc[r] = "acquire"
    BY DEF Acquire, Goto
  <1>2. /\ key[r] \in Keys /\ timer[r] <= MaxHold /\ timer[r] \in Nat
        /\ cache[key[r]].ttl \in Nat
    BY <1>0, <1>1, Ages, Times DEF InFlight, Holding
  <1>3. /\ pc'[r] = "recheck" /\ timer'[r] = 0 /\ lock'[key[r]] = LockTTL
        /\ \A q \in Requests \ {r} : pc'[q] = pc[q] /\ timer'[q] = timer[q]
    BY <1>0, <1>1, <1>2
  <1>4. FreshAt(r)'
    <2>1. cache[key[r]].ttl > 0 => cache[key[r]].ttl + timer[r] >= CacheTTL
      BY <1>1 DEF Retried, Fresh, FreshAt
    <2> QED
      BY <1>1, <1>2, <1>3, <2>1, Times DEF FreshAt
  <1>5. Responded' /\ Fresh'
    BY <1>1, <1>3, <1>4, StepResponded DEF Caches
  <1>6. \A q \in Requests : Exposed(q) => key[q] # key[r]
    BY <1>1, ExposedLocks
  <1>7. ASSUME NEW q \in Requests, Exposed(q)'
        PROVE  /\ lock'[key'[q]] = LockTTL - timer'[q]
               /\ \A p \in Requests : pc'[p] \in Holding /\ key'[p] = key'[q] => p = q
    <2>1. CASE q = r
      <3>1. cache[key[r]].ttl = 0 /\ key[r] \notin Refused
        BY <1>1, <1>3, <1>7, <2>1 DEF Exposed
      <3>2. ASSUME NEW p \in Requests \ {r}, pc[p] \in Holding, key[p] = key[r]
            PROVE  FALSE
        <4>1. pc[p] = "release"
          BY <1>6, <3>1, <3>2 DEF Exposed, Holding
        <4>2. timer[p] > MaxHold /\ timer[p] \in Nat
          BY <1>0, <3>1, <3>2, <4>1, Ages DEF Retried, Responded
        <4> QED
          BY <1>0, <4>1, <4>2, Ages, Times DEF InFlight, Holding
      <3> QED
        BY <1>1, <1>3, <2>1, <3>2, Times
    <2>2. CASE q # r
      <3>1. Exposed(q)
        BY <1>1, <1>3, <1>7, <2>2 DEF Exposed
      <3>2. key[q] # key[r] /\ key[q] \in Keys
        BY <1>6, <3>1, ExposedLocks
      <3> QED
        BY <1>0, <1>1, <1>3, <2>2, <3>1, <3>2 DEF Retried, Sheltered
    <2> QED
      BY <2>1, <2>2
  <1> QED
    BY <1>5, <1>7 DEF Sheltered

LEMMA RetriedHandle ==
    ASSUME HoldersAreFast, DeletesLate, PublishingWorks, Retried, TypeOK',
           NEW r \in Requests, Handle(r)
    PROVE  Sheltered' /\ Responded' /\ Fresh'
  <1>0. /\ TypeOK /\ pc \in [Requests -> InFlight \cup {"idle", "done"}]
        /\ timer \in [Requests -> Nat] /\ lock \in [Keys -> 0..LockTTL] /\ cancelled = {}
        /\ cache \in [Keys -> [task : Requests \cup {None}, ttl : 0..CacheTTL]]
        /\ timer[r] \in Nat
        /\ pc[r] \in InFlight => key[r] \in Keys
    BY DEF Retried, Publication, TypeOK
  <1>1. CASE Acquire(r)
    BY <1>1, RetriedAcquire
  <1>2. CASE CheckFails(r) \/ CreateAckLost(r) \/ CreateFails(r) \/ SaveFails(r)
    BY <1>0, <1>2, Faultless DEF CheckFails, CreateAckLost, CreateFails, SaveFails, MayFail,
       DeletesLate
  <1>3. CASE CheckHit(r) \/ CheckMiss(r) \/ AcquireLater(r) \/ AcquireFails(r)
             \/ PollHit(r) \/ PollMiss(r) \/ GiveUp(r)
    <2>1. lock' = lock /\ cache' = cache /\ key' = key /\ pc[r] \in InFlight \ Holding
      BY <1>3 DEF CheckHit, CheckMiss, AcquireLater, AcquireFails, PollHit, PollMiss, GiveUp,
         redis, InFlight, Holding
    <2>2. /\ pc'[r] \in {"acquire", "wait", "done"}
          /\ \A q \in Requests \ {r} : pc'[q] = pc[q] /\ timer'[q] = timer[q]
          /\ pc'[r] = "acquire" => ~Hit(r)
      BY <1>0, <1>3 DEF CheckHit, CheckMiss, AcquireLater, AcquireFails, PollHit, PollMiss,
         GiveUp, Return, Goto
    <2>3. FreshAt(r)' /\ ~Exposed(r)'
      BY <2>1, <2>2 DEF FreshAt, Exposed, Hit
    <2>4. Caches /\ pc'[r] \notin Holding
      BY <2>1, <2>2 DEF Caches, Holding
    <2>5. Responded' /\ Fresh'
      BY <2>1, <2>2, <2>3, <2>4, StepResponded
    <2> QED
      BY <2>1, <2>2, <2>3, <2>4, <2>5, StepSheltered
  <1>4. CASE RecheckMiss(r) \/ CreateTaskWithLog(r)
    <2>1. /\ lock' = lock /\ cache' = cache /\ key' = key /\ timer' = timer
          /\ pc[r] \in {"recheck", "create"} /\ key[r] \in Keys
      BY <1>0, <1>4 DEF RecheckMiss, CreateTaskWithLog, redis, InFlight, Holding
    <2>2. /\ pc'[r] \in {"create", "save"}
          /\ \A q \in Requests \ {r} : pc'[q] = pc[q]
      BY <1>0, <1>4 DEF RecheckMiss, CreateTaskWithLog, Goto
    <2>3. pc[r] = "recheck" => cache[key[r]].ttl = 0
      <3>1. pc[r] = "recheck" => ~Hit(r)
        BY <1>0, <1>4, Faultless DEF RecheckMiss, CreateTaskWithLog, MayFail
      <3> QED
        BY <1>0, <2>1, <3>1, Ages, Times DEF Hit
    <2>4. FreshAt(r)' /\ (Exposed(r)' => Exposed(r)) /\ pc[r] \in Holding
      BY <2>1, <2>2, <2>3 DEF FreshAt, Exposed, Holding
    <2>5. Responded' /\ Fresh'
      BY <2>1, <2>2, <2>4, StepResponded DEF Caches
    <2> QED
      BY <2>1, <2>2, <2>4, <2>5, StepSheltered DEF Caches
  <1>5. CASE RecheckHit(r) \/ RefuseAssignee(r) \/ SaveResponse(r)
    <2>1. /\ lock' = lock /\ key' = key /\ timer' = timer /\ pc[r] \in Holding
          /\ pc[r] \in InFlight \ {"wait"} /\ key[r] \in Keys
      BY <1>0, <1>5 DEF RecheckHit, RefuseAssignee, SaveResponse, redis, InFlight, Holding
    <2>2. /\ pc'[r] = "release"
          /\ \A q \in Requests \ {r} : pc'[q] = pc[q]
      BY <1>0, <1>5 DEF RecheckHit, RefuseAssignee, SaveResponse, ReturnHolding, Goto
    <2>3. Caches
      BY <1>0, <1>5 DEF Caches, RecheckHit, RefuseAssignee, SaveResponse, Store, redis
    <2>4. key[r] \notin Refused => cache'[key[r]].ttl + timer[r] > MaxHold
      <3>1. CASE SaveResponse(r)
        <4>1. cache'[key[r]].ttl = CacheTTL
          BY <1>0, <2>1, <3>1 DEF SaveResponse, Store
        <4> QED
          BY <1>0, <4>1, Times DEF DeletesLate
      <3>2. CASE RecheckHit(r)
        <4>1. cache' = cache /\ cache[key[r]].ttl > 0 /\ pc[r] = "recheck"
          BY <3>2 DEF RecheckHit, Hit, redis
        <4>2. cache[key[r]].ttl + timer[r] + MaxHold >= CacheTTL
          BY <4>1 DEF Retried, Fresh, FreshAt
        <4> QED
          BY <1>0, <2>1, <4>1, <4>2, Ages, Times DEF DeletesLate
      <3>3. CASE RefuseAssignee(r)
        BY <3>3 DEF RefuseAssignee
      <3> QED
        BY <1>5, <3>1, <3>2, <3>3
    <2>5. FreshAt(r)' /\ ~Exposed(r)'
      BY <2>2 DEF FreshAt, Exposed
    <2>6. Responded' /\ Fresh'
      BY <2>1, <2>2, <2>3, <2>4, <2>5, StepResponded
    <2> QED
      BY <2>1, <2>2, <2>3, <2>5, <2>6, StepSheltered
  <1>6. CASE ReleaseLock(r) \/ ReleaseFails(r)
    <2>1. /\ cache' = cache /\ key' = key /\ timer' = timer /\ pc[r] = "release"
          /\ lock' = lock \/ lock' = [lock EXCEPT ![key[r]] = 0]
      BY <1>6 DEF ReleaseLock, ReleaseFails, redis
    <2>2. /\ pc'[r] = "done"
          /\ \A q \in Requests \ {r} : pc'[q] = pc[q]
      BY <1>0, <1>6 DEF ReleaseLock, ReleaseFails, Goto
    <2>3. FreshAt(r)' /\ ~Exposed(r)' /\ pc'[r] \notin Holding
      BY <2>2 DEF FreshAt, Exposed, Holding
    <2>4. \A q \in Requests : Exposed(q) => lock'[key[q]] = lock[key[q]]
      <3> SUFFICES ASSUME NEW q \in Requests, Exposed(q)
                   PROVE  key[q] # key[r] /\ key[q] \in Keys
        BY <1>0, <2>1
      <3>1. q # r /\ pc[r] \in Holding
        BY <2>1 DEF Exposed, Holding
      <3> QED
        BY <3>1, ExposedLocks DEF Retried, Sheltered
    <2>5. Responded' /\ Fresh'
      BY <2>1, <2>2, <2>3, StepResponded DEF Caches
    <2> QED
      BY <2>1, <2>2, <2>3, <2>4, <2>5, StepSheltered DEF Caches
  <1> QED
    BY <1>1, <1>2, <1>3, <1>4, <1>5, <1>6 DEF Handle

LEMMA RetriedUnheard ==
    ASSUME HoldersAreFast, DeletesLate, Retried, TypeOK', NEW r \in Requests, Unheard(r)
    PROVE  Sheltered' /\ Responded' /\ Fresh'
  <1>0. /\ TypeOK /\ lock \in [Keys -> 0..LockTTL] /\ pc[r] \in InFlight \cap Holding => key[r] \in Keys
        /\ cache \in [Keys -> [task : Requests \cup {None}, ttl : 0..CacheTTL]]
        /\ timer[r] \in Nat
    BY DEF Retried, Publication, TypeOK
  <1>1. pc' = pc /\ key' = key /\ timer' = timer
    BY DEF Unheard, AcquireUnheard, SaveUnheard, ReleaseUnheard
  <1>2. Caches
    BY <1>0 DEF Caches, Unheard, AcquireUnheard, SaveUnheard, ReleaseUnheard, Store
  <1>3. Exposed(r)' => Exposed(r)
    BY <1>1 DEF Exposed, Unheard, AcquireUnheard, SaveUnheard, ReleaseUnheard
  <1>4. ASSUME NEW q \in Requests, Exposed(q)
        PROVE  lock'[key[q]] = lock[key[q]]
    <2>1. key[q] \in Keys /\ lock[key[q]] > 0
      BY <1>4, ExposedLocks
    <2>2. CASE AcquireUnheard(r)
      BY <1>0, <2>1, <2>2 DEF AcquireUnheard
    <2>3. CASE SaveUnheard(r)
      BY <2>3 DEF SaveUnheard
    <2>4. CASE ReleaseUnheard(r)
      <3>1. q # r /\ pc[r] \in Holding /\ lock' = [lock EXCEPT ![key[r]] = 0]
        BY <1>4, <2>4 DEF ReleaseUnheard, Exposed, Holding
      <3>2. key[q] # key[r]
        BY <1>4, <3>1 DEF Retried, Sheltered
      <3> QED
        BY <1>0, <2>1, <3>1, <3>2
    <2> QED
      BY <2>2, <2>3, <2>4 DEF Unheard
  <1>5. FreshAt(r)'
    BY <1>1 DEF Unheard, AcquireUnheard, SaveUnheard, ReleaseUnheard, FreshAt, Retried, Fresh
  <1>6. pc[r] = "release" /\ key[r] \notin Refused => cache'[key[r]].ttl + timer[r] > MaxHold
    BY DEF Unheard, AcquireUnheard, SaveUnheard, ReleaseUnheard, Retried, Responded
  <1>7. Responded' /\ Fresh'
    BY <1>1, <1>2, <1>5, <1>6, StepResponded
  <1> QED
    BY <1>1, <1>2, <1>3, <1>4, <1>7, StepSheltered

LEMMA RetriedTick ==
    ASSUME HoldersAreFast, DeletesLate, Retried, Tick
    PROVE  Sheltered' /\ Responded' /\ Fresh'
  <1>0. TypeOK /\ pc' = pc /\ key' = key
    BY DEF Retried, Publication, Tick
  <1>1. ASSUME NEW r \in Requests, pc[r] \in InFlight \ {"wait"}
        PROVE  /\ key[r] \in Keys /\ timer[r] \in Nat /\ timer[r] < MaxHold
               /\ timer'[r] = timer[r] + 1
               /\ cache[key[r]].ttl \in Nat /\ cache'[key[r]].ttl = Less(cache[key[r]].ttl)
               /\ lock[key[r]] \in Nat /\ lock'[key[r]] = Less(lock[key[r]])
    <2>1. key[r] \in Keys /\ timer[r] \in Nat /\ timer[r] < MaxHold
      BY <1>0, <1>1, Ages DEF Tick
    <2>2. timer'[r] = timer[r] + 1
      BY <1>1, <2>1, ElapsedFacts DEF Tick
    <2>3. cache[key[r]].ttl \in Nat /\ cache'[key[r]].ttl = Less(cache[key[r]].ttl)
      BY <1>0, <2>1, CacheAges
    <2>4. lock[key[r]] \in Nat /\ lock'[key[r]] = Less(lock[key[r]])
      BY <1>0, <2>1, Ages, Times DEF Tick
    <2> QED
      BY <2>1, <2>2, <2>3, <2>4
  <1>2. ASSUME NEW r \in Requests
        PROVE  FreshAt(r)'
    <2>1. CASE pc[r] \in {"acquire", "recheck"}
      <3>1. FreshAt(r)
        BY DEF Retried, Fresh
      <3> QED
        BY <1>0, <1>1, <2>1, <3>1, Times DEF FreshAt, Less, InFlight, Holding
    <2>2. CASE pc[r] \notin {"acquire", "recheck"}
      BY <1>0, <2>2 DEF FreshAt
    <2> QED
      BY <2>1, <2>2
  <1>3. ASSUME NEW r \in Requests, pc[r] = "release", key[r] \notin Refused
        PROVE  cache'[key[r]].ttl + timer'[r] > MaxHold
    <2>1. cache[key[r]].ttl + timer[r] > MaxHold
      BY <1>3 DEF Retried, Responded
    <2> QED
      BY <1>1, <1>3, <2>1, Times DEF Less, InFlight, Holding
  <1>4. ASSUME NEW r \in Requests, Exposed(r)'
        PROVE  /\ lock'[key[r]] = LockTTL - timer'[r]
               /\ \A q \in Requests : pc[q] \in Holding /\ key[q] = key[r] => q = r
    <2>1. pc[r] \in InFlight \ {"wait"}
      BY <1>0, <1>4 DEF Exposed, InFlight, Holding
    <2>2. Exposed(r)
      <3>1. ASSUME pc[r] = "recheck", cache[key[r]].ttl > 0
            PROVE  cache'[key[r]].ttl > 0
        <4>1. cache[key[r]].ttl + timer[r] + MaxHold >= CacheTTL
          BY <3>1 DEF Retried, Fresh, FreshAt
        <4> QED
          BY <1>1, <2>1, <4>1, Times DEF DeletesLate, Less
      <3> QED
        BY <1>0, <1>1, <1>4, <2>1, <3>1 DEF Exposed
    <2>3. key[r] \in Keys /\ lock[key[r]] > 0
      BY <2>2, ExposedLocks
    <2> QED
      BY <1>1, <2>1, <2>2, <2>3, Times DEF Retried, Sheltered, Less
  <1>5. Responded'
    BY <1>0, <1>3 DEF Responded
  <1>6. Sheltered'
    BY <1>0, <1>4 DEF Sheltered
  <1> QED
    BY <1>2, <1>5, <1>6 DEF Fresh

LEMMA RetriedStep ==
    HoldersAreFast /\ DeletesLate /\ PublishingWorks /\ Retried /\ [Next]_vars => Retried'
  <1> SUFFICES ASSUME HoldersAreFast, DeletesLate, PublishingWorks, Retried, [Next]_vars
               PROVE  Retried'
    OBVIOUS
  <1>0. /\ pc \in [Requests -> InFlight \cup {"idle", "done"}]
        /\ key \in [Requests -> Keys \cup {None}]
    BY DEF Retried, Publication, TypeOK
  <1>1. TypeOK' /\ IdleTimers' /\ cancelled' = {} /\ Published'
    BY PublicationStep DEF Retried
  <1>2. ~Crash /\ \A r \in Requests : ~Cancel(r)
    BY Faultless DEF Crash, Cancel
  <1>3. ASSUME NEW r \in Requests, Reject(r) \/ \E k \in Keys : Receive(r, k)
        PROVE  Sheltered' /\ Responded' /\ Fresh'
    <2>1. lock' = lock /\ cache' = cache /\ timer' = timer
      BY <1>3 DEF Reject, Receive, redis
    <2>2. /\ pc'[r] \in {"check", "done"}
          /\ \A q \in Requests \ {r} : pc'[q] = pc[q] /\ key'[q] = key[q]
      BY <1>0, <1>3 DEF Reject, Receive, Return, Goto
    <2>3. FreshAt(r)' /\ ~Exposed(r)' /\ pc'[r] \notin Holding /\ Caches
      BY <2>1, <2>2 DEF FreshAt, Exposed, Holding, Caches
    <2>4. Responded' /\ Fresh'
      BY <1>1, <2>1, <2>2, <2>3, StepResponded
    <2> QED
      BY <2>1, <2>2, <2>3, <2>4, StepSheltered
  <1>4. ASSUME UNCHANGED vars
        PROVE  Sheltered' /\ Responded' /\ Fresh'
    <2>1. lock' = lock /\ cache' = cache /\ timer' = timer /\ pc' = pc /\ key' = key
      BY <1>4 DEF vars, redis
    <2> QED
      BY <2>1 DEF Retried, Sheltered, Exposed, Responded, Fresh, FreshAt
  <1>5. Sheltered' /\ Responded' /\ Fresh'
    BY <1>1, <1>2, <1>3, <1>4, RetriedHandle, RetriedUnheard, RetriedTick DEF Next
  <1>6. OneCreator'
    BY <1>5 DEF Sheltered, Exposed, OneCreator, Creating, Holding
  <1> QED
    BY <1>1, <1>5, <1>6 DEF Retried, Publication

LEMMA InitRetried == Init => Retried
  <1> SUFFICES ASSUME Init PROVE Retried
    OBVIOUS
  <1>1. \A r \in Requests : pc[r] = "idle"
    BY DEF Init
  <1> QED
    BY <1>1, InitPublication DEF Retried, Sheltered, Exposed, Responded, Fresh, FreshAt

LEMMA CreationsSpaced == Publication /\ [Next]_vars => [CreatedOncePerWindow]_vars
  <1> SUFFICES ASSUME Publication, [Next]_vars, NEW r \in created' \ created
               PROVE  latest[key[r]].left = 0
    BY DEF CreatedOncePerWindow
  <1>1. PICK q \in Requests : Handle(q)
    <2>1. created' # created
      OBVIOUS
    <2>2. ~(UNCHANGED vars) /\ ~Tick /\ ~Crash
      BY <2>1 DEF vars, Tick, Crash
    <2>3. \A q \in Requests : /\ ~Cancel(q) /\ ~Reject(q) /\ \A k \in Keys : ~Receive(q, k)
                              /\ ~Unheard(q)
      BY <2>1 DEF Cancel, Reject, Receive, Unheard, AcquireUnheard, SaveUnheard, ReleaseUnheard
    <2> QED
      BY <2>2, <2>3 DEF Next
  <1>2. CreateTaskWithLog(q) \/ CreateAckLost(q)
    BY <1>1 DEF Handle, CheckHit, CheckMiss, CheckFails, Acquire, AcquireLater,
       AcquireFails, PollHit, PollMiss, GiveUp, RecheckHit, RecheckMiss, RefuseAssignee,
       CreateFails, SaveResponse, SaveFails, ReleaseLock, ReleaseFails, redis
  <1>3. r = q /\ pc[q] = "create" /\ key[q] \notin Refused
    BY <1>2 DEF CreateTaskWithLog, CreateAckLost, Insert
  <1> QED
    BY <1>3, FirstInWindow

LEMMA LatestAnswered ==
    PublishingWorks /\ Publication /\ [Next]_vars => [AnswersTheLatest]_vars
  <1> SUFFICES ASSUME PublishingWorks, Publication, [Next]_vars, NEW r \in Requests,
                      reply'[r] # reply[r], reply'[r].code = "created"
               PROVE  reply'[r].task = latest[key[r]].task
    BY DEF AnswersTheLatest
  <1>0. /\ reply \in [Requests -> [code : Codes, task : Requests \cup {None}]]
        /\ pc[r] \in InFlight => key[r] \in Keys
    BY DEF Publication, TypeOK
  <1>1. ~(UNCHANGED vars) /\ ~Tick /\ ~Crash
    BY <1>0, Faultless DEF vars, Tick, Crash
  <1>2. \A q \in Requests : /\ ~Cancel(q) /\ ~Reject(q) /\ \A k \in Keys : ~Receive(q, k)
                            /\ ~Unheard(q)
    BY <1>0 DEF Cancel, Reject, Receive, Return, Outcome, Unheard, AcquireUnheard, SaveUnheard,
       ReleaseUnheard
  <1>3. PICK q \in Requests : Handle(q)
    BY <1>1, <1>2 DEF Next
  <1>4. CheckHit(q) \/ PollHit(q) \/ RecheckHit(q) \/ SaveResponse(q)
    BY <1>0, <1>3 DEF Handle, CheckMiss, CheckFails, Acquire, AcquireLater,
       AcquireFails, PollMiss, GiveUp, RecheckMiss, RefuseAssignee, CreateTaskWithLog,
       CreateAckLost, CreateFails, SaveFails, ReleaseLock, ReleaseFails, Return,
       ReturnHolding, Outcome
  <1>5. CASE CheckHit(q) \/ PollHit(q) \/ RecheckHit(q)
    <2>1. /\ r = q /\ reply'[r].task = cache[key[r]].task
          /\ cache[key[r]].ttl > 0 /\ pc[r] \in InFlight
      BY <1>0, <1>5 DEF CheckHit, PollHit, RecheckHit, Return, ReturnHolding, Outcome, Hit,
         InFlight, Holding
    <2> QED
      BY <1>0, <2>1 DEF Publication, Published, CachedIsLatest
  <1>6. CASE SaveResponse(q)
    <2>1. r = q /\ reply'[r].task = r /\ pc[r] = "save"
      BY <1>0, <1>6 DEF SaveResponse, ReturnHolding, Outcome
    <2> QED
      BY <2>1 DEF Publication, Published, CreatorsFoundNothing
  <1> QED
    BY <1>4, <1>5, <1>6

(* A key yields one database record per cache lifetime, however many       *)
(* duplicates arrive and however they interleave, provided that holders    *)
(* are faster than the lock, that nothing comes between a commit and the   *)
(* caching of its response, and that no DEL is sent again after it took    *)
(* effect, unless no creation fails and responses last two phases.  The    *)
(* runs CreateSlowHolder and CreateSaveError refute the property without   *)
(* the first two assumptions.  Without the third, the DEL of a handler     *)
(* whose creation failed, sent again, deletes the lock of the next.        *)
THEOREM OncePerWindow ==
    ASSUME HoldersAreFast, PublishingWorks, RetriesHarmless
    PROVE  Spec => OneRecordPerKey
  <1>1. CASE ReleasesHeard
    <2>1. Init => Publication /\ Locked
      BY InitPublication, InitLocked
    <2>2. Publication /\ Locked /\ [Next]_vars => Publication' /\ Locked'
      BY <1>1, LockedCreators
    <2> QED
      BY <2>1, <2>2, CreationsSpaced, PTL DEF Spec, OneRecordPerKey
  <1>2. CASE DeletesLate
    <2>1. Retried /\ [Next]_vars => Retried'
      BY <1>2, RetriedStep
    <2>2. Retried => Publication
      BY DEF Retried
    <2> QED
      BY <2>1, <2>2, InitRetried, CreationsSpaced, PTL DEF Spec, OneRecordPerKey
  <1> QED
    BY <1>1, <1>2 DEF RetriesHarmless, DeletesLate

(* Under the same assumptions every duplicate is told of the one task its  *)
(* key stands for.                                                         *)
THEOREM DuplicatesAgree ==
    ASSUME HoldersAreFast, PublishingWorks, RetriesHarmless
    PROVE  Spec => SameAnswer
  <1>0. Publication /\ [Next]_vars => [AnswersTheLatest]_vars
    BY LatestAnswered
  <1>1. CASE ReleasesHeard
    <2>1. Init => Publication /\ Locked
      BY InitPublication, InitLocked
    <2>2. Publication /\ Locked /\ [Next]_vars => Publication' /\ Locked'
      BY <1>1, LockedCreators
    <2> QED
      BY <1>0, <2>1, <2>2, PTL DEF Spec, SameAnswer
  <1>2. CASE DeletesLate
    <2>1. Retried /\ [Next]_vars => Retried'
      BY <1>2, RetriedStep
    <2>2. Retried => Publication
      BY DEF Retried
    <2> QED
      BY <1>0, <2>1, <2>2, InitRetried, PTL DEF Spec, SameAnswer
  <1> QED
    BY <1>1, <1>2 DEF RetriesHarmless, DeletesLate

-----------------------------------------------------------------------------
(* Duplicates are served.                                                  *)

(* Handlers are done a polling round before the waiters' timeout; a cached *)
(* response outlives the two phases of a handler that finds it, and if the *)
(* release of the lock may fail, the lock as well; and nothing keeps a     *)
(* waiter from the cache, or takes its holder away without an answer.  An  *)
(* IDEMPOTENCY_TTL of a second, with handlers done in less than half of    *)
(* it, is long enough as long as releases do not fail.                     *)
HoldersArePrompt == MaxHold + 1 < WaitTime
ResponsesLast ==
    IF "release" \in Faults THEN LockTTL + 2 * MaxHold <= CacheTTL ELSE 2 * MaxHold < CacheTTL
WaitersCanRead == Faults \cap {"read", "cancel", "crash"} = {}

(* A request that holds the key's lock, or held it, and may still publish. *)
Working(q, k) == pc[q] \in {"recheck", "create", "save"} /\ key[q] = k

(* Some request with the key has failed, other than by waiting in vain, or *)
(* took the lock and was not told.                                         *)
Failed(q) ==
    /\ pc[q] \in {"release", "done"}
    /\ reply[q].code \in {"error", "notInTeam"}
    /\ timer[q] <= MaxHold

LetDown(k) == \E q \in Requests : key[q] = k /\ (q \in unheard \/ Failed(q))

(* The lock is somebody's who is at work, or there is a response that      *)
(* outlives it: by its lifetime if releases may fail, else because its     *)
(* holder is about to release it.                                          *)
Outlives(k) ==
    IF "release" \in Faults THEN cache[k].ttl >= lock[k]
    ELSE \E q \in Requests : /\ pc[q] = "release" /\ key[q] = k
                             /\ cache[k].ttl + timer[q] > MaxHold

LockCovered(k) ==
    lock[k] > 0 => LetDown(k) \/ (\E q \in Requests : Working(q, k)) \/ Outlives(k)

(* A waiter waits for somebody who has worked as long, or finds a response *)
(* by the next tick.                                                       *)
Promised(r) ==
    \/ LetDown(key[r])
    \/ \E q \in Requests : Working(q, key[r]) /\ timer[r] <= timer[q]
    \/ cache[key[r]].ttl > 0 /\ timer[r] <= (IF r \in polled THEN MaxHold ELSE MaxHold + 1)

(* What it polled in vain was there only since.                            *)
WaiterAt(r) ==
    /\ pc[r] = "wait" => Promised(r)
    /\ r \in polled => /\ pc[r] = "wait"
                       /\ cache[key[r]].ttl > 0 => cache[key[r]].ttl = CacheTTL
    /\ GaveUp(r) => LetDown(key[r])
    /\ r \in unheard => pc[r] # "idle"

ServiceInv ==
    /\ \A k \in Keys : LockCovered(k)
    /\ \A r \in Requests : FreshAt(r) /\ WaiterAt(r)

Service == TypeOK /\ IdleTimers /\ cancelled = {} /\ ServiceInv

LEMMA InitService == Init => Service
  <1> SUFFICES ASSUME Init PROVE Service
    OBVIOUS
  <1>1. /\ cancelled = {} /\ polled = {} /\ unheard = {}
        /\ \A r \in Requests : pc[r] = "idle" /\ timer[r] = 0
        /\ \A k \in Keys : ~(lock[k] > 0)
    BY DEF Init
  <1> QED
    BY <1>1, InitTyped DEF Service, IdleTimers, ServiceInv, LockCovered, FreshAt, WaiterAt, GaveUp

(* What a step of request r leaves alone.                                  *)
OthersStay(r) ==
    \A q \in Requests \ {r} :
        /\ pc'[q] = pc[q] /\ key'[q] = key[q] /\ reply'[q] = reply[q] /\ timer'[q] = timer[q]
        /\ q \in polled' <=> q \in polled

FailureStands(r) ==
    /\ unheard \subseteq unheard' /\ unheard' \subseteq unheard \cup {r}
    /\ pc[r] # "done" /\ (pc[r] # "idle" => key'[r] = key[r])
    /\ pc[r] = "release" => /\ pc'[r] \in {"release", "done"}
                            /\ reply'[r] = reply[r] /\ timer'[r] = timer[r]

LEMMA LetDownKept ==
    ASSUME Service, NEW r \in Requests, OthersStay(r), FailureStands(r), NEW k, LetDown(k)
    PROVE  LetDown(k)'
  <1>1. PICK q \in Requests : key[q] = k /\ (q \in unheard \/ Failed(q))
    BY DEF LetDown
  <1>2. CASE q \in unheard
    <2>1. pc[q] # "idle"
      BY <1>2 DEF Service, ServiceInv, WaiterAt
    <2>2. key'[q] = k /\ q \in unheard'
      BY <1>1, <1>2, <2>1 DEF OthersStay, FailureStands
    <2> QED
      BY <2>2 DEF LetDown
  <1>3. CASE Failed(q)
    <2>1. /\ key'[q] = k /\ pc'[q] \in {"release", "done"}
          /\ reply'[q] = reply[q] /\ timer'[q] = timer[q]
      BY <1>1, <1>3 DEF OthersStay, FailureStands, Failed
    <2> QED
      BY <1>3, <2>1 DEF LetDown, Failed
  <1> QED
    BY <1>1, <1>2, <1>3

(* Whoever stops working has published a response or has failed, and       *)
(* whoever returns releases the lock if releases do not fail.              *)
Publishes(r) ==
    /\ cache'[key[r]].ttl > 0
    /\ IF "release" \in Faults THEN cache'[key[r]].ttl >= LockTTL
       ELSE pc'[r] = "release" /\ cache'[key[r]].ttl + timer'[r] > MaxHold

Delivers(r) ==
    /\ pc[r] \in {"recheck", "create", "save"} =>
          \/ pc'[r] \in {"recheck", "create", "save"} /\ timer'[r] = timer[r]
          \/ LetDown(key[r])'
          \/ Publishes(r)
    /\ pc[r] = "release" /\ "release" \notin Faults =>
          pc'[r] = "release" \/ lock'[key[r]] = 0

Locks(r) ==
    \A k \in Keys : lock'[k] = lock[k] \/ lock'[k] = 0 \/ LetDown(k)' \/ Working(r, k)'

LEMMA StepServes ==
    ASSUME ResponsesLast, Service, TypeOK', NEW r \in Requests,
           OthersStay(r), FailureStands(r), Delivers(r), Caches, Locks(r),
           FreshAt(r)', WaiterAt(r)'
    PROVE  ServiceInv'
  <1>0. /\ \A q \in Requests : /\ timer[q] \in Nat /\ timer'[q] \in Nat
                               /\ pc[q] \in InFlight => key[q] \in Keys
                               /\ pc[q] \in InFlight \ {"wait"} => timer[q] <= MaxHold
        /\ \A k \in Keys : /\ cache[k].ttl \in 0..CacheTTL /\ cache'[k].ttl \in 0..CacheTTL
                           /\ lock[k] \in 0..LockTTL /\ lock'[k] \in 0..LockTTL
        /\ "release" \in Faults => LockTTL <= CacheTTL
        /\ 2 * MaxHold < CacheTTL
    <2>1. ("release" \in Faults => LockTTL <= CacheTTL) /\ 2 * MaxHold < CacheTTL
      BY Times DEF ResponsesLast
    <2>2. \A q \in Requests : /\ timer[q] \in Nat /\ timer'[q] \in Nat
                              /\ pc[q] \in InFlight => key[q] \in Keys
                              /\ pc[q] \in InFlight \ {"wait"} => timer[q] <= MaxHold
      BY DEF Service, TypeOK
    <2>3. \A k \in Keys : /\ cache[k] \in [task : Requests \cup {None}, ttl : 0..CacheTTL]
                          /\ cache'[k] \in [task : Requests \cup {None}, ttl : 0..CacheTTL]
                          /\ lock[k] \in 0..LockTTL /\ lock'[k] \in 0..LockTTL
      BY DEF Service, TypeOK
    <2> QED
      BY <2>1, <2>2, <2>3
  <1>1. ASSUME NEW q \in Requests \ {r}
        PROVE  FreshAt(q)'
    <2>1. pc'[q] = pc[q] /\ key'[q] = key[q] /\ timer'[q] = timer[q]
      BY DEF OthersStay
    <2>2. FreshAt(q)
      BY DEF Service, ServiceInv
    <2>3. pc[q] \in {"acquire", "recheck"} => key[q] \in Keys
      BY <1>0 DEF InFlight, Holding
    <2>4. pc[q] \in {"acquire", "recheck"} =>
              cache'[key[q]] = cache[key[q]] \/ cache'[key[q]].ttl = CacheTTL
      BY <2>3 DEF Caches
    <2> QED
      BY <1>0, <2>1, <2>2, <2>4, Times DEF FreshAt
  <1>2. ASSUME NEW q \in Requests \ {r}
        PROVE  WaiterAt(q)'
    <2>1. /\ pc'[q] = pc[q] /\ key'[q] = key[q] /\ reply'[q] = reply[q] /\ timer'[q] = timer[q]
          /\ q \in polled' <=> q \in polled
      BY DEF OthersStay
    <2>2. WaiterAt(q)
      BY DEF Service, ServiceInv
    <2>3. GaveUp(q)' => LetDown(key[q])'
      BY <2>1, <2>2, LetDownKept DEF WaiterAt, GaveUp
    <2>4. pc[q] = "wait" => /\ key[q] \in Keys
                            /\ cache'[key[q]] = cache[key[q]] \/ cache'[key[q]].ttl = CacheTTL
      BY <1>0 DEF InFlight, Caches
    <2>5. q \in polled' => /\ pc'[q] = "wait"
                           /\ cache'[key[q]].ttl > 0 => cache'[key[q]].ttl = CacheTTL
      BY <2>1, <2>2, <2>4 DEF WaiterAt
    <2>6. ASSUME pc[q] = "wait"
          PROVE  Promised(q)'
      <3>1. CASE LetDown(key[q])
        BY <2>1, <3>1, LetDownKept DEF Promised
      <3>2. ASSUME NEW p \in Requests, Working(p, key[q]), timer[q] <= timer[p]
            PROVE  Promised(q)'
        <4>1. CASE p # r
          <5>1. Working(p, key[q])' /\ timer'[p] = timer[p]
            BY <2>1, <3>2, <4>1 DEF Working, OthersStay
          <5> QED
            BY <2>1, <3>2, <5>1 DEF Promised
        <4>2. CASE p = r
          <5>1. /\ key[r] = key[q] /\ key'[r] = key[r]
                /\ pc[r] \in {"recheck", "create", "save"} /\ timer[r] <= MaxHold
            BY <1>0, <3>2, <4>2 DEF Working, FailureStands, InFlight, Holding
          <5>2. CASE pc'[r] \in {"recheck", "create", "save"} /\ timer'[r] = timer[r]
            <6>1. Working(r, key[q])'
              BY <2>1, <5>1, <5>2 DEF Working
            <6> QED
              BY <2>1, <3>2, <4>2, <5>2, <6>1 DEF Promised
          <5>3. CASE LetDown(key[r])'
            BY <2>1, <5>1, <5>3 DEF Promised
          <5>4. CASE Publishes(r)
            <6>1. cache'[key'[q]].ttl > 0
              BY <2>1, <5>1, <5>4 DEF Publishes
            <6>2. timer'[q] <= MaxHold /\ timer'[q] <= MaxHold + 1
              BY <1>0, <2>1, <3>2, <4>2, <5>1, Times
            <6> QED
              BY <6>1, <6>2 DEF Promised
          <5> QED
            BY <5>1, <5>2, <5>3, <5>4 DEF Delivers
        <4> QED
          BY <4>1, <4>2
      <3>3. CASE cache[key[q]].ttl > 0
                 /\ timer[q] <= (IF q \in polled THEN MaxHold ELSE MaxHold + 1)
        <4>1. cache'[key'[q]].ttl > 0
          BY <2>1, <2>4, <2>6, <3>3, Times
        <4>2. timer'[q] <= (IF q \in polled' THEN MaxHold ELSE MaxHold + 1)
          BY <2>1, <3>3
        <4> QED
          BY <4>1, <4>2 DEF Promised
      <3> QED
        BY <2>2, <2>6, <3>1, <3>2, <3>3 DEF WaiterAt, Promised
    <2>7. q \in unheard' => pc'[q] # "idle"
      BY <2>1, <2>2 DEF FailureStands, WaiterAt
    <2> QED
      BY <2>1, <2>3, <2>5, <2>6, <2>7 DEF WaiterAt
  <1>3. ASSUME NEW k \in Keys, lock'[k] > 0
        PROVE  LetDown(k)' \/ (\E q \in Requests : Working(q, k)') \/ Outlives(k)'
    <2>1. CASE lock'[k] = 0 \/ LetDown(k)' \/ Working(r, k)'
      BY <1>3, <2>1
    <2>2. CASE lock'[k] = lock[k]
      <3>1. CASE LetDown(k)
        BY <3>1, LetDownKept
      <3>2. ASSUME NEW q \in Requests, Working(q, k), q # r
            PROVE  Working(q, k)'
        BY <3>2 DEF Working, OthersStay
      <3>3. CASE Working(r, k)
        <4>1. /\ key[r] = k /\ key'[r] = k /\ pc[r] \in {"recheck", "create", "save"}
          BY <3>3 DEF Working, FailureStands
        <4>2. \/ pc'[r] \in {"recheck", "create", "save"}
              \/ LetDown(k)'
              \/ Publishes(r)
          BY <4>1 DEF Delivers
        <4>3. pc'[r] \in {"recheck", "create", "save"} => Working(r, k)'
          BY <4>1 DEF Working
        <4>4. Publishes(r) => Outlives(k)'
          BY <1>0, <4>1, Times DEF Publishes, Outlives
        <4> QED
          BY <4>2, <4>3, <4>4
      <3>4. CASE Outlives(k)
        <4>1. cache'[k] = cache[k] \/ cache'[k].ttl = CacheTTL
          BY DEF Caches
        <4>2. CASE "release" \in Faults
          BY <1>0, <2>2, <3>4, <4>1, <4>2, Times DEF Outlives
        <4>3. CASE "release" \notin Faults
          <5>1. PICK q \in Requests : /\ pc[q] = "release" /\ key[q] = k
                                      /\ cache[k].ttl + timer[q] > MaxHold
            BY <3>4, <4>3 DEF Outlives
          <5>2. pc'[q] = "release" /\ key'[q] = k /\ timer'[q] = timer[q]
            BY <1>3, <4>3, <5>1 DEF OthersStay, FailureStands, Delivers
          <5>3. cache'[k].ttl + timer'[q] > MaxHold
            BY <1>0, <4>1, <5>1, <5>2, Times
          <5> QED
            BY <4>3, <5>2, <5>3 DEF Outlives
        <4> QED
          BY <4>2, <4>3
      <3>5. LetDown(k) \/ (\E q \in Requests : Working(q, k)) \/ Outlives(k)
        BY <1>3, <2>2 DEF Service, ServiceInv, LockCovered
      <3> QED
        BY <3>1, <3>2, <3>3, <3>4, <3>5
    <2> QED
      BY <2>1, <2>2 DEF Locks
  <1>4. \A k \in Keys : LockCovered(k)'
    BY <1>3 DEF LockCovered
  <1> QED
    BY <1>1, <1>2, <1>4 DEF ServiceInv

LEMMA OthersFrame ==
    ASSUME TypeOK, NEW r \in Requests, NEW label, Goto(r, label), key' = key,
           reply' = reply \/ (\E code, t : Outcome(r, code, t)),
           timer' = timer \/ timer' = [timer EXCEPT ![r] = 0],
           polled' \in {polled, polled \cup {r}, polled \ {r}}
    PROVE  OthersStay(r) /\ pc'[r] = label /\ key'[r] = key[r]
  BY DEF TypeOK, Goto, Outcome, OthersStay

(* What is known of a request whose handler takes a step.                  *)
LEMMA Stepping ==
    ASSUME WaitersCanRead, Service, NEW r \in Requests
    PROVE  /\ TypeOK /\ Works(r) /\ ~MayFail("read", r)
           /\ timer[r] \in Nat
           /\ pc[r] \in InFlight => key[r] \in Keys
           /\ pc[r] \in InFlight \ {"wait"} => timer[r] <= MaxHold
           /\ pc[r] # "wait" => r \notin polled
           /\ pc[r] \in InFlight => /\ cache[key[r]].ttl \in 0..CacheTTL
                                    /\ lock[key[r]] \in 0..LockTTL
           /\ reply \in [Requests -> [code : Codes, task : Requests \cup {None}]]
           /\ timer \in [Requests -> Nat] /\ lock \in [Keys -> 0..LockTTL]
           /\ cache \in [Keys -> [task : Requests \cup {None}, ttl : 0..CacheTTL]]
  <1>1. TypeOK /\ Works(r) /\ ~MayFail("read", r)
    BY DEF Service, Works, MayFail, WaitersCanRead
  <1>2. pc[r] # "wait" => r \notin polled
    BY DEF Service, ServiceInv, WaiterAt
  <1>3. pc[r] \in InFlight => key[r] \in Keys
    BY <1>1 DEF TypeOK
  <1>4. pc[r] \in InFlight => cache[key[r]] \in [task : Requests \cup {None}, ttl : 0..CacheTTL]
    BY <1>1, <1>3 DEF TypeOK
  <1> QED
    BY <1>1, <1>2, <1>3, <1>4 DEF TypeOK

(* A waiter whose time is up has been let down.                            *)
LEMMA WaitedInVain ==
    ASSUME HoldersArePrompt, WaitersCanRead, Service, NEW r \in Requests,
           pc[r] = "wait", timer[r] = WaitTime
    PROVE  LetDown(key[r])
  <1>1. Promised(r)
    BY DEF Service, ServiceInv, WaiterAt
  <1>2. ASSUME NEW q \in Requests, Working(q, key[r]), timer[r] <= timer[q]
        PROVE  FALSE
    <2>1. timer[q] <= MaxHold /\ timer[q] \in Nat
      BY <1>2, Stepping DEF Working, InFlight, Holding
    <2> QED
      BY <1>2, <2>1, Times DEF HoldersArePrompt
  <1>3. ~(timer[r] <= (IF r \in polled THEN MaxHold ELSE MaxHold + 1))
    BY Times DEF HoldersArePrompt
  <1> QED
    BY <1>1, <1>2, <1>3 DEF Promised

(* The steps of a handler before it has the lock, and after.               *)
LEMMA QuietServes ==
    ASSUME HoldersArePrompt, ResponsesLast, WaitersCanRead, Service, TypeOK',
           NEW r \in Requests,
           \/ CheckHit(r) \/ CheckMiss(r) \/ CheckFails(r) \/ AcquireLater(r)
           \/ PollHit(r) \/ PollMiss(r) \/ GiveUp(r)
           \/ ReleaseLock(r) \/ ReleaseFails(r)
    PROVE  ServiceInv'
  <1> DEFINE k == key[r]
  <1>0. /\ TypeOK /\ Works(r) /\ ~MayFail("read", r) /\ timer[r] \in Nat
        /\ pc[r] \in InFlight => k \in Keys
        /\ pc[r] \in InFlight \ {"wait"} => timer[r] <= MaxHold
        /\ pc[r] # "wait" => r \notin polled
        /\ pc[r] \in InFlight => cache[k].ttl \in 0..CacheTTL /\ lock[k] \in 0..LockTTL
        /\ reply \in [Requests -> [code : Codes, task : Requests \cup {None}]]
        /\ timer \in [Requests -> Nat] /\ lock \in [Keys -> 0..LockTTL]
    BY Stepping
  <1>1. cache' = cache /\ key' = key /\ unheard' = unheard
    BY DEF CheckHit, CheckMiss, CheckFails, AcquireLater, PollHit, PollMiss, GiveUp,
       ReleaseLock, ReleaseFails, redis
  <1>2. Caches
    BY <1>1 DEF Caches
  <1>3. Locks(r)
    BY <1>0 DEF Locks, CheckHit, CheckMiss, CheckFails, AcquireLater, PollHit, PollMiss, GiveUp,
       ReleaseLock, ReleaseFails, redis
  <1>4. pc[r] \in {"check", "acquire", "wait", "release"}
    BY DEF CheckHit, CheckMiss, CheckFails, AcquireLater, PollHit, PollMiss, GiveUp,
       ReleaseLock, ReleaseFails
  <1>5. Delivers(r)
    <2>1. pc[r] = "release" /\ "release" \notin Faults => ReleaseLock(r)
      BY <1>0 DEF CheckHit, CheckMiss, CheckFails, AcquireLater, PollHit, PollMiss, GiveUp,
         ReleaseFails, MayFail, Works
    <2>2. pc[r] = "release" => k \in Keys
      BY <1>0 DEF InFlight, Holding
    <2> QED
      BY <1>0, <1>4, <2>1, <2>2 DEF Delivers, ReleaseLock
  <1>6. ~CheckFails(r)
    BY <1>0 DEF CheckFails
  <1>7. CASE CheckHit(r) \/ PollHit(r)
    <2>1. /\ Goto(r, "done") /\ Outcome(r, "created", cache[k].task) /\ timer' = timer
          /\ polled' \in {polled, polled \ {r}} /\ r \notin polled'
      BY <1>0, <1>7 DEF CheckHit, PollHit, Return
    <2>2. OthersStay(r) /\ pc'[r] = "done" /\ key'[r] = k
      BY <1>0, <1>1, <2>1, OthersFrame
    <2>3. reply'[r].code = "created"
      BY <1>0, <2>1 DEF Outcome
    <2>4. FailureStands(r)
      BY <1>1, <1>7, <2>2 DEF FailureStands, CheckHit, PollHit
    <2>5. FreshAt(r)' /\ WaiterAt(r)'
      BY <2>1, <2>2, <2>3 DEF FreshAt, WaiterAt, GaveUp
    <2> QED
      BY <1>2, <1>3, <1>5, <2>2, <2>4, <2>5, StepServes
  <1>8. CASE CheckMiss(r)
    <2>1. Goto(r, "acquire") /\ reply' = reply /\ timer' = timer /\ polled' = polled
      BY <1>8 DEF CheckMiss
    <2>2. OthersStay(r) /\ pc'[r] = "acquire" /\ key'[r] = k
      BY <1>0, <1>1, <2>1, OthersFrame
    <2>3. ~(cache'[k].ttl > 0) /\ r \notin polled'
      BY <1>0, <1>1, <1>8, <2>1 DEF CheckMiss, Hit
    <2>4. FailureStands(r)
      BY <1>1, <1>8, <2>2 DEF FailureStands, CheckMiss
    <2>5. FreshAt(r)' /\ WaiterAt(r)'
      BY <2>2, <2>3 DEF FreshAt, WaiterAt, GaveUp
    <2> QED
      BY <1>2, <1>3, <1>5, <2>2, <2>4, <2>5, StepServes
  <1>9. CASE AcquireLater(r)
    <2>1. /\ Goto(r, "wait") /\ reply' = reply /\ timer' = [timer EXCEPT ![r] = 0]
          /\ polled' = polled /\ lock[k] > 0 /\ pc[r] = "acquire" /\ k \in Keys
      BY <1>0, <1>9 DEF AcquireLater, InFlight
    <2>2. OthersStay(r) /\ pc'[r] = "wait" /\ key'[r] = k
      BY <1>0, <1>1, <2>1, OthersFrame
    <2>3. FailureStands(r)
      BY <1>1, <2>1, <2>2 DEF FailureStands
    <2>4. r \notin polled' /\ timer'[r] = 0
      BY <1>0, <2>1
    <2>5. Promised(r)'
      <3>1. LetDown(k) \/ (\E q \in Requests : Working(q, k)) \/ Outlives(k)
        BY <2>1 DEF Service, ServiceInv, LockCovered
      <3>2. CASE LetDown(k)
        BY <2>2, <2>3, <3>2, LetDownKept DEF Promised
      <3>3. ASSUME NEW q \in Requests, Working(q, k)
            PROVE  Promised(r)'
        <4>1. q # r
          BY <2>1, <3>3 DEF Working
        <4>2. Working(q, key[r])' /\ timer'[q] = timer[q]
          BY <2>2, <3>3, <4>1 DEF Working, OthersStay
        <4>3. timer'[r] <= timer'[q]
          BY <1>0, <2>4, <4>2
        <4> QED
          BY <4>2, <4>3 DEF Promised
      <3>4. CASE Outlives(k)
        <4>0. /\ \A q \in Requests : pc[q] = "release" => timer[q] <= MaxHold
              /\ cache[k].ttl \in Nat /\ lock[k] \in Nat
          BY <1>0, <2>1, Ages, Times DEF InFlight, Holding
        <4>1. cache'[key'[r]].ttl > 0
          BY <1>0, <1>1, <2>1, <2>2, <3>4, <4>0, Times DEF Outlives
        <4>2. timer'[r] <= MaxHold /\ timer'[r] <= MaxHold + 1
          BY <2>4, Times
        <4> QED
          BY <4>1, <4>2 DEF Promised
      <3> QED
        BY <3>1, <3>2, <3>3, <3>4
    <2>6. FreshAt(r)' /\ WaiterAt(r)'
      BY <2>2, <2>4, <2>5 DEF FreshAt, WaiterAt, GaveUp
    <2> QED
      BY <1>2, <1>3, <1>5, <2>2, <2>3, <2>6, StepServes
  <1>10. CASE PollMiss(r)
    <2>1. /\ pc' = pc /\ reply' = reply /\ timer' = timer /\ polled' = polled \cup {r}
          /\ pc[r] = "wait" /\ ~(cache[k].ttl > 0)
      BY <1>0, <1>10 DEF PollMiss, Hit
    <2>2. OthersStay(r) /\ FailureStands(r)
      BY <1>1, <2>1 DEF OthersStay, FailureStands
    <2>3. LetDown(k) \/ \E q \in Requests : Working(q, k) /\ timer[r] <= timer[q]
      BY <2>1 DEF Service, ServiceInv, WaiterAt, Promised
    <2>4. Promised(r)'
      BY <1>1, <2>1, <2>3 DEF Promised, LetDown, Failed, Working
    <2>5. FreshAt(r)' /\ WaiterAt(r)'
      BY <1>1, <2>1, <2>4 DEF FreshAt, WaiterAt, GaveUp
    <2> QED
      BY <1>2, <1>3, <1>5, <2>2, <2>5, StepServes
  <1>11. CASE GiveUp(r)
    <2>1. /\ Goto(r, "done") /\ Outcome(r, "error", None) /\ timer' = timer
          /\ polled' = polled \ {r} /\ pc[r] = "wait" /\ timer[r] = WaitTime
      BY <1>0, <1>11 DEF GiveUp, Return, Works
    <2>2. OthersStay(r) /\ pc'[r] = "done" /\ key'[r] = k
      BY <1>0, <1>1, <2>1, OthersFrame
    <2>3. FailureStands(r)
      BY <1>1, <2>1, <2>2 DEF FailureStands
    <2>4. LetDown(key[r])'
      <3>1. LetDown(k)
        BY <2>1, WaitedInVain
      <3> QED
        BY <2>2, <2>3, <3>1, LetDownKept
    <2>5. FreshAt(r)' /\ WaiterAt(r)'
      BY <2>1, <2>2, <2>4 DEF FreshAt, WaiterAt, GaveUp
    <2> QED
      BY <1>2, <1>3, <1>5, <2>2, <2>3, <2>5, StepServes
  <1>12. CASE ReleaseLock(r) \/ ReleaseFails(r)
    <2>1. /\ Goto(r, "done") /\ reply' = reply /\ timer' = timer
          /\ polled' = polled /\ pc[r] = "release" /\ timer[r] <= MaxHold
      BY <1>0, <1>12 DEF ReleaseLock, ReleaseFails, InFlight, Holding
    <2>2. OthersStay(r) /\ pc'[r] = "done" /\ key'[r] = k
      BY <1>0, <1>1, <2>1, OthersFrame
    <2>3. FailureStands(r)
      BY <1>1, <2>1, <2>2 DEF FailureStands
    <2>4. timer'[r] # WaitTime /\ r \notin polled'
      BY <1>0, <2>1, Times DEF HoldersArePrompt
    <2>5. FreshAt(r)' /\ WaiterAt(r)'
      BY <2>2, <2>4 DEF FreshAt, WaiterAt, GaveUp
    <2> QED
      BY <1>2, <1>3, <1>5, <2>2, <2>3, <2>5, StepServes
  <1> QED
    BY <1>6, <1>7, <1>8, <1>9, <1>10, <1>11, <1>12

(* A handler that fails, with the lock or in taking it, answers for it.    *)
LEMMA FailingServes ==
    ASSUME ResponsesLast, WaitersCanRead, Service, TypeOK', NEW r \in Requests,
           NEW code \in {"error", "notInTeam"}, Outcome(r, code, None),
           pc[r] \in {"acquire", "recheck", "create", "save"},
           Goto(r, "release") \/ Goto(r, "done"),
           Caches, \A k \in Keys : lock'[k] = lock[k] \/ k = key[r],
           UNCHANGED <<key, timer, polled, unheard>>, HoldersArePrompt
    PROVE  ServiceInv'
  <1>0. /\ TypeOK /\ timer[r] \in Nat /\ timer[r] <= MaxHold /\ r \notin polled
        /\ reply \in [Requests -> [code : Codes, task : Requests \cup {None}]]
    BY Stepping DEF InFlight, Holding
  <1>1. OthersStay(r) /\ pc'[r] \in {"release", "done"} /\ key'[r] = key[r]
    BY <1>0, OthersFrame
  <1>2. reply'[r].code = code
    BY <1>0 DEF Outcome
  <1>3. LetDown(key[r])'
    BY <1>0, <1>1, <1>2 DEF LetDown, Failed
  <1>4. FailureStands(r)
    BY <1>1 DEF FailureStands
  <1>5. Delivers(r) /\ Locks(r)
    BY <1>1, <1>3 DEF Delivers, Locks
  <1>6. timer[r] # WaitTime
    BY <1>0, Times DEF HoldersArePrompt
  <1>7. FreshAt(r)' /\ WaiterAt(r)'
    <2>1. FreshAt(r)'
      BY <1>1, <1>2 DEF FreshAt
    <2>2. WaiterAt(r)'
      BY <1>0, <1>1, <1>6 DEF WaiterAt, GaveUp
    <2> QED
      BY <2>1, <2>2
  <1> QED
    BY <1>1, <1>4, <1>5, <1>7, StepServes

(* A handler that publishes a response, or finds one.                      *)
LEMMA PublishingServes ==
    ASSUME ResponsesLast, WaitersCanRead, Service, TypeOK', NEW r \in Requests, NEW t,
           Outcome(r, "created", t), pc[r] \in {"recheck", "save"}, Goto(r, "release"),
           Caches, cache'[key[r]].ttl > 0,
           IF "release" \in Faults THEN cache'[key[r]].ttl >= LockTTL
           ELSE cache'[key[r]].ttl + timer[r] > MaxHold,
           UNCHANGED <<lock, key, timer, polled, unheard>>
    PROVE  ServiceInv'
  <1>0. /\ TypeOK /\ r \notin polled
        /\ reply \in [Requests -> [code : Codes, task : Requests \cup {None}]]
    BY Stepping
  <1>1. OthersStay(r) /\ pc'[r] = "release" /\ key'[r] = key[r]
    BY <1>0, OthersFrame
  <1>2. FailureStands(r) /\ Delivers(r) /\ Locks(r)
    BY <1>1 DEF FailureStands, Delivers, Publishes, Locks
  <1>3. FreshAt(r)' /\ WaiterAt(r)'
    BY <1>0, <1>1 DEF FreshAt, WaiterAt, GaveUp
  <1> QED
    BY <1>1, <1>2, <1>3, StepServes

LEMMA HandleServes ==
    ASSUME HoldersArePrompt, ResponsesLast, WaitersCanRead, Service, TypeOK',
           NEW r \in Requests, Handle(r)
    PROVE  ServiceInv'
  <1> DEFINE k == key[r]
  <1>0. /\ TypeOK /\ Works(r) /\ ~MayFail("read", r) /\ timer[r] \in Nat
        /\ pc[r] \in InFlight => k \in Keys
        /\ pc[r] \in InFlight \ {"wait"} => timer[r] <= MaxHold
        /\ pc[r] # "wait" => r \notin polled
        /\ pc[r] \in InFlight => cache[k].ttl \in 0..CacheTTL /\ lock[k] \in 0..LockTTL
        /\ reply \in [Requests -> [code : Codes, task : Requests \cup {None}]]
        /\ timer \in [Requests -> Nat] /\ lock \in [Keys -> 0..LockTTL]
        /\ cache \in [Keys -> [task : Requests \cup {None}, ttl : 0..CacheTTL]]
    BY Stepping
  <1>1. CASE Acquire(r)
    <2>1. /\ Goto(r, "recheck") /\ reply' = reply /\ timer' = [timer EXCEPT ![r] = 0]
          /\ polled' = polled /\ cache' = cache /\ key' = key /\ pc[r] = "acquire"
          /\ unheard' = unheard
          /\ lock' = [lock EXCEPT ![k] = LockTTL]
          /\ k \in Keys /\ timer[r] <= MaxHold /\ r \notin polled
          /\ cache[k].ttl \in 0..CacheTTL
      BY <1>0, <1>1 DEF Acquire, InFlight, Holding
    <2>2. OthersStay(r) /\ pc'[r] = "recheck" /\ key'[r] = k
      BY <1>0, <2>1, OthersFrame
    <2>3. Working(r, k)'
      BY <2>2 DEF Working
    <2>4. FailureStands(r) /\ Delivers(r) /\ Caches
      BY <2>1, <2>2 DEF FailureStands, Delivers, Caches
    <2>5. Locks(r)
      BY <1>0, <2>1, <2>3 DEF Locks
    <2>6. timer'[r] = 0
      BY <1>0, <2>1
    <2>7. FreshAt(r)'
      <3>1. cache[k].ttl > 0 => cache[k].ttl + timer[r] >= CacheTTL
        BY <2>1 DEF Service, ServiceInv, FreshAt
      <3> QED
        BY <1>0, <2>1, <2>2, <2>6, <3>1, Times DEF FreshAt
    <2>8. WaiterAt(r)'
      BY <2>1, <2>2 DEF WaiterAt, GaveUp
    <2> QED
      BY <2>2, <2>4, <2>5, <2>7, <2>8, StepServes
  <1>2. CASE RecheckMiss(r) \/ CreateTaskWithLog(r)
    <2>1. /\ Goto(r, "create") \/ Goto(r, "save")
          /\ reply' = reply /\ timer' = timer /\ polled' = polled /\ lock' = lock
          /\ unheard' = unheard
          /\ cache' = cache /\ key' = key /\ pc[r] \in {"recheck", "create"} /\ r \notin polled
      BY <1>0, <1>2 DEF RecheckMiss, CreateTaskWithLog, redis
    <2>2. OthersStay(r) /\ pc'[r] \in {"create", "save"} /\ key'[r] = k
      BY <1>0, <2>1, OthersFrame
    <2>3. FailureStands(r) /\ Delivers(r) /\ Caches /\ Locks(r)
      BY <2>1, <2>2 DEF FailureStands, Delivers, Caches, Locks
    <2>4. FreshAt(r)' /\ WaiterAt(r)'
      BY <2>1, <2>2 DEF FreshAt, WaiterAt, GaveUp
    <2> QED
      BY <2>2, <2>3, <2>4, StepServes
  <1>3. CASE AcquireFails(r)
    <2>1. /\ Outcome(r, "error", None) /\ Goto(r, "done") /\ pc[r] = "acquire"
          /\ cache' = cache /\ UNCHANGED <<key, timer, polled, unheard>>
      BY <1>3 DEF AcquireFails, Return, redis
    <2>2. Caches /\ \A j \in Keys : lock'[j] = lock[j] \/ j = key[r]
      BY <1>3, <2>1 DEF Caches, AcquireFails, redis
    <2> QED
      BY <2>1, <2>2, FailingServes
  <1>4. CASE RefuseAssignee(r)
    <2>1. /\ Outcome(r, "notInTeam", None) /\ Goto(r, "release") /\ pc[r] = "create"
          /\ cache' = cache /\ lock' = lock /\ UNCHANGED <<key, timer, polled, unheard>>
      BY <1>4 DEF RefuseAssignee, ReturnHolding, redis
    <2> QED
      BY <2>1, FailingServes DEF Caches
  <1>5. CASE CreateAckLost(r) \/ CreateFails(r) \/ SaveFails(r)
    <2>1. /\ Outcome(r, "error", None) /\ Goto(r, "release") /\ pc[r] \in {"create", "save"}
          /\ cache' = cache /\ lock' = lock /\ UNCHANGED <<key, timer, polled, unheard>>
      BY <1>5 DEF CreateAckLost, CreateFails, SaveFails, ReturnHolding, redis
    <2>2. Caches
      BY <2>1 DEF Caches
    <2> QED
      BY <2>1, <2>2, FailingServes
  <1>6. CASE RecheckHit(r)
    <2>1. /\ Outcome(r, "created", cache[k].task) /\ Goto(r, "release") /\ pc[r] = "recheck"
          /\ cache[k].ttl > 0 /\ cache' = cache /\ UNCHANGED <<lock, key, timer, polled, unheard>>
      BY <1>6 DEF RecheckHit, ReturnHolding, Hit, redis
    <2>2. cache[k].ttl + timer[r] + MaxHold >= CacheTTL
      BY <2>1 DEF Service, ServiceInv, FreshAt
    <2>3. timer[r] <= MaxHold /\ cache[k].ttl \in 0..CacheTTL
      BY <1>0, <2>1 DEF InFlight, Holding
    <2>4. IF "release" \in Faults THEN cache'[k].ttl >= LockTTL
          ELSE cache'[k].ttl + timer[r] > MaxHold
      BY <1>0, <2>1, <2>2, <2>3, Times DEF ResponsesLast
    <2> QED
      BY <2>1, <2>4, PublishingServes DEF Caches
  <1>7. CASE SaveResponse(r)
    <2>1. /\ Outcome(r, "created", r) /\ Goto(r, "release") /\ pc[r] = "save"
          /\ cache' = [cache EXCEPT ![k] = [task |-> r, ttl |-> CacheTTL]]
          /\ k \in Keys /\ UNCHANGED <<lock, key, timer, polled, unheard>>
      BY <1>0, <1>7 DEF SaveResponse, ReturnHolding, Store, InFlight, Holding
    <2>2. Caches /\ cache'[k].ttl = CacheTTL
      BY <1>0, <2>1 DEF Caches
    <2>3. IF "release" \in Faults THEN CacheTTL >= LockTTL ELSE CacheTTL + timer[r] > MaxHold
      BY <1>0, Times DEF ResponsesLast
    <2> QED
      BY <2>1, <2>2, <2>3, PublishingServes, Times
  <1> QED
    BY <1>1, <1>2, <1>3, <1>4, <1>5, <1>6, <1>7, QuietServes DEF Handle

(* A handler whose command took effect without its knowing.                *)
LEMMA UnheardServes ==
    ASSUME ResponsesLast, WaitersCanRead, Service, TypeOK', NEW r \in Requests, Unheard(r)
    PROVE  ServiceInv'
  <1>0. /\ TypeOK /\ (pc[r] # "wait" => r \notin polled)
        /\ pc[r] \in InFlight => key[r] \in Keys
        /\ lock \in [Keys -> 0..LockTTL]
        /\ cache \in [Keys -> [task : Requests \cup {None}, ttl : 0..CacheTTL]]
    BY Stepping
  <1>1. /\ pc' = pc /\ key' = key /\ timer' = timer /\ reply' = reply /\ polled' = polled
        /\ pc[r] \in {"acquire", "save", "release"}
        /\ unheard' \in {unheard, unheard \cup {r}}
    BY DEF Unheard, AcquireUnheard, SaveUnheard, ReleaseUnheard
  <1>2. OthersStay(r) /\ FailureStands(r)
    BY <1>1 DEF OthersStay, FailureStands
  <1>3. Caches
    BY <1>0 DEF Caches, Unheard, AcquireUnheard, SaveUnheard, ReleaseUnheard, Store
  <1>4. Delivers(r)
    BY <1>1 DEF Delivers
  <1>5. Locks(r)
    <2>1. CASE AcquireUnheard(r)
      <3>1. \A k \in Keys : lock'[k] = lock[k] \/ k = key[r]
        BY <1>0, <2>1 DEF AcquireUnheard
      <3>2. LetDown(key[r])'
        BY <1>1, <2>1 DEF LetDown, AcquireUnheard
      <3>3. LetDown(key[r])' => \A k \in Keys : k = key[r] => LetDown(k)'
        BY <1>1 DEF LetDown
      <3> QED
        BY <3>1, <3>2, <3>3 DEF Locks
    <2>2. CASE SaveUnheard(r)
      BY <2>2 DEF Locks, SaveUnheard
    <2>3. CASE ReleaseUnheard(r)
      BY <1>0, <2>3 DEF Locks, ReleaseUnheard
    <2> QED
      BY <2>1, <2>2, <2>3 DEF Unheard
  <1>6. FreshAt(r)'
    BY <1>1 DEF Unheard, AcquireUnheard, SaveUnheard, ReleaseUnheard, FreshAt, Service, ServiceInv
  <1>7. WaiterAt(r)'
    BY <1>0, <1>1 DEF WaiterAt, GaveUp
  <1> QED
    BY <1>2, <1>3, <1>4, <1>5, <1>6, <1>7, StepServes

LEMMA TickServes ==
    ASSUME HoldersArePrompt, ResponsesLast, WaitersCanRead, Service, TypeOK', Tick
    PROVE  ServiceInv'
  <1>0. /\ TypeOK /\ pc' = pc /\ key' = key /\ reply' = reply /\ polled' = {}
        /\ unheard' = unheard
    BY DEF Service, Tick
  <1>1. ASSUME NEW r \in Requests
        PROVE  /\ timer[r] \in Nat /\ timer'[r] \in Nat
               /\ timer'[r] <= timer[r] + 1
               /\ pc[r] \in InFlight \ {"wait"} => timer'[r] = timer[r] + 1
               /\ pc[r] \in InFlight \ {"wait"} => timer'[r] <= MaxHold
               /\ pc[r] \notin InFlight => timer'[r] = timer[r]
               /\ pc[r] = "wait" => r \in polled
               /\ pc[r] \in InFlight => key[r] \in Keys
    <2>1. timer[r] \in Nat /\ timer'[r] = Elapsed(r)
      BY <1>0 DEF TypeOK, Tick
    <2>2. Elapsed(r) <= timer[r] + 1
      BY <2>1, Times DEF Elapsed
    <2>3. pc[r] \in InFlight \ {"wait"} => timer[r] < MaxHold
      BY DEF Tick
    <2>4. pc[r] = "wait" => r \in polled
      BY DEF Tick
    <2>5. pc[r] \in InFlight => key[r] \in Keys
      BY <1>0 DEF TypeOK
    <2> QED
      BY <2>1, <2>2, <2>3, <2>4, <2>5, ElapsedFacts, Times
  <1>2. ASSUME NEW k \in Keys
        PROVE  /\ cache[k].ttl \in Nat /\ cache[k].ttl <= CacheTTL
               /\ cache'[k].ttl = Less(cache[k].ttl)
               /\ lock[k] \in Nat /\ lock'[k] = Less(lock[k])
    <2>1. cache[k].ttl \in Nat /\ cache'[k].ttl = Less(cache[k].ttl)
      BY <1>0, CacheAges
    <2>2. cache[k].ttl \in 0..CacheTTL /\ lock[k] \in 0..LockTTL
      BY <1>0, CacheType DEF TypeOK
    <2>3. lock'[k] = Less(lock[k])
      BY DEF Tick
    <2> QED
      BY <2>1, <2>2, <2>3, Times
  <1>3. ASSUME NEW k, LetDown(k)
        PROVE  LetDown(k)'
    <2>1. PICK q \in Requests : key[q] = k /\ (q \in unheard \/ Failed(q))
      BY <1>3 DEF LetDown
    <2>2. Failed(q) => timer'[q] <= MaxHold
      BY <1>1, <2>1 DEF Failed, InFlight, Holding
    <2> QED
      BY <1>0, <2>1, <2>2 DEF LetDown, Failed
  <1>4. ASSUME NEW k \in Keys
        PROVE  LockCovered(k)'
    <2> SUFFICES ASSUME lock'[k] > 0
                 PROVE  LetDown(k)' \/ (\E q \in Requests : Working(q, k)') \/ Outlives(k)'
      BY DEF LockCovered
    <2>1. lock[k] > 0
      BY <1>2 DEF Less
    <2>2. LetDown(k) \/ (\E q \in Requests : Working(q, k)) \/ Outlives(k)
      BY <2>1 DEF Service, ServiceInv, LockCovered
    <2>3. ASSUME NEW q \in Requests, Working(q, k)
          PROVE  Working(q, k)'
      BY <1>0, <2>3 DEF Working
    <2>4. ASSUME Outlives(k)
          PROVE  Outlives(k)'
      <3>1. CASE "release" \in Faults
        BY <1>2, <2>4, <3>1 DEF Outlives, Less
      <3>2. CASE "release" \notin Faults
        <4>1. PICK q \in Requests : /\ pc[q] = "release" /\ key[q] = k
                                    /\ cache[k].ttl + timer[q] > MaxHold
          BY <2>4, <3>2 DEF Outlives
        <4>2. timer'[q] = timer[q] + 1 /\ timer[q] \in Nat
          BY <1>1, <4>1 DEF InFlight, Holding
        <4>3. cache'[k].ttl + timer'[q] > MaxHold
          BY <1>2, <4>1, <4>2, Times DEF Less
        <4> QED
          BY <1>0, <3>2, <4>1, <4>3 DEF Outlives
      <3> QED
        BY <3>1, <3>2
    <2> QED
      BY <1>3, <2>2, <2>3, <2>4
  <1>5. ASSUME NEW r \in Requests
        PROVE  FreshAt(r)'
    <2>1. CASE pc[r] \in {"acquire", "recheck"}
      <3>1. key[r] \in Keys /\ timer'[r] = timer[r] + 1 /\ timer[r] \in Nat
        BY <1>1, <2>1 DEF InFlight, Holding
      <3>2. cache[key[r]].ttl \in Nat /\ cache'[key[r]].ttl = Less(cache[key[r]].ttl)
        BY <1>2, <3>1
      <3>3. FreshAt(r)
        BY DEF Service, ServiceInv
      <3> QED
        BY <1>0, <3>1, <3>2, <3>3, Times DEF FreshAt, Less
    <2>2. CASE pc[r] \notin {"acquire", "recheck"}
      BY <1>0, <2>2 DEF FreshAt
    <2> QED
      BY <2>1, <2>2
  <1>6. ASSUME NEW r \in Requests, pc[r] = "wait"
        PROVE  Promised(r)'
    <2>0. /\ key[r] \in Keys /\ r \in polled
          /\ timer[r] \in Nat /\ timer'[r] \in Nat /\ timer'[r] <= timer[r] + 1
      BY <1>1, <1>6 DEF InFlight
    <2>1. Promised(r) /\ (cache[key[r]].ttl > 0 => cache[key[r]].ttl = CacheTTL)
      BY <1>6, <2>0 DEF Service, ServiceInv, WaiterAt
    <2>2. CASE LetDown(key[r])
      BY <1>0, <1>3, <2>2 DEF Promised
    <2>3. ASSUME NEW q \in Requests, Working(q, key[r]), timer[r] <= timer[q]
          PROVE  Promised(r)'
      <3>1. timer'[q] = timer[q] + 1 /\ timer[q] \in Nat
        BY <1>1, <2>3 DEF Working, InFlight, Holding
      <3>2. Working(q, key[r])' /\ timer'[r] <= timer'[q]
        BY <1>0, <2>0, <2>3, <3>1 DEF Working
      <3> QED
        BY <3>2 DEF Promised
    <2>4. CASE cache[key[r]].ttl > 0 /\ timer[r] <= MaxHold
      <3>1. cache'[key[r]].ttl > 0
        BY <1>2, <2>0, <2>1, <2>4, Times DEF Less, ResponsesLast
      <3>2. timer'[r] <= MaxHold + 1
        BY <2>0, <2>4, Times
      <3> QED
        BY <1>0, <3>1, <3>2 DEF Promised
    <2> QED
      BY <2>0, <2>1, <2>2, <2>3, <2>4 DEF Promised
  <1>7. ASSUME NEW r \in Requests
        PROVE  WaiterAt(r)'
    <2>1. pc'[r] = "wait" => Promised(r)'
      BY <1>0, <1>6
    <2>2. GaveUp(r)' => LetDown(key[r])'
      <3> SUFFICES ASSUME GaveUp(r)' PROVE LetDown(key[r])'
        OBVIOUS
      <3>1. timer'[r] = timer[r]
        BY <1>0, <1>1 DEF GaveUp, InFlight, Holding
      <3>2. GaveUp(r)
        BY <1>0, <3>1 DEF GaveUp
      <3>3. LetDown(key[r])
        BY <3>2 DEF Service, ServiceInv, WaiterAt
      <3> QED
        BY <1>0, <1>3, <3>3
    <2>3. r \in unheard' => pc'[r] # "idle"
      BY <1>0 DEF Service, ServiceInv, WaiterAt
    <2> QED
      BY <1>0, <2>1, <2>2, <2>3 DEF WaiterAt
  <1> QED
    BY <1>4, <1>5, <1>7 DEF ServiceInv

LEMMA ServiceStep ==
    HoldersArePrompt /\ ResponsesLast /\ WaitersCanRead /\ Service /\ [Next]_vars => Service'
  <1> SUFFICES ASSUME HoldersArePrompt, ResponsesLast, WaitersCanRead, Service, [Next]_vars
               PROVE  Service'
    OBVIOUS
  <1>0. TypeOK /\ IdleTimers /\ TypeOK' /\ IdleTimers'
    BY TypedStep DEF Service
  <1>1. ~Crash /\ \A r \in Requests : ~Cancel(r)
    BY DEF Crash, Cancel, WaitersCanRead
  <1>2. ASSUME NEW r \in Requests, Reject(r) \/ \E k \in Keys : Receive(r, k)
        PROVE  ServiceInv' /\ cancelled' = cancelled
    <2>1. /\ pc[r] = "idle" /\ cache' = cache /\ lock' = lock /\ polled' = polled
          /\ timer' = timer /\ cancelled' = cancelled /\ unheard' = unheard
      BY <1>2 DEF Reject, Receive, redis
    <2>2. OthersStay(r)
      BY <1>0, <1>2, <2>1 DEF Reject, Receive, Return, Goto, Outcome, OthersStay, TypeOK
    <2>3. pc'[r] \in {"check", "done"} /\ (pc'[r] = "done" => reply'[r].code = "badRequest")
      BY <1>0, <1>2 DEF Reject, Receive, Return, Goto, Outcome, TypeOK
    <2>4. FailureStands(r) /\ Delivers(r) /\ Caches /\ Locks(r)
      BY <2>1 DEF FailureStands, Delivers, Caches, Locks
    <2>5. r \notin polled'
      BY <2>1, Stepping
    <2>6. FreshAt(r)' /\ WaiterAt(r)'
      BY <2>3, <2>5 DEF FreshAt, WaiterAt, GaveUp
    <2> QED
      BY <1>0, <2>1, <2>2, <2>4, <2>6, StepServes
  <1>3. ASSUME Tick
        PROVE  ServiceInv' /\ cancelled' = cancelled
    BY <1>0, <1>3, TickServes DEF Tick
  <1>4. ASSUME UNCHANGED vars
        PROVE  ServiceInv' /\ cancelled' = cancelled
    <2>1. /\ lock' = lock /\ cache' = cache /\ pc' = pc /\ key' = key /\ reply' = reply
          /\ timer' = timer /\ polled' = polled /\ cancelled' = cancelled
          /\ unheard' = unheard
      BY <1>4 DEF vars, redis
    <2> QED
      BY <2>1 DEF Service, ServiceInv, LockCovered, Outlives, FreshAt, WaiterAt, Promised, LetDown,
         Failed, Working, GaveUp
  <1>5. ASSUME NEW r \in Requests, Handle(r)
        PROVE  ServiceInv' /\ cancelled' = cancelled
    <2>1. cancelled' = cancelled
      BY <1>5 DEF Handle, CheckHit, CheckMiss, CheckFails, Acquire, AcquireLater,
         AcquireFails, PollHit, PollMiss, GiveUp, RecheckHit, RecheckMiss, RefuseAssignee,
         CreateTaskWithLog, CreateAckLost, CreateFails, SaveResponse, SaveFails, ReleaseLock,
         ReleaseFails
    <2> QED
      BY <1>0, <1>5, <2>1, HandleServes
  <1>6. ASSUME NEW r \in Requests, Unheard(r)
        PROVE  ServiceInv' /\ cancelled' = cancelled
    BY <1>0, <1>6, UnheardServes DEF Unheard, AcquireUnheard, SaveUnheard, ReleaseUnheard
  <1>7. ServiceInv' /\ cancelled' = cancelled
    BY <1>1, <1>2, <1>3, <1>4, <1>5, <1>6 DEF Next
  <1> QED
    BY <1>0, <1>7 DEF Service

(* Nobody waits in vain (DuplicatesServed): when a waiter gives up, some   *)
(* request with its key had failed or been refused, or a request, perhaps  *)
(* the waiter itself, had taken the lock without hearing of it.  Holders   *)
(* may be slower than the lock's lifetime, locking, saving, releasing and  *)
(* committing may fail, and their commands may be sent again; prompt       *)
(* holders, lasting responses and a readable cache are needed.             *)
THEOREM WaitersAreServed ==
    ASSUME HoldersArePrompt, ResponsesLast, WaitersCanRead
    PROVE  Spec => []DuplicatesServed
  <1>1. ASSUME Service
        PROVE  DuplicatesServed
    <2> SUFFICES ASSUME NEW r \in Requests, GaveUp(r)
                 PROVE  \E q \in Requests :
                            /\ key[q] = key[r]
                            /\ \/ q \in unheard
                               \/ ~GaveUp(q) /\ reply[q].code \in {"error", "notInTeam"}
      BY DEF DuplicatesServed
    <2>1. LetDown(key[r])
      BY <1>1 DEF Service, ServiceInv, WaiterAt
    <2>2. PICK q \in Requests : key[q] = key[r] /\ (q \in unheard \/ Failed(q))
      BY <2>1 DEF LetDown
    <2>3. Failed(q) => timer[q] # WaitTime /\ reply[q].code \in {"error", "notInTeam"}
      BY <1>1, Times DEF HoldersArePrompt, Failed, Service, TypeOK
    <2> QED
      BY <2>2, <2>3 DEF GaveUp
  <1>2. Service /\ [Next]_vars => Service'
    BY ServiceStep
  <1> QED
    BY <1>1, <1>2, InitService, PTL DEF Spec
=============================================================================
