---------------------------- MODULE LifecycleProofs ----------------------------
(***************************************************************************)
(* Proofs about Lifecycle and the Pipeline in it, for any set of requests  *)
(* and of handlers.                                                        *)
(***************************************************************************)
EXTENDS Lifecycle, TLAPS

-----------------------------------------------------------------------------
(* Errors.                                                                 *)

(* The outermost domain error among the layers is the one that is found.   *)
LEMMA WrapFindsFirst ==
    ASSUME NEW err, NEW template, NEW k \in DOMAIN err, DOMAIN err \subseteq Nat,
           err[k] \in AppErrors,
           \A i \in DOMAIN err : i < k => err[i] \notin AppErrors
    PROVE  Wrap(template, err) = err[k]
  <1> DEFINE found == {i \in DOMAIN err : err[i] \in AppErrors}
  <1>1. k \in found /\ \A i \in found : k <= i
    OBVIOUS
  <1>2. Min(found) = k
    <2>1. \A x \in found : (\A y \in found : x <= y) => x = k
      BY <1>1
    <2> HIDE DEF found
    <2> QED
      BY <1>1, <2>1, Zenon DEF Min
  <1> QED
    BY <1>1, <1>2 DEF Wrap

LEMMA WrapWithout ==
    ASSUME NEW err, NEW template, \A i \in DOMAIN err : err[i] \notin AppErrors
    PROVE  Wrap(template, err) = template
  BY DEF Wrap

(* A domain error keeps its own status, wrapped or not; an error that is   *)
(* none is internal.                                                       *)
LEMMA AnswerToDomainError ==
    ASSUME NEW e \in AppErrors
    PROVE  /\ AnswerTo(<<e>>) = StatusOf(e)
           /\ AnswerTo(<<"text", e>>) = StatusOf(e)
  <1>1. \A x \in AppErrors : Wrap("internal", <<x>>) = x
    <2> SUFFICES ASSUME NEW x \in AppErrors PROVE Wrap("internal", <<x>>) = x
      OBVIOUS
    <2> DEFINE err == <<x>>
    <2>1. DOMAIN err = {1} /\ err[1] = x
      OBVIOUS
    <2> HIDE DEF err
    <2>2. Wrap("internal", err) = err[1]
      BY <2>1, WrapFindsFirst
    <2> QED
      BY <2>1, <2>2 DEF err
  <1>2. Wrap("internal", <<"text", e>>) = e
    <2> DEFINE err == <<"text", e>>
    <2>1. DOMAIN err = {1, 2} /\ err[1] = "text" /\ err[2] = e
      OBVIOUS
    <2>2. "text" \notin AppErrors
      BY DEF AppErrors
    <2> HIDE DEF err
    <2>3. Wrap("internal", err) = err[2]
      BY <2>1, <2>2, WrapFindsFirst
    <2> QED
      BY <2>1, <2>3 DEF err
  <1> QED
    BY <1>1, <1>2 DEF AnswerTo

LEMMA AnswerToForeignError == AnswerTo(<<"text", "foreign">>) = StatusOf("internal")
  <1>1. Wrap("internal", <<"text", "foreign">>) = "internal"
    <2> DEFINE err == <<"text", "foreign">>
    <2>1. DOMAIN err = {1, 2} /\ err[1] = "text" /\ err[2] = "foreign"
      OBVIOUS
    <2>2. "text" \notin AppErrors /\ "foreign" \notin AppErrors
      BY DEF AppErrors
    <2> HIDE DEF err
    <2>3. Wrap("internal", err) = "internal"
      BY <2>1, <2>2, WrapWithout
    <2> QED
      BY <2>3 DEF err
  <1>2. Wrap("internal", <<"internal">>) = "internal"
    <2> DEFINE err == <<"internal">>
    <2>1. DOMAIN err = {1} /\ err[1] = "internal" /\ "internal" \in AppErrors
      BY DEF AppErrors
    <2> HIDE DEF err
    <2>2. Wrap("internal", err) = err[1]
      BY <2>1, WrapFindsFirst
    <2> QED
      BY <2>1, <2>2 DEF err
  <1> QED
    BY <1>1, <1>2 DEF AnswerTo

LEMMA StatusOfType == \A e : StatusOf(e) \in Statuses
  BY DEF StatusOf, Statuses

LEMMA SuccessStatusType == \A h : SuccessStatus(h) \in Statuses
  BY DEF SuccessStatus, Statuses

(* The recovery returns through the logger, which is outside it.           *)
LEMMA RecoveryLogs == LogsAfterRecovery
  BY DEF LogsAfterRecovery, Middlewares

-----------------------------------------------------------------------------
(* The inductive invariant.                                                *)

(* What a request's state says about its handler's calls, its cause and    *)
(* its answer.                                                             *)
RequestAt(r) ==
    /\ pc[r] = "idle" => used[r] = 0 /\ cause[r] = None /\ report[r] = {}
    /\ pc[r] = "unwind" => cause[r] = "panic"
    /\ pc[r] \in {"log", "flush", "done"} =>
          status[r] = IF cause[r] = "ok" THEN SuccessStatus(handler[r]) ELSE StatusOf(cause[r])
    /\ pc[r] \in {"flush", "done"} => line[r] = status[r]
    /\ cause[r] = "panic" => ~production
    /\ handler[r] = "CreateTask" /\ used[r] > 0 => adapter["redis"] # "nil"
    /\ handler[r] = "Login" /\ used[r] > 1 => adapter["redis"] # "nil"
    /\ handler[r] \in {"CreateTask", "Login"} /\ cause[r] = "ok" => adapter["redis"] # "nil"
    /\ \A a \in report[r] : adapter[a] # "nil"

RequestInv == used \in [Requests -> Nat] /\ \A r \in Requests : RequestAt(r)

(* What main's position says about the listener, the adapters and the      *)
(* requests: nobody is served before main waits, no connection is accepted *)
(* once it stopped waiting, and it closes nothing while somebody is served.*)
ProcessInv ==
    /\ main \in Adapters \cup {"wire"} => listener = "none"
    /\ listener = "none" => \A r \in Requests : pc[r] = "idle"
    /\ listener = "open" => main = "wait"
    /\ production /\ main # "db" => adapter["db"] # "nil"
    /\ main \in {"closeRedis", "closeDb"} => \A r \in Requests : pc[r] \in {"idle", "done"}
    /\ (\E a \in Adapters : adapter[a] = "closed") => main = "closeDb"
    /\ main = "closeDb" => adapter["redis"] # "open"
    /\ (\E r \in Requests : pc[r] = "lost") => exit # "none"
    /\ exit = "clean" => main = "closeDb" /\ adapter["db"] # "open"

LInv == TypeOK /\ RequestInv /\ ProcessInv

(* What the handlers call.                                                 *)
LEMMA CallsFacts ==
    /\ \A h \in Handlers : Len(Calls(h)) \in 0..3
    /\ \A h \in Handlers : \A i \in 1..Len(Calls(h)) : Calls(h)[i] \in Adapters
    /\ Len(Calls("CreateTask")) = 3 /\ Calls("CreateTask")[1] = "redis"
    /\ Len(Calls("Login")) = 2 /\ Calls("Login")[2] = "redis"
  <1>1. Calls("CreateTask") = <<"redis", "db", "redis">>
    BY DEF Calls, Open, CreateCalls
  <1>2. Calls("Login") = <<"db", "redis">>
    BY DEF Calls, Open
  <1>3. \A h \in Handlers : Calls(h) \in {<<>>, <<"redis", "db", "redis">>, <<"db", "redis">>,
                                          <<"db">>}
    BY DEF Calls, CreateCalls
  <1>4. /\ Len(<<>>) = 0 /\ Len(<<"redis", "db", "redis">>) = 3 /\ Len(<<"db", "redis">>) = 2
        /\ Len(<<"db">>) = 1
        /\ \A i \in 1..3 : <<"redis", "db", "redis">>[i] \in Adapters
        /\ \A i \in 1..2 : <<"db", "redis">>[i] \in Adapters
        /\ \A i \in 1..1 : <<"db">>[i] \in Adapters
    BY DEF Adapters
  <1>5. ASSUME NEW h \in Handlers
        PROVE  /\ Len(Calls(h)) \in 0..3
               /\ \A i \in 1..Len(Calls(h)) : Calls(h)[i] \in Adapters
    <2>1. CASE Calls(h) = <<>>
      BY <1>4, <2>1
    <2>2. CASE Calls(h) = <<"redis", "db", "redis">>
      BY <1>4, <2>2
    <2>3. CASE Calls(h) = <<"db", "redis">>
      BY <1>4, <2>3
    <2>4. CASE Calls(h) = <<"db">>
      BY <1>4, <2>4
    <2> QED
      BY <1>3, <2>1, <2>2, <2>3, <2>4
  <1> QED
    BY <1>1, <1>2, <1>4, <1>5

LEMMA InitLInv == Init => LInv
  <1> SUFFICES ASSUME Init PROVE LInv
    OBVIOUS
  <1>1. TypeOK
    <2>1. /\ main \in Adapters /\ listener = "none" /\ exit = "none"
          /\ production \in BOOLEAN /\ signalled \in BOOLEAN
          /\ adapter \in [Adapters -> {"nil", "open", "closed"}]
      BY DEF Init, Adapters
    <2>2. /\ pc \in [Requests -> InFlight \cup {"idle", "done", "lost"}]
          /\ \A r \in Requests : pc[r] \notin InFlight
      BY DEF Init, PipelineInit, InFlight
    <2>3. /\ handler \in [Requests -> Called \cup {None}]
          /\ cause \in [Requests -> AppErrors \cup {"ok", "panic", None}]
          /\ status \in [Requests -> Statuses \cup {0}]
          /\ line \in [Requests -> Statuses \cup {0}]
          /\ report \in [Requests -> SUBSET Adapters]
      BY DEF Init, PipelineInit
    <2> QED
      BY <2>1, <2>2, <2>3 DEF TypeOK
  <1>2. RequestInv
    BY NoneAssumption DEF Init, PipelineInit, RequestInv, RequestAt, Handlers, Bearer, Basic
  <1>3. ProcessInv
    BY DEF Init, PipelineInit, ProcessInv, Adapters
  <1> QED
    BY <1>1, <1>2, <1>3 DEF LInv

(* A step of main that leaves the requests alone and loses no adapter.     *)
LEMMA MainKeepsRequests ==
    ASSUME RequestInv, UNCHANGED <<requestVars, production>>,
           \A a : adapter'[a] = "nil" => adapter[a] = "nil"
    PROVE  RequestInv'
  BY DEF RequestInv, RequestAt, requestVars

(* The process ends: whoever is served is lost.                            *)
LEMMA EndKeeps ==
    ASSUME LInv, NEW how \in {"fatal", "killed"}, End(how),
           UNCHANGED <<adapter, production, main, listener, signalled>>
    PROVE  LInv'
  <1>1. TypeOK'
    BY DEF LInv, TypeOK, End, InFlight
  <1>2. RequestInv'
    BY DEF LInv, TypeOK, RequestInv, RequestAt, End, InFlight
  <1>3. ProcessInv'
    BY DEF LInv, TypeOK, ProcessInv, End, InFlight
  <1> QED
    BY <1>1, <1>2, <1>3 DEF LInv

LEMMA ConnectKeeps ==
    ASSUME LInv, NEW a \in Adapters, Connect(a) \/ ConnectFails(a)
    PROVE  LInv'
  <1>0. After(a) \in Adapters \cup {"wire"} /\ After(a) # "db"
    BY DEF After, Adapters
  <1>1. CASE Connect(a)
    <2>1. TypeOK'
      BY <1>0, <1>1 DEF LInv, TypeOK, Connect, Proceed, requestVars
    <2>2. RequestInv'
      BY <1>1, MainKeepsRequests DEF LInv, TypeOK, Connect
    <2>3. ProcessInv'
      BY <1>0, <1>1 DEF LInv, TypeOK, ProcessInv, Connect, Proceed, requestVars, Adapters
    <2> QED
      BY <2>1, <2>2, <2>3 DEF LInv
  <1>2. CASE ConnectFails(a)
    <2>1. CASE /\ production /\ End("fatal")
               /\ UNCHANGED <<adapter, production, main, listener, signalled>>
      BY <2>1, EndKeeps
    <2>2. CASE /\ main = a /\ ~production /\ Proceed(After(a))
               /\ UNCHANGED <<adapter, requestVars, production, listener, signalled, exit>>
      <3>1. TypeOK'
        BY <1>0, <2>2 DEF LInv, TypeOK, Proceed, requestVars
      <3>2. RequestInv'
        BY <2>2, MainKeepsRequests DEF LInv
      <3>3. ProcessInv'
        BY <1>0, <2>2 DEF LInv, TypeOK, ProcessInv, Proceed, requestVars, Adapters
      <3> QED
        BY <3>1, <3>2, <3>3 DEF LInv
    <2> QED
      BY <1>2, <2>1, <2>2 DEF ConnectFails
  <1> QED
    BY <1>1, <1>2

(* Starting the listener, receiving a signal and draining.                 *)
LEMMA ListenerKeeps ==
    ASSUME LInv, exit = "none",
           Wire \/ Listen \/ ListenTooLate \/ Signal \/ Shutdown \/ Drained
    PROVE  LInv'
  <1>1. TypeOK'
    BY DEF LInv, TypeOK, Wire, Listen, ListenTooLate, Signal, Shutdown, Drained, Proceed,
       requestVars
  <1>2. RequestInv'
    BY MainKeepsRequests DEF LInv, Wire, Listen, ListenTooLate, Signal, Shutdown, Drained
  <1>3. ProcessInv'
    <2>1. /\ requestVars' = requestVars /\ adapter' = adapter /\ production' = production
          /\ exit' = exit /\ pc' = pc
      BY DEF Wire, Listen, ListenTooLate, Signal, Shutdown, Drained, requestVars
    <2>2. CASE Wire
      BY <2>1, <2>2 DEF LInv, ProcessInv, Wire, Proceed, Adapters
    <2>3. CASE Listen \/ ListenTooLate \/ Signal
      BY <2>1, <2>3 DEF LInv, ProcessInv, Listen, ListenTooLate, Signal, Adapters
    <2>4. CASE Shutdown
      BY <2>1, <2>4 DEF LInv, ProcessInv, Shutdown, Proceed, Adapters
    <2>5. CASE Drained
      <3>1. \A r \in Requests : pc[r] \in {"idle", "done"}
        BY <2>5 DEF LInv, TypeOK, ProcessInv, Drained
      <3> QED
        BY <2>1, <2>5, <3>1 DEF LInv, ProcessInv, Drained, Proceed, Adapters
    <2> QED
      BY <2>2, <2>3, <2>4, <2>5
  <1> QED
    BY <1>1, <1>2, <1>3 DEF LInv

LEMMA CloseKeeps ==
    ASSUME LInv, exit = "none", CloseRedis \/ CloseDb
    PROVE  LInv'
  <1>1. CASE CloseRedis
    <2>1. TypeOK'
      BY <1>1 DEF LInv, TypeOK, CloseRedis, Close, Proceed, requestVars, Adapters
    <2>2. RequestInv'
      BY <1>1, MainKeepsRequests DEF LInv, TypeOK, CloseRedis, Close
    <2>3. ProcessInv'
      BY <1>1 DEF LInv, TypeOK, ProcessInv, CloseRedis, Close, Proceed, requestVars, Adapters
    <2> QED
      BY <2>1, <2>2, <2>3 DEF LInv
  <1>2. CASE CloseDb
    <2>1. \A r \in Requests : pc[r] \in {"idle", "done"}
      BY <1>2 DEF LInv, ProcessInv, CloseDb
    <2>2. pc' = pc
      BY <1>2, <2>1 DEF LInv, TypeOK, CloseDb, End, InFlight
    <2>3. UNCHANGED requestVars
      BY <1>2, <2>2 DEF CloseDb, End, requestVars
    <2>4. TypeOK'
      BY <1>2, <2>3 DEF LInv, TypeOK, CloseDb, Close, End, requestVars, Adapters
    <2>5. RequestInv'
      BY <1>2, <2>3, MainKeepsRequests DEF LInv, TypeOK, CloseDb, Close
    <2>6. ProcessInv'
      BY <1>2, <2>1, <2>2 DEF LInv, TypeOK, ProcessInv, CloseDb, Close, End, Adapters
    <2> QED
      BY <2>4, <2>5, <2>6 DEF LInv
  <1> QED
    BY <1>1, <1>2

-----------------------------------------------------------------------------
(* The requests' steps.                                                    *)

(* A step of one request is none of the others'.                           *)
LEMMA RequestStep ==
    ASSUME RequestInv, NEW r \in Requests, UNCHANGED <<adapter, mainVars>>,
           \A q \in Requests \ {r} :
               /\ pc'[q] = pc[q] /\ handler'[q] = handler[q] /\ used'[q] = used[q]
               /\ cause'[q] = cause[q] /\ status'[q] = status[q] /\ line'[q] = line[q]
               /\ report'[q] = report[q],
           used' \in [Requests -> Nat], RequestAt(r)'
    PROVE  RequestInv'
  BY DEF RequestInv, RequestAt, mainVars

LEMMA RequestTypes ==
    ASSUME LInv, NEW r \in Requests, pc[r] \in InFlight,
           NEW label \in InFlight \cup {"done"}, pc' = [pc EXCEPT ![r] = label],
           UNCHANGED <<adapter, handler, used, line>>, UNCHANGED mainVars,
           cause' \in [Requests -> AppErrors \cup {"ok", "panic", None}],
           status' \in [Requests -> Statuses \cup {0}],
           report' \in [Requests -> SUBSET Adapters]
    PROVE  TypeOK'
  <1>1. pc' \in [Requests -> InFlight \cup {"idle", "done", "lost"}]
    BY DEF LInv, TypeOK
  <1>2. \A q \in Requests : pc'[q] \in InFlight => pc[q] \in InFlight
    BY DEF LInv, TypeOK
  <1> QED
    BY <1>1, <1>2 DEF LInv, TypeOK, mainVars

(* A request that moves on, or has its answer, is no business of main's.   *)
LEMMA ProcessKept ==
    ASSUME LInv, NEW r \in Requests, UNCHANGED <<adapter, mainVars>>,
           pc[r] \in InFlight \/ listener = "open",
           NEW label \in InFlight \cup {"done"}, pc' = [pc EXCEPT ![r] = label]
    PROVE  ProcessInv'
  BY DEF LInv, TypeOK, ProcessInv, mainVars, InFlight

LEMMA ArriveKeeps ==
    ASSUME LInv, NEW r \in Requests, NEW h \in Called, listener = "open", Arrive(r, h),
           UNCHANGED mainVars
    PROVE  LInv'
  <1>1. Len(Calls(h)) \in 0..3
    BY CalledAssumption, CallsFacts
  <1>2. TypeOK'
    BY <1>1 DEF LInv, TypeOK, RequestInv, RequestAt, Arrive, Goto, mainVars, InFlight
  <1>3. RequestInv'
    <2>1. RequestAt(r)'
      BY NoneAssumption DEF LInv, TypeOK, RequestInv, RequestAt, Arrive, Goto, mainVars
    <2> QED
      BY <2>1, RequestStep DEF LInv, TypeOK, RequestInv, Arrive, Goto
  <1>4. ProcessInv'
    BY ProcessKept DEF Arrive, Goto, InFlight
  <1> QED
    BY <1>2, <1>3, <1>4 DEF LInv

LEMMA GuardKeeps ==
    ASSUME LInv, NEW r \in Requests, GuardRefuses(r) \/ GuardPasses(r), UNCHANGED mainVars
    PROVE  LInv'
  <1>1. CASE GuardRefuses(r)
    <2>1. /\ cause' = [cause EXCEPT ![r] = "unauthorized"] /\ status' = [status EXCEPT ![r] = 401]
          /\ pc[r] \in InFlight /\ pc' = [pc EXCEPT ![r] = "log"]
          /\ UNCHANGED <<adapter, handler, used, line, report>>
      BY <1>1 DEF GuardRefuses, Goto, InFlight
    <2>2. /\ cause' \in [Requests -> AppErrors \cup {"ok", "panic", None}]
          /\ status' \in [Requests -> Statuses \cup {0}]
          /\ report' \in [Requests -> SUBSET Adapters]
      BY <2>1 DEF LInv, TypeOK, AppErrors, Statuses
    <2>3. TypeOK' /\ ProcessInv'
      BY <2>1, <2>2, RequestTypes, ProcessKept DEF InFlight
    <2>4. RequestAt(r)'
      <3>1. /\ cause'[r] = "unauthorized" /\ status'[r] = 401 /\ pc'[r] = "log"
            /\ StatusOf("unauthorized") = 401
        BY <2>1 DEF LInv, TypeOK, StatusOf
      <3> QED
        BY <2>1, <3>1 DEF LInv, RequestInv, RequestAt
    <2> QED
      BY <2>1, <2>3, <2>4, RequestStep DEF LInv, TypeOK, RequestInv
  <1>2. CASE GuardPasses(r)
    <2>1. /\ pc[r] \in InFlight /\ pc' = [pc EXCEPT ![r] = "handler"]
          /\ UNCHANGED <<adapter, handler, used, cause, status, line, report>>
      BY <1>2 DEF GuardPasses, Goto, InFlight
    <2>2. TypeOK' /\ ProcessInv'
      BY <2>1, RequestTypes, ProcessKept DEF LInv, TypeOK, InFlight
    <2>3. RequestAt(r)'
      BY <2>1 DEF LInv, TypeOK, RequestInv, RequestAt, mainVars
    <2> QED
      BY <2>1, <2>2, <2>3, RequestStep DEF LInv, TypeOK, RequestInv
  <1> QED
    BY <1>1, <1>2

LEMMA CallWorksKeeps ==
    ASSUME LInv, NEW r \in Requests, CallWorks(r), UNCHANGED mainVars
    PROVE  LInv'
  <1>1. /\ pc[r] = "handler" /\ handler[r] \in Called /\ handler[r] \in Handlers
        /\ used[r] \in Nat /\ used[r] < Len(Calls(handler[r]))
        /\ adapter[Calls(handler[r])[used[r] + 1]] = "open"
        /\ used' = [used EXCEPT ![r] = @ + 1]
        /\ UNCHANGED <<adapter, pc, handler, cause, status, line, report, mainVars>>
    BY CalledAssumption DEF CallWorks, Calling, NextCall, LInv, TypeOK, RequestInv, RequestAt, InFlight
  <1>2. Len(Calls(handler[r])) \in 0..3
    BY <1>1, CallsFacts
  <1>3. TypeOK'
    BY <1>1, <1>2 DEF LInv, TypeOK, RequestInv, RequestAt, mainVars
  <1>4. /\ handler[r] = "CreateTask" /\ used[r] = 0 => adapter["redis"] = "open"
        /\ handler[r] = "Login" /\ used[r] = 1 => adapter["redis"] = "open"
    BY <1>1, CallsFacts
  <1>5. RequestInv'
    <2>1. used' \in [Requests -> Nat] /\ used'[r] = used[r] + 1
      BY <1>1 DEF LInv, RequestInv, RequestAt
    <2>2. \A q \in Requests \ {r} : used'[q] = used[q]
      BY <1>1 DEF LInv, RequestInv, RequestAt
    <2>3. /\ handler[r] = "CreateTask" /\ used'[r] > 0 => adapter["redis"] # "nil"
          /\ handler[r] = "Login" /\ used'[r] > 1 => adapter["redis"] # "nil"
      BY <1>1, <1>4, <2>1 DEF LInv, RequestInv, RequestAt
    <2> QED
      BY <1>1, <2>1, <2>2, <2>3 DEF LInv, RequestInv, RequestAt, mainVars
  <1>6. ProcessInv'
    BY <1>1 DEF LInv, ProcessInv, mainVars
  <1> QED
    BY <1>3, <1>5, <1>6 DEF LInv

(* A handler that succeeds has met every adapter that its calls need.      *)
LEMMA SucceedKeeps ==
    ASSUME LInv, NEW r \in Requests, Succeed(r), UNCHANGED mainVars
    PROVE  LInv'
  <1>1. /\ pc[r] = "handler" /\ handler[r] \in Handlers /\ Complete(r)
        /\ cause' = [cause EXCEPT ![r] = "ok"]
        /\ status' = [status EXCEPT ![r] = SuccessStatus(handler[r])]
        /\ pc' = [pc EXCEPT ![r] = "log"]
        /\ UNCHANGED <<adapter, handler, used, line>> /\ UNCHANGED mainVars
    BY CalledAssumption DEF Succeed, Goto, LInv, TypeOK, InFlight
  <1>2. PICK connected \in SUBSET {a \in Adapters : adapter[a] = "open"} :
            report' = [report EXCEPT ![r] = connected] \/ report' = report
    BY DEF Succeed
  <1>3. /\ report' \in [Requests -> SUBSET Adapters]
        /\ \A q \in Requests \ {r} : report'[q] = report[q]
        /\ \A a \in report'[r] : adapter[a] # "nil"
    BY <1>2 DEF LInv, TypeOK, RequestInv, RequestAt
  <1>4. handler[r] \in {"CreateTask", "Login"} => adapter["redis"] # "nil"
    <2>1. CASE used[r] = Len(Calls(handler[r]))
      BY <1>1, <2>1, CallsFacts DEF LInv, RequestInv, RequestAt
    <2>2. CASE handler[r] = "CreateTask" /\ used[r] = 1
      BY <2>2 DEF LInv, RequestInv, RequestAt
    <2> QED
      BY <1>1, <2>1, <2>2 DEF Complete
  <1>5. TypeOK'
    <2>1. cause' \in [Requests -> AppErrors \cup {"ok", "panic", None}]
      BY <1>1 DEF LInv, TypeOK
    <2>2. status' \in [Requests -> Statuses \cup {0}]
      BY <1>1, SuccessStatusType DEF LInv, TypeOK
    <2> QED
      BY <1>1, <1>3, <2>1, <2>2, RequestTypes DEF InFlight
  <1>6. RequestInv'
    <2>1. RequestAt(r)'
      BY <1>1, <1>3, <1>4 DEF LInv, TypeOK, RequestInv, RequestAt, mainVars
    <2> QED
      BY <1>1, <1>3, <2>1, RequestStep DEF LInv, TypeOK, RequestInv
  <1>7. ProcessInv'
    BY <1>1, ProcessKept DEF InFlight
  <1> QED
    BY <1>5, <1>6, <1>7 DEF LInv

(* An error's status tells its cause.                                      *)
LEMMA FailKeeps ==
    ASSUME LInv, NEW r \in Requests, pc[r] = "handler", NEW why \in AppErrors, NEW err,
           AnswerTo(err) = StatusOf(why), Fail(r, why, err), UNCHANGED mainVars
    PROVE  LInv'
  <1>1. /\ cause' = [cause EXCEPT ![r] = why] /\ status' = [status EXCEPT ![r] = StatusOf(why)]
        /\ pc' = [pc EXCEPT ![r] = "log"]
        /\ UNCHANGED <<adapter, handler, used, line, report, mainVars>>
    BY DEF Fail, Goto
  <1>2. StatusOf(why) \in Statuses /\ why # "ok" /\ why # "panic"
    BY StatusOfType DEF AppErrors
  <1>3. TypeOK'
    <2>1. /\ cause' \in [Requests -> AppErrors \cup {"ok", "panic", None}]
          /\ status' \in [Requests -> Statuses \cup {0}]
          /\ report' \in [Requests -> SUBSET Adapters]
      BY <1>1, <1>2 DEF LInv, TypeOK
    <2> QED
      BY <1>1, <2>1, RequestTypes DEF InFlight
  <1>4. RequestInv'
    BY <1>1, <1>2 DEF LInv, TypeOK, RequestInv, RequestAt, mainVars
  <1>5. ProcessInv'
    BY <1>1, ProcessKept DEF InFlight
  <1> QED
    BY <1>3, <1>4, <1>5 DEF LInv

LEMMA RefuseKeeps ==
    ASSUME LInv, NEW r \in Requests, CallFails(r) \/ Refuse(r), UNCHANGED mainVars
    PROVE  LInv'
  <1>1. CASE CallFails(r)
    BY <1>1, AnswerToForeignError, FailKeeps DEF CallFails, Calling, AppErrors
  <1>2. CASE Refuse(r)
    BY <1>2, AnswerToDomainError, FailKeeps DEF Refuse
  <1> QED
    BY <1>1, <1>2

(* In production a served request finds its database.                      *)
LEMMA PanicKeeps ==
    ASSUME LInv, NEW r \in Requests, CallPanics(r) \/ Recover(r), UNCHANGED mainVars
    PROVE  LInv'
  <1>1. CASE CallPanics(r)
    <2>1. ~production
      BY <1>1 DEF LInv, ProcessInv, CallPanics, Calling, Adapters
    <2>2. TypeOK'
      BY <1>1 DEF LInv, TypeOK, CallPanics, Calling, Goto, mainVars, InFlight
    <2>3. RequestInv'
      BY <1>1, <2>1 DEF LInv, TypeOK, RequestInv, RequestAt, CallPanics, Calling, Goto, mainVars
    <2>4. ProcessInv'
      BY <1>1, ProcessKept DEF CallPanics, Calling, Goto, InFlight
    <2> QED
      BY <2>2, <2>3, <2>4 DEF LInv
  <1>2. CASE Recover(r)
    <2>1. /\ pc[r] = "unwind" /\ pc' = [pc EXCEPT ![r] = "log"]
          /\ status' = [status EXCEPT ![r] = 500]
          /\ UNCHANGED <<adapter, handler, used, cause, line, report, mainVars>>
      BY <1>2, RecoveryLogs DEF Recover, Goto
    <2>2. cause[r] = "panic" /\ StatusOf("panic") = 500
      BY <2>1 DEF LInv, RequestInv, RequestAt, StatusOf
    <2>3. TypeOK'
      BY <2>1 DEF LInv, TypeOK, mainVars, InFlight, Statuses
    <2>4. RequestInv'
      BY <2>1, <2>2 DEF LInv, TypeOK, RequestInv, RequestAt, mainVars
    <2>5. ProcessInv'
      BY <2>1, ProcessKept DEF InFlight
    <2> QED
      BY <2>3, <2>4, <2>5 DEF LInv
  <1> QED
    BY <1>1, <1>2

LEMMA AnswerKeeps ==
    ASSUME LInv, NEW r \in Requests, Log(r) \/ Flush(r), UNCHANGED mainVars
    PROVE  LInv'
  <1>1. TypeOK'
    BY DEF LInv, TypeOK, Log, Flush, Goto, mainVars, InFlight
  <1>2. RequestInv'
    BY DEF LInv, TypeOK, RequestInv, RequestAt, Log, Flush, Goto, mainVars
  <1>3. ProcessInv'
    BY ProcessKept DEF Log, Flush, Goto, InFlight
  <1> QED
    BY <1>1, <1>2, <1>3 DEF LInv

LEMMA LInvStep == LInv /\ [Next]_vars => LInv'
  <1> SUFFICES ASSUME LInv, [Next]_vars PROVE LInv'
    OBVIOUS
  <1>1. CASE UNCHANGED vars
    BY <1>1 DEF vars, mainVars, requestVars, LInv, TypeOK, RequestInv, RequestAt, ProcessInv
  <1>2. CASE exit = "none" /\ MainStep
    <2>1. CASE NewPostgres \/ NewRedis \/ NewS3
      BY <2>1, ConnectKeeps DEF NewPostgres, NewRedis, NewS3, Adapters
    <2>2. CASE DrainTimeout
      BY <2>2, EndKeeps DEF DrainTimeout
    <2> QED
      BY <1>2, <2>1, <2>2, ListenerKeeps, CloseKeeps DEF MainStep
  <1>3. CASE exit = "none" /\ (Listen \/ ListenFails \/ ListenTooLate \/ Signal \/ Kill)
    <2>1. CASE ListenFails
      BY <2>1, EndKeeps DEF ListenFails
    <2>2. CASE Kill
      BY <2>2, EndKeeps DEF Kill
    <2> QED
      BY <1>3, <2>1, <2>2, ListenerKeeps
  <1>4. ASSUME NEW r \in Requests, Requesting(r)
        PROVE  LInv'
    <2>1. UNCHANGED mainVars
      BY <1>4 DEF Requesting
    <2>2. CASE listener = "open" /\ \E h \in Called : Arrive(r, h)
      BY <2>1, <2>2, ArriveKeeps
    <2>3. CASE Serve(r)
      BY <2>1, <2>3, GuardKeeps, CallWorksKeeps, SucceedKeeps, RefuseKeeps, PanicKeeps,
         AnswerKeeps DEF Serve
    <2> QED
      BY <1>4, <2>2, <2>3 DEF Requesting
  <1> QED
    BY <1>1, <1>2, <1>3, <1>4 DEF Next

LEMMA LInvariance == Spec => []LInv
  BY InitLInv, LInvStep, PTL DEF Spec

(* Type correctness.                                                       *)
THEOREM LifecycleTypes == Spec => []TypeOK
  <1>1. LInv => TypeOK
    BY DEF LInv
  <1> QED
    BY <1>1, LInvariance, PTL

(* No adapter is closed while a request is served, and a process that      *)
(* exits with success has answered everyone and closed what it opened,     *)
(* however the listener, the signals and the handlers interleave.          *)
THEOREM ExitsInOrder == Spec => []OrderlyExit
  <1>1. LInv => OrderlyExit
    BY DEF LInv, TypeOK, ProcessInv, OrderlyExit, Adapters
  <1> QED
    BY <1>1, LInvariance, PTL

(* Every answer is logged with the status the client got, a recovered      *)
(* panic's included, and the status tells the cause.                       *)
THEOREM EveryAnswerIsLogged == Spec => []AnswersAreLogged
  <1>1. LInv => AnswersAreLogged
    BY DEF LInv, RequestInv, RequestAt, AnswersAreLogged
  <1> QED
    BY <1>1, LInvariance, PTL

(* In production no handler meets a missing adapter; elsewhere nothing     *)
(* that needs Redis succeeds without it, and no health check calls a       *)
(* missing adapter connected.                                              *)
THEOREM MissingAdaptersAreNoticed == Spec => []MissingAdapters
  <1>1. LInv => MissingAdapters
    BY DEF LInv, RequestInv, RequestAt, MissingAdapters
  <1> QED
    BY <1>1, LInvariance, PTL
=============================================================================
