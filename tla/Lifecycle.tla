------------------------------- MODULE Lifecycle -------------------------------
(***************************************************************************)
(* One run of the server process: main connects the adapters one after the *)
(* other, starts the listener and waits for a signal; then it lets the     *)
(* requests under way finish, for five seconds at most, and closes the     *)
(* adapters in its deferred calls.  Pipeline is what requests do meanwhile.*)
(*                                                                         *)
(* log.Fatalf, and a signal nobody has asked for, end the process at once: *)
(* no deferred call runs and no handler answers.                           *)
(***************************************************************************)
EXTENDS Pipeline

VARIABLES
    production,  \* APP_ENV is "production"
    main,        \* the next step of main
    listener,    \* "none", "starting", "open" or "closed"
    signalled,   \* SIGINT or SIGTERM has been received by the context
    exit         \* "none", "clean", "fatal" or "killed"

mainVars == <<production, main, listener, signalled, exit>>
vars == <<adapter, requestVars, mainVars>>

Init ==
    /\ PipelineInit
    /\ adapter = [a \in Adapters |-> "nil"]
    /\ production \in BOOLEAN
    /\ main = "db"
    /\ listener = "none"
    /\ signalled = FALSE
    /\ exit = "none"

Proceed(label) == main' = label

End(how) ==
    /\ exit' = how
    /\ pc' = [r \in Requests |-> IF pc[r] \in InFlight THEN "lost" ELSE pc[r]]
    /\ UNCHANGED <<handler, used, cause, status, line, report>>

-----------------------------------------------------------------------------
(* Starting.                                                               *)

After(a) == CASE a = "db" -> "redis" [] a = "redis" -> "s3" [] OTHER -> "wire"

Connect(a) ==
    /\ main = a
    /\ adapter' = [adapter EXCEPT ![a] = "open"]
    /\ Proceed(After(a))
    /\ UNCHANGED <<requestVars, production, listener, signalled, exit>>

(* Mutation: a failure is a warning in production, too.                    *)
WarnAlways(a) ==
    /\ main = a
    /\ Proceed(After(a))
    /\ UNCHANGED <<adapter, requestVars, production, listener, signalled, exit>>

(* A warning and a nil adapter, but the end of the process in production.  *)
ConnectFails(a) ==
    /\ main = a
    /\ \/ /\ production
          /\ End("fatal")
          /\ UNCHANGED <<adapter, production, main, listener, signalled>>
       \/ /\ ~production
          /\ Proceed(After(a))
          /\ UNCHANGED <<adapter, requestVars, production, listener, signalled, exit>>

(* Each constructor tries the connection out before it returns the adapter;*)
(* the database's runs the migrations, too, and fails if one of them does; *)
(* the object storage's needs an endpoint and credentials.                 *)
NewPostgres == Connect("db") \/ ConnectFails("db")
NewRedis == Connect("redis") \/ ConnectFails("redis")
NewS3 == Connect("s3") \/ ConnectFails("s3")

(* Repositories, services and router are built, signals are asked for and  *)
(* the goroutine that listens is started.                                  *)
Wire ==
    /\ main = "wire"
    /\ Proceed("wait")
    /\ listener' = "starting"
    /\ UNCHANGED <<adapter, requestVars, production, signalled, exit>>

Listen ==
    /\ listener = "starting" /\ main = "wait"
    /\ listener' = "open"
    /\ UNCHANGED <<adapter, requestVars, production, main, signalled, exit>>

(* The port is taken, or accepting fails: log.Fatalf in the goroutine.     *)
ListenFails ==
    /\ listener \in {"starting", "open"} /\ main = "wait"
    /\ End("fatal")
    /\ UNCHANGED <<adapter, production, main, listener, signalled>>

(* ErrServerClosed: Shutdown came first.                                   *)
ListenTooLate ==
    /\ listener = "starting" /\ main # "wait"
    /\ listener' = "closed"
    /\ UNCHANGED <<adapter, requestVars, production, main, signalled, exit>>

-----------------------------------------------------------------------------
(* Stopping.                                                               *)

(* Between NotifyContext and stop, signals go to the context; a second one *)
(* changes nothing.                                                        *)
Registered == main \in {"wait", "drain"}

Signal ==
    /\ Registered
    /\ signalled' = TRUE
    /\ UNCHANGED <<adapter, requestVars, production, main, listener, exit>>

Kill ==
    /\ ~Registered
    /\ End("killed")
    /\ UNCHANGED <<adapter, production, main, listener, signalled>>

(* Mutation: main waits for the server's goroutine instead of the signal.  *)
ShutdownLate ==
    /\ main = "wait" /\ signalled /\ listener = "closed"
    /\ Proceed("drain")
    /\ UNCHANGED <<adapter, requestVars, production, listener, signalled, exit>>

Shutdown ==
    /\ main = "wait" /\ signalled
    /\ Proceed("drain")
    /\ listener' = IF listener = "open" THEN "closed" ELSE listener
    /\ UNCHANGED <<adapter, requestVars, production, signalled, exit>>

Drained ==
    /\ main = "drain" /\ \A r \in Requests : pc[r] \notin InFlight
    /\ Proceed("closeRedis")
    /\ UNCHANGED <<adapter, requestVars, production, listener, signalled, exit>>

(* Mutation: the timeout is only logged, and main returns.                 *)
TimeoutLogged ==
    /\ main = "drain"
    /\ Proceed("closeRedis")
    /\ UNCHANGED <<adapter, requestVars, production, listener, signalled, exit>>

(* Five seconds are over: log.Fatalf.  A handler is still at work, or a    *)
(* client has connected and not sent its request.                          *)
DrainTimeout ==
    /\ main = "drain" /\ listener = "closed"
    /\ End("fatal")
    /\ UNCHANGED <<adapter, production, main, listener, signalled>>

(* The deferred calls, the last one first; there is none for an adapter    *)
(* that is not there.                                                      *)
Close(a) == adapter' = [adapter EXCEPT ![a] = IF @ = "open" THEN "closed" ELSE @]

CloseRedis ==
    /\ main = "closeRedis"
    /\ Close("redis")
    /\ Proceed("closeDb")
    /\ UNCHANGED <<requestVars, production, listener, signalled, exit>>

CloseDb ==
    /\ main = "closeDb"
    /\ Close("db")
    /\ End("clean")
    /\ UNCHANGED <<production, main, listener, signalled>>

-----------------------------------------------------------------------------
Requesting(r) ==
    /\ Serve(r) \/ (listener = "open" /\ \E h \in Called : Arrive(r, h))
    /\ UNCHANGED mainVars

MainStep ==
    \/ NewPostgres \/ NewRedis \/ NewS3
    \/ Wire \/ Shutdown \/ Drained \/ DrainTimeout \/ CloseRedis \/ CloseDb

Next ==
    /\ exit = "none"
    /\ \/ MainStep
       \/ Listen \/ ListenFails \/ ListenTooLate
       \/ Signal \/ Kill
       \/ \E r \in Requests : Requesting(r)

Spec == Init /\ [][Next]_vars

(* main runs on, and its five seconds pass; a handler may hang for ever.   *)
FairSpec == Spec /\ WF_vars(exit = "none" /\ MainStep)

-----------------------------------------------------------------------------
(* Properties.                                                             *)

Statuses == {200, 201, 400, 401, 404, 409, 500}

(* Every variable has the shape its comment gives it, and a handler calls  *)
(* no more adapters than it has to.                                        *)
TypeOK ==
    /\ adapter \in [Adapters -> {"nil", "open", "closed"}]
    /\ pc \in [Requests -> InFlight \cup {"idle", "done", "lost"}]
    /\ handler \in [Requests -> Called \cup {None}]
    /\ cause \in [Requests -> AppErrors \cup {"ok", "panic", None}]
    /\ status \in [Requests -> Statuses \cup {0}]
    /\ line \in [Requests -> Statuses \cup {0}]
    /\ report \in [Requests -> SUBSET Adapters]
    /\ production \in BOOLEAN /\ signalled \in BOOLEAN
    /\ main \in Adapters \cup {"wire", "wait", "drain", "closeRedis", "closeDb"}
    /\ listener \in {"none", "starting", "open", "closed"}
    /\ exit \in {"none", "clean", "fatal", "killed"}
    /\ \A r \in Requests : pc[r] \in InFlight =>
          handler[r] \in Called /\ used[r] \in 0..Len(Calls(handler[r]))

(* The adapters are closed under nobody's feet, and a process that exits   *)
(* with success has answered every request it accepted and has closed what *)
(* it had opened (main lines 37-41, 54-58 and 91-97).                      *)
OrderlyExit ==
    /\ (\E a \in Adapters : adapter[a] = "closed") =>
          \A r \in Requests : pc[r] \in {"idle", "done"}
    /\ exit = "clean" => /\ \A r \in Requests : pc[r] # "lost"
                         /\ adapter["db"] # "open" /\ adapter["redis"] # "open"

(* Every answer is in the access log with the status that the client got,  *)
(* a recovered panic included, and the status tells the cause: a domain    *)
(* error keeps its own however deep it was wrapped, anything else is 500   *)
(* (router line 41, controllers lines 40-43, apperror lines 73-95).        *)
AnswersAreLogged ==
    \A r \in Requests : pc[r] = "done" =>
        /\ line[r] = status[r]
        /\ status[r] = IF cause[r] = "ok" THEN SuccessStatus(handler[r])
                                     ELSE StatusOf(cause[r])

(* What a missing adapter may do.  In production a handler never meets     *)
(* one (main lines 27, 43 and 59).  Elsewhere, without Redis, a token is   *)
(* accepted although there is no session (auth_service line 132), but      *)
(* nobody logs in, and no task is created: a creation gets to the database *)
(* only after the idempotency check.  No health check calls a missing      *)
(* adapter connected.                                                      *)
MissingAdapters ==
    \A r \in Requests :
        /\ production => cause[r] # "panic"
        /\ handler[r] \in {"CreateTask", "Login"} /\ cause[r] = "ok" => adapter["redis"] # "nil"
        /\ handler[r] = "CreateTask" /\ used[r] > 0 => adapter["redis"] # "nil"
        /\ \A a \in report[r] : adapter[a] # "nil"

(* After SIGINT or SIGTERM the process ends, even if a handler hangs.      *)
StopsWhenTold == signalled ~> exit # "none"
=============================================================================
