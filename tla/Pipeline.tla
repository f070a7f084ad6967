------------------------------- MODULE Pipeline -------------------------------
(***************************************************************************)
(* How the HTTP server treats a request, whatever its operation does: the  *)
(* middlewares around every handler, the guard of its route, the handler's *)
(* use of the adapters, and the way from an error, or a panic, to the      *)
(* answer and to the line of the access log.                               *)
(*                                                                         *)
(* An adapter is nil when main could not connect it and went on without.   *)
(* The repositories dereference the database's, and check Redis's: a       *)
(* missing database makes a handler panic, a missing Redis is an error.    *)
(* A command to an adapter that is there may fail at any time.             *)
(***************************************************************************)
EXTENDS Naturals, Sequences, FiniteSetsExt

CONSTANTS
    Requests,
    Called,   \* the handlers that requests are sent to
    None

Adapters == {"db", "redis", "s3"}

(* routes.yaml: who may call which handler.                                *)
Open    == {"HealthCheck", "OpenAPISpec", "APIDocs"}
Basic   == {"GetTeams", "Register", "Login"}
Bearer  == {"ListTasks", "CreateTask", "GetTaskByID", "UpdateTask", "DeleteTask",
            "AssignTask", "ListUsers"}
Handlers == Open \cup Basic \cup Bearer

ASSUME CalledAssumption == Called \subseteq Handlers
ASSUME NoneAssumption == None \notin Handlers \cup {"ok", "panic"}

VARIABLES
    adapter,  \* "nil", "open" or "closed"
    pc,       \* per request: where it is in the chain
    handler,  \* per request: the handler of its route
    used,     \* per request: how many of its adapter calls are behind it
    cause,    \* per request: why its answer is what it is
    status,   \* per request: the HTTP status
    line,     \* per request: the status in its line of the access log
    report    \* per request: the adapters a health check called connected

requestVars == <<pc, handler, used, cause, status, line, report>>

InFlight == {"guard", "handler", "unwind", "log", "flush"}

PipelineInit ==
    /\ pc = [r \in Requests |-> "idle"]
    /\ handler = [r \in Requests |-> None]
    /\ used = [r \in Requests |-> 0]
    /\ cause = [r \in Requests |-> None]
    /\ status = [r \in Requests |-> 0]
    /\ line = [r \in Requests |-> 0]
    /\ report = [r \in Requests |-> {}]

-----------------------------------------------------------------------------
(* Errors: an error is its layers, the outermost first.  fmt.Errorf puts a *)
(* "text" around another error.                                            *)

AppErrors == {"badRequest", "unauthorized", "notFound", "staleVersion", "internal"}

(* Mutation: a stale version as a precondition that failed.                *)
StatusOfPrecondition(appError) == IF appError = "staleVersion" THEN 412 ELSE 500

StatusOf(appError) ==
    CASE appError = "badRequest"   -> 400
      [] appError = "unauthorized" -> 401
      [] appError = "notFound"     -> 404
      [] appError = "staleVersion" -> 409
      [] OTHER                     -> 500

(* Mutation: only an error that is itself an AppError is recognised.       *)
WrapOutermost(template, err) == IF Head(err) \in AppErrors THEN Head(err) ELSE template

(* The first AppError among the layers; a foreign error gets the template. *)
Wrap(template, err) ==
    LET found == {i \in DOMAIN err : err[i] \in AppErrors}
    IN  IF found = {} THEN template ELSE err[Min(found)]

(* The service wraps an error once, the controller what the service made.  *)
AnswerTo(err) == StatusOf(Wrap("internal", <<Wrap("internal", err)>>))

-----------------------------------------------------------------------------
Goto(r, label) == pc' = [pc EXCEPT ![r] = label]

(* Gin calls the middlewares in this order, and they return in reverse.    *)
LoggerInside == <<"recovery", "logger", "meta">>

Middlewares == <<"logger", "recovery", "meta">>

(* A panic skips what the middlewares inside the recovery do on return.    *)
LogsAfterRecovery ==
    \E i, j \in DOMAIN Middlewares :
        i < j /\ Middlewares[i] = "logger" /\ Middlewares[j] = "recovery"

(* A connection is accepted, and its request sent to a handler.            *)
Arrive(r, h) ==
    /\ pc[r] = "idle"
    /\ handler' = [handler EXCEPT ![r] = h]
    /\ Goto(r, "guard")
    /\ UNCHANGED <<adapter, used, cause, status, line, report>>

(* No valid Basic credentials, no valid token, or, where Redis is there,   *)
(* no session: 401, and the handler is not called.                         *)
GuardRefuses(r) ==
    /\ pc[r] = "guard" /\ handler[r] \notin Open
    /\ cause' = [cause EXCEPT ![r] = "unauthorized"]
    /\ status' = [status EXCEPT ![r] = 401]
    /\ Goto(r, "log")
    /\ UNCHANGED <<adapter, handler, used, line, report>>

GuardPasses(r) ==
    /\ pc[r] = "guard"
    /\ Goto(r, "handler")
    /\ UNCHANGED <<adapter, handler, used, cause, status, line, report>>

(* The adapters a handler calls in turn.  CreateTask looks for a cached    *)
(* response and takes the lock before the database, and saves a response   *)
(* after it; Login stores the session of the account it has found.         *)
CreateWithoutCheck == <<"db", "redis">>

CreateCalls == <<"redis", "db", "redis">>

Calls(h) ==
    CASE h \in Open         -> <<>>
      [] h = "CreateTask"   -> CreateCalls
      [] h = "Login"        -> <<"db", "redis">>
      [] OTHER              -> <<"db">>

NextCall(r) == Calls(handler[r])[used[r] + 1]
Calling(r) == pc[r] = "handler" /\ used[r] < Len(Calls(handler[r]))

CallWorks(r) ==
    /\ Calling(r) /\ adapter[NextCall(r)] = "open"
    /\ used' = [used EXCEPT ![r] = @ + 1]
    /\ UNCHANGED <<adapter, pc, handler, cause, status, line, report>>

(* The handler answers with an error: its own, or one of a call.           *)
Fail(r, why, err) ==
    /\ cause' = [cause EXCEPT ![r] = why]
    /\ status' = [status EXCEPT ![r] = AnswerTo(err)]
    /\ Goto(r, "log")
    /\ UNCHANGED <<adapter, handler, used, line, report>>

CallFails(r) ==
    /\ Calling(r)
    /\ NextCall(r) = "db" => adapter["db"] # "nil"
    /\ Fail(r, "internal", <<"text", "foreign">>)

CallPanics(r) ==
    /\ Calling(r)
    /\ NextCall(r) = "db" /\ adapter["db"] = "nil"
    /\ cause' = [cause EXCEPT ![r] = "panic"]
    /\ Goto(r, "unwind")
    /\ UNCHANGED <<adapter, handler, used, status, line, report>>

(* A request that is invalid, or refused by what the database says; the    *)
(* repository's ErrStaleVersion reaches the service inside a text.         *)
Refuse(r) ==
    /\ pc[r] = "handler" /\ handler[r] \notin Open
    /\ \E e \in AppErrors \ {"internal"} : Fail(r, e, <<e>>) \/ Fail(r, e, <<"text", e>>)

SuccessStatus(h) == IF h \in {"CreateTask", "Register"} THEN 201 ELSE 200

(* A creation whose response is cached is answered without the database.   *)
Complete(r) ==
    \/ used[r] = Len(Calls(handler[r]))
    \/ handler[r] = "CreateTask" /\ used[r] = 1

Succeed(r) ==
    /\ pc[r] = "handler" /\ Complete(r)
    /\ cause' = [cause EXCEPT ![r] = "ok"]
    /\ status' = [status EXCEPT ![r] = SuccessStatus(handler[r])]
    /\ IF handler[r] = "HealthCheck"
       THEN \E connected \in SUBSET {a \in Adapters : adapter[a] = "open"} :
                report' = [report EXCEPT ![r] = connected]
       ELSE report' = report
    /\ Goto(r, "log")
    /\ UNCHANGED <<adapter, handler, used, line>>

Recover(r) ==
    /\ pc[r] = "unwind"
    /\ status' = [status EXCEPT ![r] = 500]
    /\ Goto(r, IF LogsAfterRecovery THEN "log" ELSE "flush")
    /\ UNCHANGED <<adapter, handler, used, cause, line, report>>

Log(r) ==
    /\ pc[r] = "log"
    /\ line' = [line EXCEPT ![r] = status[r]]
    /\ Goto(r, "flush")
    /\ UNCHANGED <<adapter, handler, used, cause, status, report>>

(* net/http sends the answer once the chain has returned.                  *)
Flush(r) ==
    /\ pc[r] = "flush"
    /\ Goto(r, "done")
    /\ UNCHANGED <<adapter, handler, used, cause, status, line, report>>

Serve(r) ==
    \/ GuardRefuses(r) \/ GuardPasses(r)
    \/ CallWorks(r) \/ CallFails(r) \/ CallPanics(r) \/ Refuse(r) \/ Succeed(r)
    \/ Recover(r) \/ Log(r) \/ Flush(r)
=============================================================================
