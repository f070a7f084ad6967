------------------------------ MODULE MCLifecycle ------------------------------
(***************************************************************************)
(* A small instance of Lifecycle: two requests, sent to a handler of each  *)
(* kind: one that asks after the adapters, one that needs the database,    *)
(* one that needs Redis after it, and one that needs Redis on both sides.  *)
(***************************************************************************)
EXTENDS Lifecycle, TLC

MCCalled == {"HealthCheck", "GetTeams", "Login", "CreateTask"}
=============================================================================
