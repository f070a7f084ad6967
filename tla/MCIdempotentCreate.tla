-------------------------- MODULE MCIdempotentCreate --------------------------
(***************************************************************************)
(* Small instances of IdempotentCreate: a few duplicates under one or two  *)
(* keys, of which "bad" names an assignee outside the team.  The times     *)
(* keep the order of the code's defaults, WaitTime < LockTTL < CacheTTL,   *)
(* with a holder that is done in one tick unless a configuration says      *)
(* otherwise.                                                              *)
(***************************************************************************)
EXTENDS IdempotentCreate, TLC, FiniteSets

RequestSymmetry == Permutations(Requests)
=============================================================================
