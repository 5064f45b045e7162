------------------------------ MODULE MCPthread ------------------------------
(***************************************************************************)
(* An instance of Pthread for TLC.  Three threads: one can own the mutex,  *)
(* one wait for it and one wait on the condition variable; for the event   *)
(* queue one more, so that two events and two runners can be pending.      *)
(***************************************************************************)
EXTENDS Pthread
=============================================================================
