------------------------------ MODULE MCProcess ------------------------------
(***************************************************************************)
(* An instance of Process for TLC: two kernel threads that compete for the *)
(* same children and three pids, so that there are grandchildren and pids  *)
(* are reused.                                                             *)
(***************************************************************************)
EXTENDS Process
=============================================================================
