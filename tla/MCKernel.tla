------------------------------ MODULE MCKernel ------------------------------
(***************************************************************************)
(* Instances of Kernel for TLC.  Two threads of one priority and a third   *)
(* above or below them are the smallest system in which round robin,       *)
(* preemption by a higher priority and the idle thread all occur.          *)
(***************************************************************************)
EXTENDS Kernel, TLC

CONSTANTS a, b, c

TwoLow  == a :> 0 @@ b :> 0 @@ c :> 1
=============================================================================
