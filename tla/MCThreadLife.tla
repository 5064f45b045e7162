---------------------------- MODULE MCThreadLife ----------------------------
(***************************************************************************)
(* Instances of ThreadLife for TLC.  Besides the main thread, a target     *)
(* whose memory may be reused, and two more that join or detach it: with   *)
(* four threads the target's memory can be freed and reused while a joiner *)
(* is still to run.                                                        *)
(***************************************************************************)
EXTENDS ThreadLife, TLC

CONSTANTS t1, t2, t3

\* Nothing tells the two threads apart.
Symmetric == Permutations({t2, t3})
=============================================================================
