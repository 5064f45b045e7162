------------------------------ MODULE MCMutex ------------------------------
(***************************************************************************)
(* Instances of Mutex for TLC: three threads of three different priorities *)
(* are the smallest system with an owner, a waiter and a thread in between *)
(* (or two waiters); two mutexes make a chain of owners.  A fourth, which  *)
(* only locks, can block on a waiter of another mutex's queue.             *)
(***************************************************************************)
EXTENDS Mutex, TLC

CONSTANTS low, mid, high, urgent

Ordered == [t \in Threads |-> CASE t = low -> 0 [] t = mid -> 1
                                [] t = high -> 2 [] OTHER -> 3]

LocksOnly == [t \in Threads |-> {"lock"}]
Mixed == low :> {"lock", "wait", "setPriority"} @@ high :> {"lock", "wait"}
         @@ mid :> {"lock", "tryLock", "signal"} @@ urgent :> {"lock"}
=============================================================================
