------------------------------ MODULE FastMutex ------------------------------
(***************************************************************************)
(* kernel/pthread_private.h and the mutex and condition variable part of   *)
(* kernel/pthread.cpp: the mutex behind pthread_mutex_t and FastMutex,     *)
(* handed over in order of arrival and without priority inheritance, and a *)
(* condition variable used with it (pthread_cond_t, or ConditionVariable   *)
(* with a FastMutex: kernel/sync.cpp has the same code for both).          *)
(*                                                                         *)
(* An action is a section run with interrupts disabled; a blocked caller   *)
(* is between sections while it is in Thread::yield().  Any thread whose   *)
(* flags are clear may run, so that every priority assignment is covered.  *)
(***************************************************************************)
EXTENDS Integers, Sequences

CONSTANTS Threads,
          NoThread,   \* a null owner
          MaxDepth    \* bound on recursive locking

ASSUME FastMutexAssumption ==
    /\ NoThread \notin Threads
    /\ MaxDepth \in Nat

VARIABLES
    owner, recursive,
    first,      \* the mutex's list of waiting threads, from the first
    cond,       \* the condition variable's list
    wait,       \* WAIT flag
    condWait,   \* COND_WAIT flag
    pc,         \* "free", or the loop each thread is blocked in
    depth,      \* depth a thread in pthread_cond_wait() will restore
    held        \* history: locks less unlocks that returned to each thread

mutexVars == <<owner, recursive, first, cond, wait, condWait, pc, depth, held>>

MutexTypeOK ==
    /\ owner \in Threads \cup {NoThread}
    /\ recursive \in -1 .. MaxDepth
    /\ first \in Seq(Threads)
    /\ cond \in Seq(Threads)
    /\ wait \in [Threads -> BOOLEAN]
    /\ condWait \in [Threads -> BOOLEAN]
    /\ pc \in [Threads -> {"free", "lock", "cond", "relock"}]
    /\ depth \in [Threads -> 0 .. MaxDepth]
    /\ held \in [Threads -> 0 .. MaxDepth + 1]

\* pthread_mutex_init() with either type, pthread_cond_init().
MutexInit(type) ==
    /\ owner = NoThread
    /\ recursive = type
    /\ first = <<>> /\ cond = <<>>
    /\ wait = [t \in Threads |-> FALSE]
    /\ condWait = [t \in Threads |-> FALSE]
    /\ pc = [t \in Threads |-> "free"]
    /\ depth = [t \in Threads |-> 0]
    /\ held = [t \in Threads |-> 0]
-----------------------------------------------------------------------------
Holds(t) == pc[t] = "free" /\ owner = t
Goto(t, place) == pc' = [pc EXCEPT ![t] = place]
Count(t, locks) == held' = [held EXCEPT ![t] = locks]

\* The depth field changes only in a recursive mutex.
Depth(d) == IF recursive < 0 THEN recursive ELSE d

\* The caller puts itself last in the list and sleeps in the loop "place".
Enqueue(t, place) ==
    /\ owner \notin {t, NoThread}
    /\ first' = Append(first, t)
    /\ wait' = [wait EXCEPT ![t] = TRUE]
    /\ Goto(t, place)
    /\ UNCHANGED <<owner, recursive, held>>

\* IRQdoMutexLock(); locking a default mutex twice ends in errorHandler().
pthread_mutex_lock(t) ==
    /\ pc[t] = "free"
    /\ \/ /\ owner = NoThread
          /\ owner' = t
          /\ Count(t, 1)
          /\ UNCHANGED <<recursive, first, wait, pc>>
       \/ /\ owner = t /\ recursive \in 0 .. MaxDepth - 1
          /\ recursive' = recursive + 1
          /\ Count(t, held[t] + 1)
          /\ UNCHANGED <<owner, first, wait, pc>>
       \/ Enqueue(t, "lock")
    /\ UNCHANGED <<cond, condWait, depth>>

\* The cases in which it succeeds; otherwise it does nothing.
pthread_mutex_trylock(t) ==
    /\ pc[t] = "free"
    /\ \/ owner = NoThread /\ owner' = t /\ UNCHANGED recursive
       \/ /\ owner = t /\ recursive \in 0 .. MaxDepth - 1
          /\ recursive' = recursive + 1
          /\ UNCHANGED owner
    /\ Count(t, held[t] + 1)
    /\ UNCHANGED <<first, cond, wait, condWait, pc, depth>>

\* Mutant: the depth is not restored after a wait for the mutex.
LockLoop_ForgetsDepth(t) ==
    /\ pc[t] \in {"lock", "relock"} /\ ~wait[t]
    /\ \/ owner # t /\ wait' = [wait EXCEPT ![t] = TRUE]
          /\ UNCHANGED <<recursive, pc, depth, held>>
       \/ /\ owner = t
          /\ Goto(t, "free")
          /\ Count(t, depth[t] + 1)
          /\ depth' = [depth EXCEPT ![t] = 0]
          /\ UNCHANGED <<recursive, wait>>
    /\ UNCHANGED <<owner, first, cond, condWait>>

\* while(mutex->owner!=p), after the yield; IRQdoMutexLockToDepth() then
\* restores the depth.
LockLoop(t) ==
    /\ pc[t] \in {"lock", "relock"} /\ ~wait[t]
    /\ \/ owner # t /\ wait' = [wait EXCEPT ![t] = TRUE]
          /\ UNCHANGED <<recursive, pc, depth, held>>
       \/ /\ owner = t
          /\ Goto(t, "free")
          /\ Count(t, depth[t] + 1)
          /\ recursive' = IF pc[t] = "relock" THEN Depth(depth[t]) ELSE recursive
          /\ depth' = [depth EXCEPT ![t] = 0]
          /\ UNCHANGED wait
    /\ UNCHANGED <<owner, first, cond, condWait>>

\* Mutant: the next thread is made owner and not woken.
HandOff_NoWakeup ==
    IF first = <<>> THEN owner' = NoThread /\ UNCHANGED <<first, wait>>
    ELSE /\ owner' = Head(first)
         /\ first' = Tail(first)
         /\ UNCHANGED wait

\* Mutant: the mutex goes to the thread that came last.
HandOff_Last ==
    IF first = <<>> THEN owner' = NoThread /\ UNCHANGED <<first, wait>>
    ELSE /\ owner' = first[Len(first)]
         /\ wait' = [wait EXCEPT ![first[Len(first)]] = FALSE]
         /\ first' = SubSeq(first, 1, Len(first) - 1)

\* The mutex goes to the first waiting thread, which is woken.
HandOff ==
    IF first = <<>> THEN owner' = NoThread /\ UNCHANGED <<first, wait>>
    ELSE /\ owner' = Head(first)
         /\ wait' = [wait EXCEPT ![Head(first)] = FALSE]
         /\ first' = Tail(first)

\* IRQdoMutexUnlock(): only the owner calls it, the code does not check.
pthread_mutex_unlock(t) ==
    /\ Holds(t)
    /\ \/ recursive > 0 /\ recursive' = recursive - 1
          /\ UNCHANGED <<owner, first, wait>>
       \/ recursive <= 0 /\ HandOff /\ UNCHANGED recursive
    /\ Count(t, held[t] - 1)
    /\ UNCHANGED <<cond, condWait, pc, depth>>

\* pthread_cond_wait() and ConditionVariable::wait(FastMutex&) up to the
\* yield: listed, flagged and all levels of the mutex released in one section.
pthread_cond_wait(t) ==
    /\ Holds(t)
    /\ cond' = Append(cond, t)
    /\ condWait' = [condWait EXCEPT ![t] = TRUE]
    /\ depth' = [depth EXCEPT ![t] = IF recursive < 0 THEN 0 ELSE recursive]
    /\ recursive' = Depth(0)
    /\ HandOff
    /\ Goto(t, "cond")
    /\ Count(t, 0)

\* ... and from there: IRQdoMutexLockToDepth().
CondReturn(t) ==
    /\ pc[t] = "cond" /\ ~condWait[t]
    /\ \/ /\ owner = NoThread
          /\ owner' = t
          /\ recursive' = Depth(depth[t])
          /\ Count(t, depth[t] + 1)
          /\ depth' = [depth EXCEPT ![t] = 0]
          /\ Goto(t, "free")
          /\ UNCHANGED <<first, wait>>
       \/ Enqueue(t, "relock") /\ UNCHANGED depth
    /\ UNCHANGED <<cond, condWait>>

\* Wakes the first n threads of the condition variable's list.
CondWake(n) ==
    /\ condWait' = [t \in Threads |-> condWait[t] /\ \A i \in 1 .. n : t # cond[i]]
    /\ cond' = SubSeq(cond, n + 1, Len(cond))
    /\ UNCHANGED <<owner, recursive, first, wait, pc, depth, held>>

pthread_cond_signal(t)    == pc[t] = "free" /\ CondWake(IF cond = <<>> THEN 0 ELSE 1)
pthread_cond_broadcast(t) == pc[t] = "free" /\ CondWake(Len(cond))

\* Thread::wakeup() on a thread blocked for another reason.
SpuriousWakeup(t) ==
    /\ wait[t]
    /\ wait' = [wait EXCEPT ![t] = FALSE]
    /\ UNCHANGED <<owner, recursive, first, cond, condWait, pc, depth, held>>

\* A blocked thread goes on.
Resume(t) == LockLoop(t) \/ CondReturn(t)
-----------------------------------------------------------------------------
(* Properties *)

In(list, t) == \E i \in DOMAIN list : list[i] = t

\* The lists hold, once each, exactly the threads still blocked in the
\* loops, whose stack frames are the list's nodes; a free mutex has no
\* waiting thread, and one handed over has an owner that is awake.
ListsConsistent ==
    /\ MutexTypeOK
    /\ \A t \in Threads : /\ In(first, t) <=> pc[t] \in {"lock", "relock"} /\ owner # t
                          /\ In(cond, t) <=> condWait[t]
                          /\ condWait[t] => pc[t] = "cond"
    /\ \A i, j \in DOMAIN first : first[i] = first[j] => i = j
    /\ \A i, j \in DOMAIN cond : cond[i] = cond[j] => i = j
    /\ owner = NoThread => first = <<>>
    /\ owner # NoThread => ~wait[owner] /\ pc[owner] # "cond"

\* What each thread knows about the mutex agrees with its fields: one thread
\* at most is inside, as deep as its calls say, across condition waits too.
CallsMatchOwnership ==
    /\ \A t \in Threads : held[t] > 0 <=> Holds(t)
    /\ \A t \in Threads : Holds(t) => held[t] = IF recursive < 0 THEN 1 ELSE recursive + 1
    /\ owner = NoThread => recursive <= 0

\* A call that waits for the mutex returns with it.
LockReturns == \A t \in Threads : (pc[t] \in {"lock", "relock"}) ~> (pc[t] = "free")
=============================================================================
