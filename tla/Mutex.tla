------------------------------- MODULE Mutex -------------------------------
(***************************************************************************)
(* kernel/sync.cpp: class Mutex (recursive and not) with priority          *)
(* inheritance, class ConditionVariable on top of it, and                  *)
(* Thread::setPriority(), which shares the inheritance data.               *)
(*                                                                         *)
(* Every operation runs inside a PauseKernelLock, so no other thread runs  *)
(* between its entry and its return or its yield: one action is one such   *)
(* section.  signal() and broadcast() disable interrupts instead, to the   *)
(* same effect.  Interrupt routines touch none of this state except by     *)
(* waking a thread (SpuriousWakeup).                                       *)
(*                                                                         *)
(* std::vector<Thread*> waiting, ordered by push_heap, make_heap and       *)
(* pop_heap, is a set and its front(): the element the last heap operation *)
(* put on top.  The order the list of locked mutexes is walked in never    *)
(* matters, so mutexLocked is a set.                                       *)
(***************************************************************************)
EXTENDS Integers, FiniteSets, Sequences

CONSTANTS
    Threads, NoThread,
    Mutexes,             \* natural numbers: the order threads lock them in
    NoMutex,
    RecursiveMutexes,    \* those built with Mutex::RECURSIVE
    Priorities,          \* 0 .. PRIORITY_MAX-1
    InitialPriority,     \* priority each thread is created with
    CondMutex,           \* the mutex used with the condition variable
    MaxDepth,            \* bound on recursiveDepth
    MaxHeld,             \* bound on the mutexes a thread holds at once
    Uses,                \* operations each thread calls, besides unlock()
    StrictPriority       \* TRUE: only a highest priority ready thread runs

ASSUME MutexAssumption ==
    /\ NoThread \notin Threads
    /\ Mutexes \subseteq Nat
    /\ NoMutex \notin Mutexes
    /\ RecursiveMutexes \subseteq Mutexes
    /\ Priorities \subseteq Int
    /\ InitialPriority \in [Threads -> Priorities]
    /\ CondMutex \in Mutexes
    /\ MaxDepth \in Nat
    /\ MaxHeld \in Nat
    /\ Uses \in [Threads -> SUBSET {"lock", "tryLock", "wait", "signal", "setPriority",
                                    "sleep"}]
    /\ StrictPriority \in BOOLEAN

VARIABLES
    owner,           \* Mutex::owner
    waiting,         \* Mutex::waiting, as a set
    front,           \* Mutex::waiting.front()
    recursiveDepth,  \* Mutex::recursiveDepth, -1 when not recursive
    prio,            \* Thread::schedData.priority
    savedPriority,   \* Thread::savedPriority
    mutexLocked,     \* Thread::mutexLocked, the list as a set
    mutexWaiting,    \* Thread::mutexWaiting
    wait, condWait,  \* WAIT and WAIT_COND flags
    cond,            \* ConditionVariable::first ... last
    pc,              \* where the thread is
    target,          \* the mutex it is locking
    depth,           \* "depth" in ConditionVariable::wait()
    base,            \* history: priority the thread last asked for
    held             \* history: lock calls minus unlock calls that returned

vars == <<owner, waiting, front, recursiveDepth, prio, savedPriority,
          mutexLocked, mutexWaiting, wait, condWait, cond, pc, target, depth,
          base, held>>
heapVars  == <<waiting, front>>
listVars  == <<owner, savedPriority, mutexLocked>>
condVars  == <<condWait, cond, depth>>

\* "lock" and "relock": in the while(owner!=p) loop of PKlock and of
\* PKlockToDepth; "cond": in the yield of ConditionVariable::wait();
\* "sleep": in Thread::sleep(), the SLEEP flag set.
Places == {"run", "sleep", "lock", "cond", "relock"}

TypeOK ==
    /\ owner \in [Mutexes -> Threads \cup {NoThread}]
    /\ waiting \in [Mutexes -> SUBSET Threads]
    /\ front \in [Mutexes -> Threads \cup {NoThread}]
    /\ recursiveDepth \in [Mutexes -> -1 .. MaxDepth]
    /\ prio \in [Threads -> Priorities]
    /\ savedPriority \in [Threads -> Priorities]
    /\ mutexLocked \in [Threads -> SUBSET Mutexes]
    /\ mutexWaiting \in [Threads -> Mutexes \cup {NoMutex}]
    /\ wait \in [Threads -> BOOLEAN]
    /\ condWait \in [Threads -> BOOLEAN]
    /\ cond \in Seq(Threads)
    /\ pc \in [Threads -> Places]
    /\ target \in [Threads -> Mutexes \cup {NoMutex}]
    /\ depth \in [Threads -> 0 .. MaxDepth]
    /\ base \in [Threads -> Priorities]
    /\ held \in [Threads -> [Mutexes -> 0 .. MaxDepth + 1]]

Init ==
    /\ owner = [m \in Mutexes |-> NoThread]
    /\ waiting = [m \in Mutexes |-> {}]
    /\ front = [m \in Mutexes |-> NoThread]
    /\ recursiveDepth = [m \in Mutexes |-> IF m \in RecursiveMutexes THEN 0 ELSE -1]
    /\ prio = InitialPriority
    /\ savedPriority = InitialPriority   \* not read before it is written
    /\ mutexLocked = [t \in Threads |-> {}]
    /\ mutexWaiting = [t \in Threads |-> NoMutex]
    /\ wait = [t \in Threads |-> FALSE]
    /\ condWait = [t \in Threads |-> FALSE]
    /\ cond = <<>>
    /\ pc = [t \in Threads |-> "run"]
    /\ target = [t \in Threads |-> NoMutex]
    /\ depth = [t \in Threads |-> 0]
    /\ base = InitialPriority
    /\ held = [t \in Threads |-> [m \in Mutexes |-> 0]]
-----------------------------------------------------------------------------
\* ThreadFlags::isReady()
Ready(t) == ~wait[t] /\ ~condWait[t] /\ pc[t] # "sleep"

\* t may be given the CPU: with StrictPriority only a ready thread of the
\* highest priority (Scheduler::IRQfindNextThread), else any ready thread.
Scheduled(t) ==
    /\ Ready(t)
    /\ StrictPriority => \A u \in Threads : Ready(u) => prio[u] <= prio[t]

\* What push_heap, make_heap and pop_heap may leave on top of set S when
\* the threads have priorities pr: any of the highest (LowerPriority).
HeapTops(S, pr) ==
    IF S = {} THEN {NoThread}
              ELSE {t \in S : \A u \in S : pr[u] <= pr[t]}

\* Threads the inheritance loop of PKlock visits from o: o, the owner of
\* the mutex o waits for, and so on while mutexWaiting is not null.
WalkFrom(o) ==
    {t \in Threads :
        \A S \in SUBSET Threads :
            (/\ o \in S
             /\ \A u \in S : mutexWaiting[u] # NoMutex
                                => owner[mutexWaiting[u]] \in S)
            => t \in S}

\* Mutant: the mutex is not added to the owner's list.
TakeFree_NotListed(t, m) ==
    /\ owner[m] = NoThread
    /\ owner' = [owner EXCEPT ![m] = t]
    /\ UNCHANGED <<savedPriority, mutexLocked, prio, mutexWaiting, wait, waiting, front>>

\* if(owner==0): t becomes the owner of the free mutex m.
TakeFree(t, m) ==
    /\ owner[m] = NoThread
    /\ owner' = [owner EXCEPT ![m] = t]
    /\ savedPriority' = IF mutexLocked[t] = {}
                        THEN [savedPriority EXCEPT ![t] = prio[t]]
                        ELSE savedPriority
    /\ mutexLocked' = [mutexLocked EXCEPT ![t] = @ \cup {m}]
    /\ UNCHANGED <<prio, mutexWaiting, wait, waiting, front>>

\* Mutant: the waiting queues of boosted threads are not reordered.
Enqueue_NoMakeHeap(t, m) ==
    LET boosted == IF prio[owner[m]] < prio[t] THEN WalkFrom(owner[m]) ELSE {}
        top     == IF waiting[m] = {} \/ prio[front[m]] < prio[t] THEN t ELSE front[m]
    IN  /\ waiting' = [waiting EXCEPT ![m] = @ \cup {t}]
        /\ mutexWaiting' = [mutexWaiting EXCEPT ![t] = m]
        /\ prio' = [u \in Threads |-> IF u \in boosted THEN prio[t] ELSE prio[u]]
        /\ front' = [front EXCEPT ![m] = top]
        /\ wait' = [wait EXCEPT ![t] = TRUE]
        /\ UNCHANGED listVars

\* Mutant: no priority inheritance when a thread blocks.
Enqueue_NoInheritance(t, m) ==
    LET top == IF waiting[m] = {} \/ prio[front[m]] < prio[t] THEN t ELSE front[m]
    IN  /\ waiting' = [waiting EXCEPT ![m] = @ \cup {t}]
        /\ mutexWaiting' = [mutexWaiting EXCEPT ![t] = m]
        /\ front' = [front EXCEPT ![m] = top]
        /\ wait' = [wait EXCEPT ![t] = TRUE]
        /\ UNCHANGED <<listVars, prio>>

\* t joins the waiting queue of m, owned by another thread, and every
\* thread of the chain that starts at m's owner gets t's priority when the
\* owner's is lower; then t goes to sleep.
Enqueue(t, m) ==
    LET boosted == IF prio[owner[m]] < prio[t] THEN WalkFrom(owner[m]) ELSE {}
        top     == IF waiting[m] = {} \/ prio[front[m]] < prio[t] THEN t ELSE front[m]
    IN  /\ waiting' = [waiting EXCEPT ![m] = @ \cup {t}]
        /\ mutexWaiting' = [mutexWaiting EXCEPT ![t] = m]
        /\ prio' = [u \in Threads |-> IF u \in boosted THEN prio[t] ELSE prio[u]]
        /\ front' \in {f \in [Mutexes -> Threads \cup {NoThread}] :
                \A k \in Mutexes :
                    IF \E u \in boosted : mutexWaiting[u] = k
                    THEN f[k] \in HeapTops(waiting'[k], prio')
                    ELSE f[k] = IF k = m THEN top ELSE front[k]}
        /\ wait' = [wait EXCEPT ![t] = TRUE]
        /\ UNCHANGED listVars

\* max(savedPriority, inheritedPriority) over the mutexes in S, where the
\* priority inherited from a mutex is that of waiting.front().
IsRecomputed(pr, saved, S) ==
    LET candidates == {saved} \cup {prio[front[k]] : k \in {k \in S : waiting[k] # {}}}
    IN  pr \in candidates /\ \A c \in candidates : c <= pr

\* Choose the next owner of m: waiting.front() is popped, woken and, if
\* needed, inherits from the new front.  prioNow: priorities at this point.
HandOff(m, prioNow, lockedNow) ==
    IF waiting[m] = {}
    THEN /\ owner' = [owner EXCEPT ![m] = NoThread]
         /\ prio' = prioNow
         /\ mutexLocked' = lockedNow
         /\ UNCHANGED <<savedPriority, mutexWaiting, wait, waiting, front>>
    ELSE LET w    == front[m]
             rest == waiting[m] \ {w}
         IN  /\ owner' = [owner EXCEPT ![m] = w]
             /\ waiting' = [waiting EXCEPT ![m] = rest]
             /\ mutexWaiting' = [mutexWaiting EXCEPT ![w] = NoMutex]
             /\ wait' = [wait EXCEPT ![w] = FALSE]
             /\ savedPriority' = IF lockedNow[w] = {}
                                 THEN [savedPriority EXCEPT ![w] = prioNow[w]]
                                 ELSE savedPriority
             /\ mutexLocked' = [lockedNow EXCEPT ![w] = @ \cup {m}]
             /\ \E f \in HeapTops(rest, prioNow) :
                   /\ front' = [front EXCEPT ![m] = f]
                   /\ prio' = IF rest # {} /\ prioNow[w] < prioNow[f]
                              THEN [prioNow EXCEPT ![w] = prioNow[f]]
                              ELSE prioNow

\* Mutant: the inherited priority is never given back.
Release_NoRestore(t, m) ==
    HandOff(m, prio, [mutexLocked EXCEPT ![t] = @ \ {m}])

\* The part shared by PKunlock and PKunlockAllDepthLevels: unlink m from
\* the owner's list, recompute the owner's priority, hand m off.
Release(t, m) ==
    LET others == mutexLocked[t] \ {m}
    IN  \E pr \in Priorities :
            /\ IsRecomputed(pr, savedPriority[t], others)
            /\ HandOff(m, [prio EXCEPT ![t] = pr],
                          [mutexLocked EXCEPT ![t] = others])
-----------------------------------------------------------------------------
\* A thread that calls into the kernel from its own code.
Runs(t) == pc[t] = "run" /\ Scheduled(t)
Calls(t, operation) == Runs(t) /\ operation \in Uses[t]

\* Callers lock in increasing order.  Mutexes taken in a cyclic order
\* deadlock, and then the inheritance loop of PKlock never ends.
InOrder(t, m) == \A k \in mutexLocked[t] : k < m

HeldMore(t, m) == held' = [held EXCEPT ![t][m] = @ + 1]
HeldLess(t, m) == held' = [held EXCEPT ![t][m] = @ - 1]

PKlock(t, m) ==
    /\ Calls(t, "lock")
    /\ owner[m] # t => InOrder(t, m) /\ Cardinality(mutexLocked[t]) < MaxHeld
    /\ \/ /\ TakeFree(t, m)
          /\ HeldMore(t, m)
          /\ UNCHANGED <<recursiveDepth, pc, target>>
       \/ /\ owner[m] = t
          /\ recursiveDepth[m] \in 0 .. MaxDepth - 1  \* else MUTEX_DEADLOCK
          /\ recursiveDepth' = [recursiveDepth EXCEPT ![m] = @ + 1]
          /\ HeldMore(t, m)
          /\ UNCHANGED <<listVars, heapVars, prio, mutexWaiting, wait, pc, target>>
       \/ /\ owner[m] \notin {NoThread, t}
          /\ Enqueue(t, m)
          /\ pc' = [pc EXCEPT ![t] = "lock"]
          /\ target' = [target EXCEPT ![t] = m]
          /\ UNCHANGED <<recursiveDepth, held>>
    /\ UNCHANGED <<condVars, base>>

\* Fails, changing nothing, on a mutex owned by another thread and on a
\* non recursive mutex of the caller.
PKtryLock(t, m) ==
    /\ Calls(t, "tryLock")
    /\ owner[m] # t => Cardinality(mutexLocked[t]) < MaxHeld
    /\ \/ /\ TakeFree(t, m)
          /\ UNCHANGED recursiveDepth
       \/ /\ owner[m] = t
          /\ recursiveDepth[m] \in 0 .. MaxDepth - 1
          /\ recursiveDepth' = [recursiveDepth EXCEPT ![m] = @ + 1]
          /\ UNCHANGED <<listVars, heapVars, prio, mutexWaiting, wait>>
    /\ HeldMore(t, m)
    /\ UNCHANGED <<condVars, pc, target, base>>

\* while(owner!=p) { IRQwait(); yield } after a wakeup.
LockLoop(t) ==
    /\ pc[t] \in {"lock", "relock"}
    /\ Scheduled(t)
    /\ \/ /\ owner[target[t]] # t
          /\ wait' = [wait EXCEPT ![t] = TRUE]
          /\ UNCHANGED <<pc, target, recursiveDepth, held>>
       \/ /\ owner[target[t]] = t
          /\ pc' = [pc EXCEPT ![t] = "run"]
          /\ target' = [target EXCEPT ![t] = NoMutex]
          /\ IF pc[t] = "lock"
             THEN HeldMore(t, target[t]) /\ UNCHANGED recursiveDepth
             ELSE /\ recursiveDepth' = IF recursiveDepth[target[t]] >= 0
                        THEN [recursiveDepth EXCEPT ![target[t]] = depth[t]]
                        ELSE recursiveDepth
                  /\ UNCHANGED held
          /\ UNCHANGED wait
    /\ UNCHANGED <<listVars, heapVars, prio, mutexWaiting, condVars, base>>

\* Returns early, changing nothing, when the caller is not the owner.
PKunlock(t, m) ==
    /\ Runs(t)
    /\ owner[m] = t
    /\ HeldLess(t, m)
    /\ \/ /\ recursiveDepth[m] > 0
          /\ recursiveDepth' = [recursiveDepth EXCEPT ![m] = @ - 1]
          /\ UNCHANGED <<listVars, heapVars, prio, mutexWaiting, wait>>
       \/ /\ recursiveDepth[m] <= 0
          /\ Release(t, m)
          /\ UNCHANGED recursiveDepth
    /\ UNCHANGED <<condVars, pc, target, base>>

setPriority(t, new) ==
    /\ Calls(t, "setPriority")
    /\ \E pr \in Priorities :
          /\ IF mutexLocked[t] = {} THEN pr = new
                                    ELSE IsRecomputed(pr, new, mutexLocked[t])
          /\ prio' = [prio EXCEPT ![t] = pr]
    /\ savedPriority' = IF mutexLocked[t] = {} THEN savedPriority
                        ELSE [savedPriority EXCEPT ![t] = new]
    /\ base' = [base EXCEPT ![t] = new]
    /\ mutexLocked[t] # {} => savedPriority[t] # new   \* early return
    /\ UNCHANGED <<owner, mutexLocked, heapVars, recursiveDepth, mutexWaiting,
                   wait, condVars, pc, target, held>>
-----------------------------------------------------------------------------
(* ConditionVariable *)

\* Mutant: the nesting level of a recursive mutex is dropped by the wait.
cwait_ForgetsDepth(t) ==
    /\ Calls(t, "wait")
    /\ owner[CondMutex] = t
    /\ \A k \in mutexLocked[t] : k <= CondMutex
    /\ cond' = Append(cond, t)
    /\ condWait' = [condWait EXCEPT ![t] = TRUE]
    /\ depth' = [depth EXCEPT ![t] = 0]
    /\ Release(t, CondMutex)
    /\ recursiveDepth' = IF recursiveDepth[CondMutex] < 0 THEN recursiveDepth
                         ELSE [recursiveDepth EXCEPT ![CondMutex] = 0]
    /\ pc' = [pc EXCEPT ![t] = "cond"]
    /\ UNCHANGED <<target, base, held>>

\* wait(Mutex&) up to its yield.  The caller owns the mutex and, since it
\* will lock it again, holds none that comes after it.
cwait(t) ==
    /\ Calls(t, "wait")
    /\ owner[CondMutex] = t
    /\ \A k \in mutexLocked[t] : k <= CondMutex
    /\ cond' = Append(cond, t)
    /\ condWait' = [condWait EXCEPT ![t] = TRUE]
    /\ depth' = [depth EXCEPT ![t] = IF recursiveDepth[CondMutex] < 0 THEN 0
                                     ELSE recursiveDepth[CondMutex]]
    /\ Release(t, CondMutex)
    /\ recursiveDepth' = IF recursiveDepth[CondMutex] < 0 THEN recursiveDepth
                         ELSE [recursiveDepth EXCEPT ![CondMutex] = 0]
    /\ pc' = [pc EXCEPT ![t] = "cond"]
    /\ UNCHANGED <<target, base, held>>

\* wait(Mutex&) from its yield: PKlockToDepth.
PKlockToDepth(t) ==
    /\ pc[t] = "cond"
    /\ Scheduled(t)
    /\ \/ /\ TakeFree(t, CondMutex)
          /\ recursiveDepth' = IF recursiveDepth[CondMutex] < 0 THEN recursiveDepth
                               ELSE [recursiveDepth EXCEPT ![CondMutex] = depth[t]]
          /\ pc' = [pc EXCEPT ![t] = "run"]
          /\ UNCHANGED target
       \/ /\ owner[CondMutex] \notin {NoThread, t}
          /\ Enqueue(t, CondMutex)
          /\ pc' = [pc EXCEPT ![t] = "relock"]
          /\ target' = [target EXCEPT ![t] = CondMutex]
          /\ UNCHANGED recursiveDepth
    /\ UNCHANGED <<condVars, base, held>>

signal(t) ==
    /\ Calls(t, "signal")
    /\ cond # <<>>
    /\ condWait' = [condWait EXCEPT ![Head(cond)] = FALSE]
    /\ cond' = Tail(cond)
    /\ UNCHANGED <<listVars, heapVars, recursiveDepth, prio, mutexWaiting, wait,
                   pc, target, depth, base, held>>

broadcast(t) ==
    /\ Calls(t, "signal")
    /\ cond # <<>>
    /\ condWait' = [u \in Threads |-> condWait[u] /\ ~\E i \in DOMAIN cond : cond[i] = u]
    /\ cond' = <<>>
    /\ UNCHANGED <<listVars, heapVars, recursiveDepth, prio, mutexWaiting, wait,
                   pc, target, depth, base, held>>

\* Thread::sleep() and the timer interrupt that ends it.
sleep(t) ==
    /\ Calls(t, "sleep")
    /\ pc' = [pc EXCEPT ![t] = "sleep"]
    /\ UNCHANGED <<listVars, heapVars, recursiveDepth, prio, mutexWaiting, wait,
                   condVars, target, base, held>>

IRQwakeThreads(t) ==
    /\ pc[t] = "sleep"
    /\ pc' = [pc EXCEPT ![t] = "run"]
    /\ UNCHANGED <<listVars, heapVars, recursiveDepth, prio, mutexWaiting, wait,
                   condVars, target, base, held>>

\* Thread::wakeup() called by other code on a thread that waits for a
\* mutex: the reason for the while loop.
SpuriousWakeup(t) ==
    /\ wait[t]
    /\ wait' = [wait EXCEPT ![t] = FALSE]
    /\ UNCHANGED <<listVars, heapVars, recursiveDepth, prio, mutexWaiting,
                   condVars, pc, target, base, held>>

Next ==
    \E t \in Threads :
        \/ \E m \in Mutexes : PKlock(t, m) \/ PKtryLock(t, m) \/ PKunlock(t, m)
        \/ LockLoop(t)
        \/ \E pr \in Priorities : setPriority(t, pr)
        \/ cwait(t) \/ PKlockToDepth(t) \/ signal(t) \/ broadcast(t)
        \/ sleep(t) \/ IRQwakeThreads(t) \/ SpuriousWakeup(t)

Spec == Init /\ [][Next]_vars

\* A ready thread eventually gets the CPU (with StrictPriority: if its
\* priority entitles it to) and the threads of the application release what
\* they lock; whether and what they lock is up to them.
FairSpec ==
    /\ Spec
    /\ \A t \in Threads :
          /\ WF_vars(IRQwakeThreads(t))
          /\ WF_vars(LockLoop(t))
          /\ WF_vars(PKlockToDepth(t))
          /\ \A m \in Mutexes : SF_vars(PKunlock(t, m))
-----------------------------------------------------------------------------
(* Properties *)

\* The four views of who holds and who wants a mutex agree: Mutex::owner
\* with the owner's mutexLocked list, Mutex::waiting with each thread's
\* mutexWaiting.  A mutex with waiters has an owner, who is not one of them.
\* This is what the errorHandler(UNEXPECTED) tests of sync.cpp rely on.  And
\* no wakeup is lost: a thread asleep in lock() waits for the mutex it asked
\* for, and one asleep in wait() is in the condition variable's list, once.
OwnershipConsistent ==
    /\ TypeOK
    /\ \A m \in Mutexes :
         /\ \A t \in Threads : owner[m] = t <=> m \in mutexLocked[t]
         /\ waiting[m] = {t \in Threads : mutexWaiting[t] = m}
         /\ waiting[m] # {} => owner[m] \in Threads \ waiting[m]
    /\ \A t \in Threads :
         /\ wait[t] => target[t] # NoMutex /\ mutexWaiting[t] = target[t]
         /\ condWait[t] <=> \E i \in DOMAIN cond : cond[i] = t
         /\ \A i, j \in DOMAIN cond : cond[i] = t /\ cond[j] = t => i = j

\* waiting.front() has the highest priority among the waiters at all times,
\* although inheritance changes the priority of threads inside the heap.
FrontIsHighest ==
    \A m \in Mutexes : front[m] \in HeapTops(waiting[m], prio)

\* A thread that holds no mutex runs at the priority it asked for, and one
\* that holds some remembers it: inherited priority is always given back.
NoPriorityLeak ==
    \A t \in Threads :
        base[t] = IF mutexLocked[t] = {} THEN prio[t] ELSE savedPriority[t]

\* A thread's priority is max(savedPriority, inheritedPriority).
InheritsHighest ==
    \A t \in Threads :
        LET candidates == {base[t]} \cup
                {prio[u] : u \in UNION {waiting[m] : m \in mutexLocked[t]}}
        IN  prio[t] \in candidates /\ \A c \in candidates : c <= prio[t]

\* In a thread's own code the number of lock calls it has not yet undone is
\* what the mutex records, also across ConditionVariable::wait(), and no
\* two threads hold a mutex at once.
CallsMatchOwnership ==
    \A t \in Threads, m \in Mutexes :
        pc[t] = "run" =>
            held[t][m] = IF owner[m] # t THEN 0
                         ELSE IF recursiveDepth[m] < 0 THEN 1
                         ELSE recursiveDepth[m] + 1

\* Bounded priority inversion: the highest priority thread gets the mutex
\* it waits for although lower priority threads that never block may keep
\* the CPU busy.
HighestGetsMutex ==
    \A t \in Threads :
        (\A u \in Threads \ {t} : InitialPriority[u] < InitialPriority[t])
        => (mutexWaiting[t] # NoMutex ~> mutexWaiting[t] = NoMutex)
=============================================================================
