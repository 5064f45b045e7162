------------------------------- MODULE Pthread -------------------------------
(***************************************************************************)
(* Applications of kernel/pthread.cpp.  Threads use the mutex and the      *)
(* condition variable directly ("mutex"), through an EventQueue            *)
(* ("events") or the ProcessPool ("pool"), or they call pthread_once()     *)
(* ("once"): a behaviour is of one of the four, which do not interact.     *)
(***************************************************************************)
EXTENDS EventQueue, ProcessPool

CONSTANTS Users,     \* threads of the applications other than "events"
          Waiters    \* those that wait on the condition variable; the others
                     \* may signal it

ASSUME PthreadAssumption == Waiters \subseteq Users /\ Users \subseteq Threads

VARIABLES app,
          init_executed,   \* of a pthread_once_t
          once,            \* place of each thread in pthread_once()
          completed        \* history: times func() returned

onceVars == <<init_executed, once, completed>>
vars     == <<app, mutexVars, queueVars, poolVars, onceVars>>

Apps == {"mutex", "events", "pool", "once"}

OnceTypeOK ==
    /\ init_executed \in 0 .. 2
    /\ once \in [Threads -> {"before", "again", "func", "done"}]
    /\ completed \in 0 .. 1

Init ==
    /\ app \in Apps
    /\ \E type \in {-1, 0} : MutexInit(type) /\ (type = 0 => app = "mutex")
    /\ QueueInit
    /\ PoolInit
    /\ init_executed = 0
    /\ once = [t \in Threads |-> "before"]
    /\ completed = 0
-----------------------------------------------------------------------------
OnceGoto(t, place) == once' = [once EXCEPT ![t] = place]

\* Mutant: a second caller does not wait for the first to complete.
pthread_once_NoWait(t) ==
    /\ once[t] # "func"
    /\ init_executed' = IF init_executed = 0 THEN 1 ELSE init_executed
    /\ OnceGoto(t, IF init_executed = 0 THEN "func" ELSE "done")
    /\ UNCHANGED completed

\* One round of the loop of pthread_once(): the caller gets to call func(),
\* yields because somebody is calling it, or finds it done.
pthread_once(t) ==
    /\ once[t] # "func"
    /\ \/ init_executed = 0 /\ init_executed' = 1 /\ OnceGoto(t, "func")
       \/ init_executed = 1 /\ OnceGoto(t, "again") /\ UNCHANGED init_executed
       \/ init_executed = 2 /\ OnceGoto(t, "done") /\ UNCHANGED init_executed
    /\ UNCHANGED completed

\* func() throws: the exception leaves pthread_once().
FuncThrows(t) ==
    /\ once[t] = "func"
    /\ init_executed' = 0
    /\ OnceGoto(t, "before")
    /\ UNCHANGED completed

\* func() returns.
FuncReturns(t) ==
    /\ once[t] = "func"
    /\ completed' = completed + 1
    /\ init_executed' = 2
    /\ OnceGoto(t, "done")

\* The mutex and the condition variable, in any order the contract allows.
UserStep(t) ==
    \/ t \in Users /\ (pthread_mutex_lock(t) \/ pthread_mutex_trylock(t))
    \/ pthread_mutex_unlock(t)
    \/ t \in Waiters /\ pthread_cond_wait(t)
    \/ t \in Users \ Waiters /\ (pthread_cond_signal(t) \/ pthread_cond_broadcast(t))
    \/ Resume(t)

MutexApp(A)  == app = "mutex" /\ A /\ UNCHANGED <<app, queueVars, poolVars, onceVars>>
EventsApp(A) == app = "events" /\ A /\ UNCHANGED <<app, poolVars, onceVars>>
PoolApp(A)   == app = "pool" /\ A /\ UNCHANGED <<app, queueVars, onceVars>>
OnceApp(A)   == app = "once" /\ A /\ UNCHANGED <<app, mutexVars, queueVars, poolVars>>

Next == \E t \in Threads :
    \/ MutexApp(UserStep(t)) \/ MutexApp(SpuriousWakeup(t))
    \/ EventsApp(QueueStep(t)) \/ EventsApp(SpuriousWakeup(t) /\ UNCHANGED queueVars)
    \/ PoolApp(t \in Users /\ PoolStep(t))
    \/ OnceApp(t \in Users /\ pthread_once(t)) \/ OnceApp(FuncThrows(t)) \/ OnceApp(FuncReturns(t))

Spec == Init /\ [][Next]_vars

\* A thread that is ready runs: the other threads have its priority, or
\* block and leave it the CPU.  An application that has locked the mutex gives
\* it back in the end, and code inside the event queue and the pool goes on.
\* No thread has to call anything.  Nothing is assumed for pthread_once(),
\* whose callers spin on Thread::yield() and so can keep the CPU from a
\* thread of lower priority that is executing func().
FairSpec ==
    /\ Spec
    /\ \A t \in Users :
         /\ WF_vars(MutexApp(Resume(t)))
         /\ WF_vars(MutexApp(pthread_mutex_unlock(t)))
         /\ SF_vars(MutexApp(held[t] = 1 /\ pthread_mutex_unlock(t)))
         /\ WF_vars(PoolApp(job[t] # Job("idle") /\ PoolStep(t)))
    /\ \A t \in Threads : WF_vars(EventsApp(at[t] # "idle" /\ QueueStep(t)))
-----------------------------------------------------------------------------
(* Properties *)

\* No call of pthread_once() returns before func() has completed, it
\* completes once, and its executions never overlap.
OnceCompleted ==
    /\ OnceTypeOK
    /\ \A t \in Threads : once[t] = "done" => completed = 1
    /\ \A t, u \in Threads : once[t] = "func" /\ once[u] = "func" => t = u
    /\ \A t \in Threads : once[t] = "func" => completed = 0

\* Every wait inside these functions ends: for the mutex, which is handed on
\* in order of arrival, and for an event, which a runner takes.
WaitsEnd == LockReturns /\ EventsRun
=============================================================================
