------------------------------ MODULE EventQueue ------------------------------
(***************************************************************************)
(* e20/e20.cpp, class EventQueue: an unbounded queue of event functions    *)
(* under a FastMutex and a ConditionVariable.  The functions are called    *)
(* with the mutex released and may throw.                                  *)
(***************************************************************************)
EXTENDS FastMutex, FiniteSets

CONSTANTS Posters,   \* threads that call post(); one event each is pending
          Runners    \* threads that call run() and runOne()

ASSUME EventQueueAssumption ==
    /\ IsFiniteSet(Threads)
    /\ Posters \subseteq Threads /\ Runners \subseteq Threads

VARIABLES events,    \* pending events, each named by the thread posting it
          at         \* place of each thread in the queue's code

queueVars == <<events, at>>

Places == {"idle", "push", "signal", "unlock", "loop", "unlockRun", "call",
           "one", "unlockOne", "callOne"}

QueueTypeOK ==
    /\ events \in Seq(Posters)
    /\ at \in [Threads -> Places]

QueueInit ==
    /\ events = <<>>
    /\ at = [t \in Threads |-> "idle"]
-----------------------------------------------------------------------------
Move(t, from, to) == at[t] = from /\ at' = [at EXCEPT ![t] = to]
Call(t, from, to) == Move(t, from, to) /\ UNCHANGED events

\* Mutant: nobody is signalled when the queue already has an event.
post_SignalIfEmpty(t) ==
    \/ ~In(events, t) /\ Call(t, "idle", "push") /\ pthread_mutex_lock(t)
    \/ /\ Move(t, "push", IF events = <<>> THEN "signal" ELSE "unlock")
       /\ Holds(t)
       /\ events' = Append(events, t)
       /\ UNCHANGED mutexVars
    \/ Call(t, "signal", "unlock") /\ pthread_cond_signal(t)
    \/ Call(t, "unlock", "idle") /\ pthread_mutex_unlock(t)

post(t) ==
    \/ ~In(events, t) /\ Call(t, "idle", "push") /\ pthread_mutex_lock(t)
    \/ /\ Move(t, "push", "signal")
       /\ Holds(t)
       /\ events' = Append(events, t)
       /\ UNCHANGED mutexVars
    \/ Call(t, "signal", "unlock") /\ pthread_cond_signal(t)
    \/ Call(t, "unlock", "idle") /\ pthread_mutex_unlock(t)

\* The front of the list is copied and popped.
PopFront(t, from, to) ==
    /\ Holds(t) /\ Move(t, from, to)
    /\ events # <<>>
    /\ events' = Tail(events)
    /\ UNCHANGED mutexVars

\* An event function that returns leads back to the loop; one that throws
\* unwinds Unlock, which locks again, and then Lock.
run(t) ==
    \/ Call(t, "idle", "loop") /\ pthread_mutex_lock(t)
    \/ events = <<>> /\ Call(t, "loop", "loop") /\ pthread_cond_wait(t)
    \/ PopFront(t, "loop", "unlockRun")
    \/ Call(t, "unlockRun", "call") /\ pthread_mutex_unlock(t)
    \/ Call(t, "call", "loop") /\ pthread_mutex_lock(t)
    \/ Call(t, "call", "unlock") /\ pthread_mutex_lock(t)
    \/ Call(t, "unlock", "idle") /\ pthread_mutex_unlock(t)

runOne(t) ==
    \/ Call(t, "idle", "one") /\ pthread_mutex_lock(t)
    \/ /\ events = <<>> /\ Holds(t)
       /\ Call(t, "one", "unlock") /\ UNCHANGED mutexVars
    \/ PopFront(t, "one", "unlockOne")
    \/ Call(t, "unlockOne", "callOne") /\ pthread_mutex_unlock(t)
    \/ Call(t, "callOne", "idle") /\ UNCHANGED mutexVars

QueueStep(t) ==
    \/ t \in Posters /\ post(t)
    \/ t \in Runners /\ (run(t) \/ runOne(t))
    \/ Resume(t) /\ UNCHANGED queueVars
-----------------------------------------------------------------------------
(* Properties *)

\* Woken runners that have yet to look at the list of events.
Coming == {t \in Runners : at[t] = "loop" /\ ~condWait[t]}

\* A runner sleeps only when each pending event has a runner coming for it,
\* or a poster about to signal: signals and events cannot get out of step,
\* whichever thread gets the mutex first, and also when a runner throws.
RunnersNotForgotten ==
    /\ QueueTypeOK
    /\ cond # <<>> =>
         Len(events) <= Cardinality(Coming \cup {t \in Posters : at[t] = "signal"})

\* A posted event is taken as long as some thread is in run().
EventsRun ==
    \A t \in Posters :
        In(events, t)
        ~> (~In(events, t) \/ \A r \in Runners : at[r] \notin {"loop", "unlockRun", "call"})
=============================================================================
