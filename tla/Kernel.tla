------------------------------- MODULE Kernel -------------------------------
(***************************************************************************)
(* The preemptive core of the kernel on one CPU: kernel/kernel.cpp (sleep, *)
(* wait and wakeup, pauseKernel/restartKernel, the idle thread, thread     *)
(* creation and termination), the preemption interrupt                     *)
(* (scheduler/timer_interrupt.h) and the two schedulers, of which a build  *)
(* has one: by priority (scheduler/priority/priority_scheduler.cpp) or by  *)
(* earliest deadline (scheduler/edf/edf_scheduler.cpp).                    *)
(*                                                                         *)
(* The sorted list of the EDF scheduler is kept as its runs of threads     *)
(* with the same deadline, the nearest being the highest priority; the     *)
(* idle thread is at its end.  Deadlines do not move by themselves.        *)
(*                                                                         *)
(* A section of code run with interrupts disabled, or with the kernel      *)
(* paused and no loop around a yield, is one action.  Thread::yield() is a *)
(* section of its own, so an interrupt can come between a thread's going   *)
(* to sleep and its yield, and so are the two halves of restartKernel().   *)
(*                                                                         *)
(* Time is relative: each pending instant is how far in the future it is,  *)
(* and stays 0 once it is past.  Never stands for the largest long long.   *)
(***************************************************************************)
EXTENDS Integers, Sequences, FiniteSets

CONSTANTS
    Threads,            \* thread memory blocks, reusable after a free
    Idle,               \* the idle thread
    Main,               \* the thread startKernel() creates, which never ends
    PRIORITY_MAX,       \* number of priorities
    InitialPriority,    \* priority each thread is created with
    MAX_TIME_SLICE,     \* length of a burst
    MaxSleep,           \* bound on sleep times
    MaxNesting,         \* bound on nested pauseKernel() calls
    Ops,                \* the operations threads and devices use
    Never               \* time of an interrupt that never comes

ASSUME KernelAssumption ==
    /\ Idle \notin Threads
    /\ Main \in Threads
    /\ PRIORITY_MAX \in Nat \ {0}
    /\ InitialPriority \in [Threads -> 0 .. PRIORITY_MAX - 1]
    /\ MAX_TIME_SLICE \in Nat \ {0}
    /\ MaxSleep \in Nat
    /\ MaxNesting \in Nat
    /\ Never \in Nat /\ Never > MAX_TIME_SLICE /\ Never > MaxSleep

Prios == 0 .. PRIORITY_MAX - 1

VARIABLES
    policy,           \* the scheduler of the build: "priority" or "edf"
    cur,              \* thread running
    thread_list,      \* per priority, the circular list from its head; in the
                      \* EDF scheduler, per deadline, that part of the list
    prio,             \* schedData.priority
    wait,             \* WAIT flag
    sleep,            \* SLEEP flag
    deleted,          \* DELETED flag (threads here are detached)
    sleepingList,     \* SleepData records, in list order
    nextPreemption,   \* nextPeriodicPreemption
    armed,            \* the one-shot OS timer will still interrupt
    kernel_running,   \* number of nested pauseKernel()
    pendingWakeup,
    exist_deleted,
    pc,               \* where each thread is
    missed            \* history: threads ready when a request for a context
                      \* switch was dropped, and no switch has come since

vars == <<policy, cur, thread_list, prio, wait, sleep, deleted, sleepingList,
          nextPreemption, armed, kernel_running, pendingWakeup, exist_deleted,
          pc, missed>>
flags     == <<wait, sleep, deleted>>
scheduler == <<policy, cur, thread_list, nextPreemption, armed, missed>>

Elements(s) == {s[i] : i \in DOMAIN s}
Allocated == UNION {Elements(thread_list[p]) : p \in Prios}

\* "yield": about to call Thread::yield(); "restart": in restartKernel(),
\* kernel_running just went to 0.  The others are places of the idle loop.
ThreadPlaces == {"run", "yield", "restart"}
IdlePlaces   == {"check", "pause", "reap", "unpause", "restart", "yield", "sleepCpu"}

TypeOK ==
    /\ policy \in {"priority", "edf"}
    /\ cur \in Threads \cup {Idle}
    /\ thread_list \in [Prios -> Seq(Threads)]
    /\ prio \in [Threads -> Prios]
    /\ wait \in [Threads -> BOOLEAN]
    /\ sleep \in [Threads -> BOOLEAN]
    /\ deleted \in [Threads -> BOOLEAN]
    /\ sleepingList \in Seq([p : Threads, time : 0 .. MaxSleep])
    /\ nextPreemption \in 0 .. Never
    /\ armed \in BOOLEAN
    /\ kernel_running \in 0 .. MaxNesting + 1
    /\ pendingWakeup \in BOOLEAN
    /\ exist_deleted \in BOOLEAN
    /\ pc \in [Threads \cup {Idle} -> ThreadPlaces \cup IdlePlaces]
    /\ missed \subseteq Threads

\* startKernel(), and the first context switch to the main thread.
Init ==
    /\ policy \in {"priority", "edf"}
    /\ prio = InitialPriority
    /\ cur = Main
    /\ thread_list = [p \in Prios |-> IF p = prio[Main] THEN <<Main>> ELSE <<>>]
    /\ wait = [t \in Threads |-> FALSE]
    /\ sleep = [t \in Threads |-> FALSE]
    /\ deleted = [t \in Threads |-> FALSE]
    /\ sleepingList = <<>>
    /\ nextPreemption = IF policy = "edf" THEN Never ELSE MAX_TIME_SLICE
    /\ armed = TRUE
    /\ kernel_running = 0
    /\ pendingWakeup = FALSE
    /\ exist_deleted = FALSE
    /\ pc = [t \in Threads \cup {Idle} |-> IF t = Idle THEN "check" ELSE "run"]
    /\ missed = {}
-----------------------------------------------------------------------------
(* The schedulers *)

Ready(t) == ~wait[t] /\ ~sleep[t] /\ ~deleted[t]      \* ThreadFlags::isReady

Priority(t) == IF t = Idle THEN -1 ELSE prio[t]

\* EDFScheduler::add(): before the threads with the same deadline.
add(list, t) == <<t>> \o list

\* A new thread goes after the head of its circular list.
PKaddThread(lists, t, p) ==
    [lists EXCEPT ![p] = IF policy = "edf" THEN add(@, t)
                         ELSE IF @ = <<>> THEN <<t>>
                         ELSE <<Head(@), t>> \o Tail(@)]

\* What a list becomes when the threads in out are unlinked: the n-th element
\* is the one that n of those that stay lead up to.
Without(s, out) ==
    LET stay    == {i \in DOMAIN s : s[i] \notin out}
        rank(i) == Cardinality({j \in stay : j <= i})
    IN  [n \in 1 .. Cardinality(stay) |-> s[CHOOSE i \in stay : rank(i) = n]]

\* Mutant: the thread is linked in its new list, not removed from the old.
PKsetPriority_NoRemove(lists, t, p) == PKaddThread(lists, t, p)

PKsetPriority(lists, t, p) ==
    PKaddThread([lists EXCEPT ![prio[t]] = Without(@, {t})], t, p)

PKremoveDeadThreads ==
    [p \in Prios |-> Without(thread_list[p], {t \in Threads : deleted[t]})]

MinOf(a, b) == IF a < b THEN a ELSE b

firstWakeupInList == IF sleepingList = <<>> THEN Never ELSE sleepingList[1].time

\* Mutant: the timer is set to the end of the burst whatever the sleepers.
IRQsetNextPreemption_IgnoresSleepers(curIsIdleThread) ==
    /\ nextPreemption' = IF curIsIdleThread THEN firstWakeupInList'
                         ELSE MAX_TIME_SLICE
    /\ armed' = TRUE

\* Called after the sections' changes to sleepingList.  With deadlines
\* there is no time slice.
IRQsetNextPreemption(curIsIdleThread) ==
    /\ nextPreemption' = IF curIsIdleThread \/ policy = "edf" THEN firstWakeupInList'
                         ELSE MinOf(firstWakeupInList', MAX_TIME_SLICE)
    /\ armed' = TRUE

\* EDFScheduler::IRQfindNextThread() walks its list from the head.
walk(p) == thread_list[p]

\* The list of priority p, as scanned: from the thread after the head.
ScanOrder(p) == IF policy = "edf" THEN walk(p)
                ELSE Tail(thread_list[p]) \o <<Head(thread_list[p])>>

\* Mutant: the head of the list does not rotate to the chosen thread.
RotateTo_Head(p, i) == thread_list[p]

\* The list of priority p once its head is the i-th thread scanned.
RotateTo(p, i) ==
    IF policy = "edf" THEN walk(p)
    ELSE SubSeq(ScanOrder(p), i, Len(thread_list[p])) \o SubSeq(ScanOrder(p), 1, i - 1)

\* The context switch: the first ready thread found scanning priorities
\* downwards and each list from after its head, or the idle thread; the
\* timer follows.  While the kernel is paused the request is dropped.
IRQfindNextThread ==
    LET ready  == {t \in Threads : Ready(t)'}
        levels == {p \in Prios : Elements(thread_list[p]) \cap ready # {}}
    IN
    /\ UNCHANGED policy
    /\ \/ /\ kernel_running # 0
          /\ missed' = missed \cup (ready \cap Allocated)
          /\ UNCHANGED <<cur, thread_list, nextPreemption, armed>>
       \/ /\ kernel_running = 0 /\ levels = {}
          /\ cur' = Idle
          /\ missed' = {}
          /\ IRQsetNextPreemption(TRUE)
          /\ UNCHANGED thread_list
       \/ /\ kernel_running = 0
          /\ missed' = {}
          /\ \E p \in levels :
                /\ \A q \in levels : q <= p
                /\ \E i \in 1 .. Len(thread_list[p]) :
                      /\ ScanOrder(p)[i] \in ready
                      /\ \A j \in 1 .. i - 1 : ScanOrder(p)[j] \notin ready
                      /\ cur' = ScanOrder(p)[i]
                      /\ thread_list' = [thread_list EXCEPT ![p] = RotateTo(p, i)]
          /\ IRQsetNextPreemption(FALSE)
-----------------------------------------------------------------------------
(* Operations of the running thread t *)

At(t, place) == cur = t /\ pc[t] = place
Goto(t, place) == pc' = [pc EXCEPT ![t] = place]
Running(t, op) == op \in Ops /\ At(t, "run") /\ kernel_running = 0

\* How many sleepers from the front of the list wake before time: where a
\* walk of the sorted list stops.
WakingBefore(time) ==
    LET others == {i \in DOMAIN sleepingList : sleepingList[i].time >= time}
    IN  IF others = {} THEN Len(sleepingList)
        ELSE (CHOOSE i \in others : \A j \in others : i <= j) - 1

\* Mutant: the list is kept in order of arrival.
InsertSleeper_Unsorted(t, time) == Append(sleepingList, [p |-> t, time |-> time])

\* IRQaddToSleepingList(): before the first element that wakes no earlier.
InsertSleeper(t, time) ==
    LET n == WakingBefore(time)
    IN  SubSeq(sleepingList, 1, n) \o <<[p |-> t, time |-> time]>>
        \o SubSeq(sleepingList, n + 1, Len(sleepingList))

nanoSleepUntil(t, time) ==
    /\ Running(t, "sleep")
    /\ sleep' = [sleep EXCEPT ![t] = TRUE]
    /\ sleepingList' = InsertSleeper(t, time)
    /\ Goto(t, "yield")
    /\ UNCHANGED <<scheduler, prio, wait, deleted, kernel_running,
                   pendingWakeup, exist_deleted>>

Wait(t) ==
    /\ Running(t, "wait")
    /\ wait' = [wait EXCEPT ![t] = TRUE]
    /\ Goto(t, "yield")
    /\ UNCHANGED <<scheduler, prio, sleep, deleted, sleepingList,
                   kernel_running, pendingWakeup, exist_deleted>>

\* Where an operation that may make a thread with a nearer deadline ready
\* leaves the caller: with the EDF scheduler it yields, unless the kernel is
\* paused; the switch is then left to the caller.
AfterReadying == IF policy = "edf" /\ kernel_running = 0 THEN "yield" ELSE "run"

LeaveSwitch(left) ==
    missed' = IF left /\ policy = "edf" THEN missed \cup {u \in Allocated' : Ready(u)'}
              ELSE missed

\* Thread::wakeup() and, with the kernel paused, PKwakeup().
wakeup(t, u) ==
    /\ "wakeup" \in Ops /\ At(t, "run")
    /\ wait[u]
    /\ wait' = [wait EXCEPT ![u] = FALSE]
    /\ Goto(t, AfterReadying)
    /\ UNCHANGED <<policy, cur, thread_list, nextPreemption, armed, prio, sleep,
                   deleted, sleepingList, kernel_running, pendingWakeup, exist_deleted>>
    /\ LeaveSwitch(kernel_running # 0)

\* A thread asks to yield.
yield(t) ==
    /\ Running(t, "yield")
    /\ Goto(t, "yield")
    /\ UNCHANGED <<scheduler, prio, flags, sleepingList, kernel_running,
                   pendingWakeup, exist_deleted>>

\* doYield(): the supervisor call runs the scheduler.
ISR_yield(t, resume) ==
    /\ At(t, "yield")
    /\ Goto(t, resume)
    /\ UNCHANGED <<prio, flags, sleepingList, kernel_running, pendingWakeup,
                   exist_deleted>>
    /\ IRQfindNextThread

\* The yield at the end never happens: the function has paused the kernel.
setPriority(t, p) ==
    /\ "setPriority" \in Ops /\ At(t, "run")
    /\ p # prio[t]
    /\ thread_list' = PKsetPriority(thread_list, t, p)
    /\ prio' = [prio EXCEPT ![t] = p]
    /\ UNCHANGED <<policy, cur, flags, sleepingList, nextPreemption, armed,
                   kernel_running, pendingWakeup, exist_deleted, pc>>
    /\ LeaveSwitch(TRUE)

pauseKernel(t) ==
    /\ "pause" \in Ops /\ At(t, "run")
    /\ kernel_running < MaxNesting      \* else NESTING_OVERFLOW at 0xff
    /\ kernel_running' = kernel_running + 1
    /\ UNCHANGED <<scheduler, prio, flags, sleepingList, pendingWakeup,
                   exist_deleted, pc>>

\* restartKernel(), the atomicAddExchange.
restartKernel(t) ==
    /\ At(t, "run")
    /\ kernel_running > 0
    /\ kernel_running' = kernel_running - 1
    /\ Goto(t, IF kernel_running = 1 THEN "restart" ELSE "run")
    /\ UNCHANGED <<scheduler, prio, flags, sleepingList, pendingWakeup,
                   exist_deleted>>

\* Mutant: the missed preemption is forgotten.
CheckPendingWakeup_NoYield(t, resume) ==
    /\ At(t, "restart")
    /\ Goto(t, resume)
    /\ pendingWakeup' = FALSE
    /\ UNCHANGED <<scheduler, prio, flags, sleepingList, kernel_running, exist_deleted>>

\* restartKernel(), the rest: yield at once if a preemption was missed.  The
\* code does not when interrupts are disabled: pausing and restarting the
\* kernel inside such a section, which nothing interrupts, changes nothing.
CheckPendingWakeup(t, resume) ==
    /\ At(t, "restart")
    /\ Goto(t, IF pendingWakeup THEN "yield" ELSE resume)
    /\ pendingWakeup' = FALSE
    /\ UNCHANGED <<scheduler, prio, flags, sleepingList, kernel_running, exist_deleted>>

\* Thread::create(): a free memory block becomes a thread.
create(t, new) ==
    /\ "create" \in Ops /\ At(t, "run")
    /\ new \notin Allocated
    /\ thread_list' = PKaddThread(thread_list, new, InitialPriority[new])
    /\ prio' = [prio EXCEPT ![new] = InitialPriority[new]]
    /\ pc' = [pc EXCEPT ![new] = "run", ![t] = AfterReadying]
    /\ UNCHANGED <<policy, cur, flags, sleepingList, nextPreemption, armed,
                   kernel_running, pendingWakeup, exist_deleted>>
    /\ LeaveSwitch(kernel_running # 0)

\* Mutant: the thread does not yield after marking itself deleted.
threadLauncher_NoYield(t) ==
    /\ Running(t, "exit")
    /\ t # Main
    /\ deleted' = [deleted EXCEPT ![t] = TRUE]
    /\ exist_deleted' = TRUE
    /\ UNCHANGED <<scheduler, prio, wait, sleep, sleepingList, kernel_running,
                   pendingWakeup, pc>>

\* The end of threadLauncher() for a detached thread.  The main thread does
\* not get here: mainLoader() shuts the system down.
threadLauncher(t) ==
    /\ Running(t, "exit")
    /\ t # Main
    /\ deleted' = [deleted EXCEPT ![t] = TRUE]
    /\ exist_deleted' = TRUE
    /\ Goto(t, "yield")
    /\ UNCHANGED <<scheduler, prio, wait, sleep, sleepingList, kernel_running,
                   pendingWakeup>>
-----------------------------------------------------------------------------
(* idleThread() *)

IdleStep(from, to) == At(Idle, from) /\ Goto(Idle, to)

idleThread ==
    \/ /\ IdleStep("check", IF exist_deleted THEN "pause" ELSE "sleepCpu")
       /\ UNCHANGED <<scheduler, prio, flags, sleepingList, kernel_running,
                      pendingWakeup, exist_deleted>>
    \/ /\ IdleStep("pause", "reap")
       /\ kernel_running' = kernel_running + 1
       /\ UNCHANGED <<scheduler, prio, flags, sleepingList, pendingWakeup,
                      exist_deleted>>
    \/ /\ IdleStep("reap", "unpause")
       /\ exist_deleted' = FALSE
       /\ thread_list' = PKremoveDeadThreads
       /\ deleted' = [t \in Threads |-> FALSE]
       /\ UNCHANGED <<policy, cur, prio, wait, sleep, sleepingList, nextPreemption,
                      armed, missed, kernel_running, pendingWakeup>>
    \/ /\ IdleStep("unpause", "restart")
       /\ kernel_running' = kernel_running - 1
       /\ UNCHANGED <<scheduler, prio, flags, sleepingList, pendingWakeup,
                      exist_deleted>>
-----------------------------------------------------------------------------
(* Interrupts *)

\* Returning from an interrupt ends the sleepCpu() of the idle thread.
WakeCpu == pc' = IF At(Idle, "sleepCpu") THEN [pc EXCEPT ![Idle] = "check"] ELSE pc

\* IRQwakeThreads() stops at the first sleeper that is not due.
DueCount == WakingBefore(1)

\* Mutant: a preemption that finds the kernel paused is not recorded.
IRQtimerInterrupt_NotPending ==
    LET woken == {sleepingList[i].p : i \in 1 .. DueCount}
        hptw  == \E t \in woken : Priority(cur) < prio[t]
    IN  /\ armed /\ nextPreemption = 0
        /\ sleep' = [t \in Threads |-> sleep[t] /\ t \notin woken]
        /\ sleepingList' = SubSeq(sleepingList, DueCount + 1, Len(sleepingList))
        /\ WakeCpu
        /\ UNCHANGED <<prio, wait, deleted, kernel_running, exist_deleted, pendingWakeup>>
        /\ IF kernel_running = 0 THEN IRQfindNextThread
           ELSE armed' = FALSE /\ UNCHANGED <<policy, cur, thread_list, nextPreemption, missed>>

\* The OS timer interrupt calls IRQtimerInterrupt().
IRQtimerInterrupt ==
    LET woken == {sleepingList[i].p : i \in 1 .. DueCount}
        hptw  == \E t \in woken : Priority(cur) < prio[t]
    IN  /\ armed /\ nextPreemption = 0
        /\ sleep' = [t \in Threads |-> sleep[t] /\ t \notin woken]
        /\ sleepingList' = SubSeq(sleepingList, DueCount + 1, Len(sleepingList))
        /\ WakeCpu
        /\ UNCHANGED <<prio, wait, deleted, kernel_running, exist_deleted>>
        /\ pendingWakeup' =
              (pendingWakeup \/ (kernel_running # 0 /\ (nextPreemption = 0 \/ hptw)))
        /\ IF kernel_running = 0 /\ (nextPreemption = 0 \/ hptw)
           THEN IRQfindNextThread
           ELSE armed' = FALSE /\ UNCHANGED <<policy, cur, thread_list, nextPreemption, missed>>

\* A device driver's interrupt wakes the thread waiting for it and, when
\* that thread has a higher priority than the running one, preempts.
DriverInterrupt(u) ==
    /\ "driver" \in Ops
    /\ wait[u]
    /\ wait' = [wait EXCEPT ![u] = FALSE]
    /\ WakeCpu
    /\ UNCHANGED <<prio, sleep, deleted, sleepingList, kernel_running,
                   pendingWakeup, exist_deleted>>
    /\ IF prio[u] > Priority(cur) THEN IRQfindNextThread ELSE UNCHANGED scheduler

Earlier(time) == IF time \in {0, Never} THEN time ELSE time - 1

\* Time passes.
Tick ==
    /\ nextPreemption \notin {0, Never} \/ \E d \in Elements(sleepingList) : d.time > 0
    /\ nextPreemption' = Earlier(nextPreemption)
    /\ sleepingList' = [i \in DOMAIN sleepingList |->
                          [sleepingList[i] EXCEPT !.time = Earlier(@)]]
    /\ UNCHANGED <<policy, cur, thread_list, armed, missed, prio, flags,
                   kernel_running, pendingWakeup, exist_deleted, pc>>

ThreadStep(t) ==
    \/ \E time \in 0 .. MaxSleep : nanoSleepUntil(t, time)
    \/ Wait(t) \/ yield(t) \/ pauseKernel(t) \/ threadLauncher(t)
    \/ \E u \in Threads : wakeup(t, u) \/ create(t, u)
    \/ \E p \in Prios : setPriority(t, p)
    \/ ISR_yield(t, "run") \/ restartKernel(t) \/ CheckPendingWakeup(t, "run")

IdleThreadStep ==
    idleThread \/ CheckPendingWakeup(Idle, "sleepCpu") \/ ISR_yield(Idle, "sleepCpu")

Next ==
    \/ \E t \in Threads : ThreadStep(t)
    \/ IdleThreadStep
    \/ IRQtimerInterrupt
    \/ \E u \in Threads : DriverInterrupt(u)
    \/ Tick

Spec == Init /\ [][Next]_vars

\* The CPU executes the running thread's kernel code, time passes and an
\* interrupt that is due is served; a thread that paused the kernel undoes
\* all its nested calls at some point.  Which operation a thread calls next,
\* if any, is up to it.
FairSpec ==
    /\ Spec
    /\ \A t \in Threads : /\ WF_vars(ISR_yield(t, "run"))
                          /\ WF_vars(restartKernel(t))
                          /\ SF_vars(restartKernel(t) /\ kernel_running' = 0)
                          /\ WF_vars(CheckPendingWakeup(t, "run"))
    /\ WF_vars(IdleThreadStep)
    /\ WF_vars(IRQtimerInterrupt)
    /\ WF_vars(Tick)
-----------------------------------------------------------------------------
(* Properties *)

\* Each thread is in exactly the list of its priority, once: the pointer
\* surgery of PKaddThread, PKsetPriority, PKremoveDeadThreads and the
\* rotation in IRQfindNextThread neither loses nor duplicates a thread.  The
\* SLEEP flag is set exactly for the threads in the sleeping list, which
\* is sorted, has no thread twice, and refers only to allocated threads
\* (its records live on their stacks).
ListsConsistent ==
    /\ TypeOK
    /\ \A p, q \in Prios : \A i \in DOMAIN thread_list[p], j \in DOMAIN thread_list[q] :
          /\ prio[thread_list[p][i]] = p
          /\ thread_list[p][i] = thread_list[q][j] => p = q /\ i = j
    /\ \A t \in Threads : sleep[t] <=> \E d \in Elements(sleepingList) : d.p = t
    /\ \A i, j \in DOMAIN sleepingList :
          i < j => /\ sleepingList[i].time <= sleepingList[j].time
                   /\ sleepingList[i].p # sleepingList[j].p
    /\ {d.p : d \in Elements(sleepingList)} \subseteq Allocated

\* The thread with the CPU exists and is ready, or is on its way to yield.
CurrentIsRunnable ==
    cur # Idle => cur \in Allocated /\ (Ready(cur) \/ pc[cur] = "yield")

\* The one-shot timer is always armed, except between an interrupt that
\* found the kernel paused and the yield that makes up for it.
NoLostPreemption ==
    ~armed => \/ pendingWakeup /\ (kernel_running # 0 \/ pc[cur] = "restart")
              \/ pc[cur] = "yield"

\* When a sleeper is due, the interrupt that wakes it is due too, or the
\* running thread is about to make up for one, or about to set the timer.
DueSleeperNotForgotten ==
    (\E d \in Elements(sleepingList) : d.time = 0)
    => \/ armed /\ nextPreemption = 0
       \/ pendingWakeup /\ (kernel_running # 0 \/ pc[cur] = "restart")
       \/ pc[cur] = "yield"

\* The CPU is put to sleep with a thread ready and, with the EDF scheduler,
\* a thread runs while one with a nearer deadline is ready, only when the
\* scheduler was asked for a context switch to it with the kernel paused:
\* that request, unlike the timer's, leaves no pendingWakeup behind.
NoSwitchForgotten ==
    LET overdue == {t \in Allocated : Ready(t) /\ prio[t] > Priority(cur)} IN
    (\/ At(Idle, "sleepCpu")
     \/ policy = "edf" /\ pc[cur] = "run" /\ kernel_running = 0)
    => overdue \subseteq missed

\* Round robin: a ready thread gets the CPU unless a thread of higher
\* priority is ready, even if its equals never yield.  With the EDF
\* scheduler there is no turn among equal deadlines, and a thread created
\* with the kernel paused may wait for the next sleeper to wake.
HighestReadyRuns ==
    \A t \in Threads :
        LET before(u) == prio[u] > prio[t]
                         \/ (policy = "edf" /\ prio[u] = prio[t] /\ u # t)
        IN  (t \in Allocated /\ Ready(t))
            ~> \/ cur = t \/ ~Ready(t)
               \/ \E u \in Allocated : Ready(u) /\ before(u)
               \/ policy = "edf" /\ t \in missed

\* Every sleep ends.
SleepersWake == \A t \in Threads : sleep[t] ~> ~sleep[t]
=============================================================================
