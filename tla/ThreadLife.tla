----------------------------- MODULE ThreadLife -----------------------------
(***************************************************************************)
(* The life of a thread in kernel/kernel.cpp: Thread::create(), the end of *)
(* threadLauncher(), join(), detach() and the deallocation of terminated   *)
(* threads by join() and by the idle thread.                               *)
(*                                                                         *)
(* A Thread* is the address of a memory block, and a block freed by        *)
(* PKremoveDeadThreads() may be the next one malloc() returns: members of  *)
(* Threads are addresses.  One action is one section with interrupts       *)
(* disabled or the kernel paused.  Any ready thread may run next; the idle *)
(* thread runs when none is ready.                                         *)
(***************************************************************************)
EXTENDS Integers

CONSTANTS
    Threads,    \* addresses of thread memory blocks
    NoThread,   \* a null pointer
    Main,       \* the main thread, which never ends
    Results,    \* values a thread's entry point returns
    Reusable,   \* blocks malloc() may return again once freed
    SecondJoins,\* TRUE: join() is called on a thread that has a joiner
    MaxGen      \* bound on the threads created in one block

ASSUME ThreadLifeAssumption ==
    /\ NoThread \notin Threads
    /\ "idle" \notin Threads
    /\ Main \in Threads
    /\ Results \cap Threads = {}
    /\ Reusable \subseteq Threads
    /\ SecondJoins \in BOOLEAN
    /\ MaxGen \in Nat

VARIABLES
    listed,         \* the block is allocated and in the scheduler's list
    deleted,        \* DELETED flag
    detached,       \* DETACHED flag
    joinWait,       \* WAIT_JOIN flag
    blocked,        \* any other reason not to be ready (WAIT, SLEEP ...)
    joinData,       \* union { Thread *waitingForJoin; void *result; }
    exist_deleted,
    pc,             \* where each thread is, the idle thread's place
    target,         \* "this" in a pending join()
    gen,            \* history: how many threads the block has held
    joinGen,        \* history: gen of the target when join() was called
    joins           \* history: joins of the current thread that succeeded

vars == <<listed, deleted, detached, joinWait, blocked, joinData, exist_deleted,
          pc, target, gen, joinGen, joins>>

Idle == "idle"
Places == {"run", "join", "free", "check", "reap"}

TypeOK ==
    /\ listed \in [Threads -> BOOLEAN]
    /\ deleted \in [Threads -> BOOLEAN]
    /\ detached \in [Threads -> BOOLEAN]
    /\ joinWait \in [Threads -> BOOLEAN]
    /\ blocked \in [Threads -> BOOLEAN]
    /\ joinData \in [Threads -> Threads \cup {NoThread} \cup Results]
    /\ exist_deleted \in BOOLEAN
    /\ pc \in [Threads \cup {Idle} -> Places]
    /\ target \in [Threads -> Threads \cup {NoThread}]
    /\ gen \in [Threads -> 0 .. MaxGen]
    /\ joinGen \in [Threads -> 0 .. MaxGen]
    /\ joins \in [Threads -> 0 .. 1]

Init ==
    /\ listed = [t \in Threads |-> t = Main]
    /\ deleted = [t \in Threads |-> FALSE]
    /\ detached = [t \in Threads |-> t = Main]
    /\ joinWait = [t \in Threads |-> FALSE]
    /\ blocked = [t \in Threads |-> FALSE]
    /\ joinData = [t \in Threads |-> NoThread]
    /\ exist_deleted = FALSE
    /\ pc = [t \in Threads \cup {Idle} |-> IF t = Idle THEN "check" ELSE "run"]
    /\ target = [t \in Threads |-> NoThread]
    /\ gen = [t \in Threads |-> 0]
    /\ joinGen = [t \in Threads |-> 0]
    /\ joins = [t \in Threads |-> 0]
-----------------------------------------------------------------------------
isDeleted(t) == deleted[t] /\ detached[t]
IRQexists(t) == listed[t] /\ ~isDeleted(t)
Ready(t) == listed[t] /\ ~deleted[t] /\ ~joinWait[t] /\ ~blocked[t]
At(c, place) == Ready(c) /\ pc[c] = place
Goto(c, place) == pc' = [pc EXCEPT ![c] = place]

\* Mutant: the constructor does not reset joinData.waitingForJoin.
create_KeepsJoinData(c, t, joinable) ==
    /\ At(c, "run")
    /\ ~listed[t]
    /\ gen[t] < MaxGen /\ (gen[t] = 0 \/ t \in Reusable)
    /\ listed' = [listed EXCEPT ![t] = TRUE]
    /\ deleted' = [deleted EXCEPT ![t] = FALSE]
    /\ detached' = [detached EXCEPT ![t] = ~joinable]
    /\ Goto(t, "run")
    /\ gen' = [gen EXCEPT ![t] = @ + 1]
    /\ joins' = [joins EXCEPT ![t] = 0]
    /\ UNCHANGED <<joinData, joinWait, blocked, exist_deleted, target, joinGen>>

create(c, t, joinable) ==
    /\ At(c, "run")
    /\ ~listed[t]
    /\ gen[t] < MaxGen /\ (gen[t] = 0 \/ t \in Reusable)
    /\ listed' = [listed EXCEPT ![t] = TRUE]
    /\ deleted' = [deleted EXCEPT ![t] = FALSE]
    /\ detached' = [detached EXCEPT ![t] = ~joinable]
    /\ joinWait' = [joinWait EXCEPT ![t] = FALSE]
    /\ blocked' = [blocked EXCEPT ![t] = FALSE]
    /\ joinData' = [joinData EXCEPT ![t] = NoThread]
    /\ Goto(t, "run")
    /\ gen' = [gen EXCEPT ![t] = @ + 1]
    /\ joins' = [joins EXCEPT ![t] = 0]
    /\ UNCHANGED <<exist_deleted, target, joinGen>>

\* WAIT_JOIN flags once thread w, if any, is woken.
WakeJoiner(w) == [t \in Threads |-> joinWait[t] /\ t # w]

\* Thread t returned from its entry point.
threadLauncher(t, result) ==
    /\ At(t, "run") /\ t # Main
    /\ deleted' = [deleted EXCEPT ![t] = TRUE]
    /\ IF ~detached[t]
       THEN /\ joinWait' = WakeJoiner(joinData[t])
            /\ joinData' = [joinData EXCEPT ![t] = result]
            /\ UNCHANGED exist_deleted
       ELSE exist_deleted' = TRUE /\ UNCHANGED <<joinWait, joinData>>
    /\ UNCHANGED <<listed, detached, blocked, pc, target, gen, joinGen, joins>>

\* Whether the application may call join() on t now.
MayJoin(t) == SecondJoins \/ ~\E d \in Threads : pc[d] = "join" /\ target[d] = t

\* The end of join()'s first section: t's memory may now be reclaimed.
CompleteJoin(c, t) ==
    /\ detached' = [detached EXCEPT ![t] = TRUE]
    /\ joins' = [joins EXCEPT ![t] = @ + 1]
    /\ Goto(c, "free")

\* join(): returns false at once on itself, on a thread that does not exist,
\* is detached or already has a joiner; else waits, or completes if t ended.
join(c, t) ==
    /\ At(c, "run") /\ MayJoin(t)
    /\ t # c /\ IRQexists(t) /\ ~detached[t]
    /\ target' = [target EXCEPT ![c] = t]
    /\ joinGen' = [joinGen EXCEPT ![c] = gen[t]]
    /\ \/ /\ ~deleted[t] /\ joinData[t] = NoThread
          /\ joinData' = [joinData EXCEPT ![t] = c]
          /\ joinWait' = [joinWait EXCEPT ![c] = TRUE]
          /\ Goto(c, "join")
          /\ UNCHANGED <<detached, joins>>
       \/ deleted[t] /\ CompleteJoin(c, t) /\ UNCHANGED <<joinData, joinWait>>
    /\ UNCHANGED <<listed, deleted, blocked, exist_deleted, gen>>

\* The rest of the for(;;) loop of join(), after the yield.
JoinLoop(c) ==
    LET t == target[c]
    IN  /\ At(c, "join")
        /\ \/ /\ ~IRQexists(t) \/ detached[t]              \* return false
              /\ Goto(c, "run")
              /\ UNCHANGED <<detached, joinWait, joins>>
           \/ /\ IRQexists(t) /\ ~detached[t] /\ deleted[t]
              /\ CompleteJoin(c, t)
              /\ UNCHANGED joinWait
           \/ /\ IRQexists(t) /\ ~detached[t] /\ ~deleted[t]
              /\ joinWait' = [joinWait EXCEPT ![c] = TRUE]
              /\ UNCHANGED <<detached, joins, pc>>
        /\ UNCHANGED <<listed, deleted, blocked, joinData, exist_deleted, target,
                       gen, joinGen>>

\* Blocks in the list after PKremoveDeadThreads().
PKremoveDeadThreads == [t \in Threads |-> listed[t] /\ ~isDeleted(t)]

\* The last section of join(), which then returns true.
JoinFree(c) ==
    /\ At(c, "free")
    /\ listed' = PKremoveDeadThreads
    /\ Goto(c, "run")
    /\ UNCHANGED <<deleted, detached, joinWait, blocked, joinData, exist_deleted,
                   target, gen, joinGen, joins>>

\* Mutant: detaching a terminated thread does not ask for its memory back.
detach_NoReclaim(c, t) ==
    /\ At(c, "run")
    /\ listed[t] /\ ~detached[t]
    /\ detached' = [detached EXCEPT ![t] = TRUE]
    /\ joinWait' = IF deleted[t] THEN joinWait ELSE WakeJoiner(joinData[t])
    /\ UNCHANGED <<listed, deleted, blocked, joinData, pc, target, gen, joinGen,
                   joins, exist_deleted>>

\* Mutant: a thread already waiting in join() is left there.
detach_NoWake(c, t) ==
    /\ At(c, "run")
    /\ listed[t] /\ ~detached[t]
    /\ detached' = [detached EXCEPT ![t] = TRUE]
    /\ exist_deleted' = (exist_deleted \/ deleted[t])
    /\ UNCHANGED <<listed, deleted, joinWait, blocked, joinData, pc, target, gen,
                   joinGen, joins>>

\* detach() of a thread that exists and is not detached (on a detached
\* thread it is documented as undefined).
detach(c, t) ==
    /\ At(c, "run")
    /\ listed[t] /\ ~detached[t]
    /\ detached' = [detached EXCEPT ![t] = TRUE]
    /\ exist_deleted' = (exist_deleted \/ deleted[t])
    /\ joinWait' = IF deleted[t] THEN joinWait ELSE WakeJoiner(joinData[t])
    /\ UNCHANGED <<listed, deleted, blocked, joinData, pc, target, gen, joinGen,
                   joins>>

\* The thread sleeps or waits for something else, and is woken.
Block(c) ==
    /\ At(c, "run")
    /\ blocked' = [blocked EXCEPT ![c] = TRUE]
    /\ UNCHANGED <<listed, deleted, detached, joinWait, joinData, exist_deleted,
                   pc, target, gen, joinGen, joins>>

Unblock(c) ==
    /\ blocked[c]
    /\ blocked' = [blocked EXCEPT ![c] = FALSE]
    /\ UNCHANGED <<listed, deleted, detached, joinWait, joinData, exist_deleted,
                   pc, target, gen, joinGen, joins>>

\* The idle thread runs only when no thread is ready.  After it has read
\* exist_deleted it may lose the CPU before it pauses the kernel.
IdleRuns(place) == pc[Idle] = place /\ \A t \in Threads : ~Ready(t)

idleCheck ==
    /\ IdleRuns("check")
    /\ exist_deleted
    /\ Goto(Idle, "reap")
    /\ UNCHANGED <<listed, deleted, detached, joinWait, blocked, joinData,
                   exist_deleted, target, gen, joinGen, joins>>

idleReap ==
    /\ IdleRuns("reap")
    /\ exist_deleted' = FALSE
    /\ listed' = PKremoveDeadThreads
    /\ Goto(Idle, "check")
    /\ UNCHANGED <<deleted, detached, joinWait, blocked, joinData, target, gen,
                   joinGen, joins>>

Next ==
    \/ \E c, t \in Threads :
          \/ \E joinable \in BOOLEAN : create(c, t, joinable)
          \/ join(c, t) \/ detach(c, t)
    \/ \E c \in Threads :
          \/ \E result \in Results \cup {NoThread} : threadLauncher(c, result)
          \/ JoinLoop(c) \/ JoinFree(c) \/ Block(c) \/ Unblock(c)
    \/ idleCheck \/ idleReap

Spec == Init /\ [][Next]_vars
-----------------------------------------------------------------------------
(* Properties *)

\* c sleeps in join() and nobody will wake it: the thread it waits for is
\* gone, ended, detached or has not registered it as its joiner.
Stuck(c) ==
    LET t == target[c]
    IN  joinWait[c] /\ ~(/\ t \notin {NoThread, c} /\ listed[t]
                         /\ ~deleted[t] /\ ~detached[t] /\ joinData[t] = c)

\* A thread asleep in join() will be woken, unless the memory of the thread
\* it asked for already holds another one.
StuckOnlyByReuse ==
    \A c \in Threads :
        Stuck(c) => target[c] \in Threads /\ joinGen[c] # gen[target[c]]

\* The joiner registered in a running joinable thread is a live thread that
\* is inside join() on it, so ending or detaching the thread writes the
\* flags of a thread that exists.
JoinerIsAlive ==
    \A t \in Threads :
        LET w == joinData[t]
        IN  (listed[t] /\ ~deleted[t] /\ ~detached[t] /\ w \in Threads)
            => listed[w] /\ ~deleted[w] /\ pc[w] = "join" /\ target[w] = t

\* A terminated thread nobody can join any more does not leak: the idle
\* thread will free it, or a join() that is about to free all such threads.
NoLeak ==
    \A t \in Threads :
        listed[t] /\ isDeleted(t)
        => \/ exist_deleted
           \/ pc[Idle] = "reap"
           \/ \E c \in Threads : listed[c] /\ ~deleted[c] /\ pc[c] = "free"

\* At most one join() of a thread succeeds, however many threads call it
\* before and after it ends.
JoinedOnce == \A t \in Threads : joins[t] <= 1
=============================================================================
