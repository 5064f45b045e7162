------------------------------- MODULE Process -------------------------------
(***************************************************************************)
(* kernel/process.cpp: creation, termination and waitpid() of processes.   *)
(* The kernel is the process with pid 0 and has any number of threads; a   *)
(* process has one thread, which calls the kernel through system calls and *)
(* ends in Process::start().                                               *)
(*                                                                         *)
(* Processes are named by their pid.  Everything done with procMutex held  *)
(* is one action; waiting on a condition variable releases it.  create()   *)
(* takes it to publish the process, and again if no thread can be made.    *)
(* Memory for the nodes of the lists and of the map is not exhausted.      *)
(***************************************************************************)
EXTENDS Integers, Sequences, FiniteSets

CONSTANTS KThreads,   \* threads of the kernel that call the functions
          MaxPid,     \* the largest pid: the next one overflows
          Calls       \* what processes call besides system(), which is all
                      \* handleSvc() lets them: "create", "wait", "waitpid"

Pids  == 1 .. MaxPid
Procs == 0 .. MaxPid
Threads == KThreads \cup Pids     \* the thread of process p is named p

ASSUME ProcessAssumption ==
    /\ MaxPid \in Nat \ {0}
    /\ IsFiniteSet(KThreads) /\ KThreads \cap Pids = {}
    /\ Calls \subseteq {"create", "wait", "waitpid"}

VARIABLES
    pidCounter,
    processes,    \* pids of the map of processes, except the kernel's 0
    ppid,
    childs,       \* living children of each process
    zombies,      \* dead children of each process, in list order
    zombie, waitCount,
    pc, arg,      \* where each thread is and the pid it is dealing with
    freed         \* history: threads whose "proc" in create() was deleted

vars == <<pidCounter, processes, ppid, childs, zombies, zombie, waitCount,
          pc, arg, freed>>

\* "none": the process has no running thread.  "creating": published, no
\* thread yet; "started": its thread runs.  "generic", "specific": asleep in
\* waitpid(); "...Woken": signalled.  "lost": asleep on a deleted variable.
Places == {"none", "run", "creating", "started", "generic", "genericWoken",
           "specific", "specificWoken", "lost"}

TypeOK ==
    /\ pidCounter \in 0 .. MaxPid + 1
    /\ processes \subseteq Pids
    /\ ppid \in [Pids -> Procs]
    /\ childs \in [Procs -> SUBSET Pids]
    /\ zombies \in [Procs -> Seq(Pids)]
    /\ zombie \in [Pids -> BOOLEAN]
    /\ waitCount \in [Pids -> 0 .. Cardinality(Threads)]
    /\ pc \in [Threads -> Places]
    /\ arg \in [Threads -> Procs]
    /\ freed \subseteq Threads

Init ==
    /\ pidCounter = 0
    /\ processes = {}
    /\ ppid = [p \in Pids |-> 0]
    /\ childs = [p \in Procs |-> {}]
    /\ zombies = [p \in Procs |-> <<>>]
    /\ zombie = [p \in Pids |-> FALSE]
    /\ waitCount = [p \in Pids |-> 0]
    /\ pc = [t \in Threads |-> IF t \in KThreads THEN "run" ELSE "none"]
    /\ arg = [t \in Threads |-> 0]
    /\ freed = {}
-----------------------------------------------------------------------------
self(t) == IF t \in KThreads THEN 0 ELSE t     \* getCurrentThread()->proc

Goto(t, place, p) ==
    /\ pc' = [pc EXCEPT ![t] = place]
    /\ arg' = [arg EXCEPT ![t] = p]

\* Kernel threads may call everything, in any order.
Ready(t, call) == pc[t] = "run" /\ (t \in KThreads \/ call \in Calls)

\* list::remove(); a process is in a list at most once (FamilyConsistent).
Without(list, p) ==
    LET at == {i \in DOMAIN list : list[i] = p}
        k  == CHOOSE i \in at : TRUE
    IN  IF at = {} THEN list
        ELSE [i \in 1 .. Len(list) - 1 |-> list[IF i < k THEN i ELSE i + 1]]

\* The first pid from pidCounter on that is not in use; a counter that has
\* overflowed restarts from 1.
getNewPid(p) ==
    LET from == IF pidCounter \in Pids THEN pidCounter ELSE 1
        rank(q) == (q - from) % MaxPid
    IN  /\ p \notin processes
        /\ \A q \in Pids \ processes : rank(p) <= rank(q)
        /\ pidCounter' = p + 1

\* create(), first part: the process is made and published.
create(t, p) ==
    /\ Ready(t, "create") \/ (pc[t] = "run" /\ t \in Pids)    \* SYS_SYSTEM
    /\ getNewPid(p)
    /\ processes' = processes \cup {p}
    /\ ppid' = [ppid EXCEPT ![p] = self(t)]
    /\ childs' = [childs EXCEPT ![self(t)] = @ \cup {p}]
    /\ zombie' = [zombie EXCEPT ![p] = FALSE]
    /\ waitCount' = [waitCount EXCEPT ![p] = 0]
    /\ Goto(t, "creating", p)
    /\ UNCHANGED <<zombies, freed>>

\* createUserspace() fails: the process is erased and deleted, with its
\* condition variable, whoever waits on it.
createFails(t) ==
    LET p == arg[t] IN
    /\ pc[t] = "creating"
    /\ processes' = processes \ {p}
    /\ childs' = [childs EXCEPT ![self(t)] = @ \ {p}]
    /\ pc' = [u \in Threads |-> IF u = t THEN "run"
                                ELSE IF pc[u] = "specific" /\ arg[u] = p
                                THEN "lost" ELSE pc[u]]
    /\ arg' = [arg EXCEPT ![t] = 0]
    /\ UNCHANGED <<pidCounter, ppid, zombies, zombie, waitCount, freed>>

\* thr->wakeup(): the process starts.
createStarts(t) ==
    /\ pc[t] = "creating"
    /\ pc' = [pc EXCEPT ![t] = "started", ![arg[t]] = "run"]
    /\ UNCHANGED <<pidCounter, processes, ppid, childs, zombies, zombie,
                   waitCount, arg, freed>>

\* waitpid() of a living child p by t, which goes to sleep.
WaitFor(t, p) ==
    /\ waitCount' = [waitCount EXCEPT ![p] = @ + 1]
    /\ Goto(t, "specific", p)
    /\ UNCHANGED <<pidCounter, processes, ppid, childs, zombies, zombie>>

\* delete joined, after taking it off the map and the list of zombies.
Reap(t, p, list) ==
    /\ zombies' = [zombies EXCEPT ![self(t)] = list]
    /\ processes' = processes \ {p}
    /\ freed' = freed \cup {u \in Threads \ {t} : pc[u] = "started" /\ arg[u] = p}

Return(t) == Goto(t, "run", 0)

\* Mutant: every waiter takes the process.
FinishWaitpid_All(t, p) ==
    LET left == IF pc[t] = "specificWoken" THEN waitCount[p] - 1 ELSE waitCount[p] IN
    /\ waitCount' = [waitCount EXCEPT ![p] = left]
    /\ Reap(t, p, Without(zombies[self(t)], p))
    /\ Return(t)
    /\ UNCHANGED <<pidCounter, ppid, childs, zombie>>

\* Mutant: the waiters that are not the last wait again.
FinishWaitpid_Again(t, p) ==
    LET left == IF pc[t] = "specificWoken" THEN waitCount[p] - 1 ELSE waitCount[p] IN
    /\ waitCount' = [waitCount EXCEPT ![p] = left]
    /\ \/ left = 0 /\ Reap(t, p, Without(zombies[self(t)], p)) /\ Return(t)
       \/ left # 0 /\ UNCHANGED <<zombies, processes, freed>> /\ Goto(t, "specific", p)
    /\ UNCHANGED <<pidCounter, ppid, childs, zombie>>

\* waitpid(pid), the part after the wait: the last of the waiters takes the
\* exit code and deletes the process; the others return -1.
FinishWaitpid(t, p) ==
    LET left == IF pc[t] = "specificWoken" THEN waitCount[p] - 1 ELSE waitCount[p] IN
    /\ waitCount' = [waitCount EXCEPT ![p] = left]
    /\ \/ left = 0 /\ Reap(t, p, Without(zombies[self(t)], p))
       \/ left # 0 /\ UNCHANGED <<zombies, processes, freed>>
    /\ Return(t)
    /\ UNCHANGED <<pidCounter, ppid, childs, zombie>>

\* Mutant: the process need not be a child of the caller.
Waitpid_AnyProcess(t, p) ==
    /\ p \in processes /\ p # self(t)
    /\ \/ ~zombie[p] /\ WaitFor(t, p) /\ UNCHANGED freed
       \/ zombie[p] /\ FinishWaitpid(t, p)

\* waitpid(p) by t when it does not return an error or, with WNOHANG, 0.
Waitpid(t, p) ==
    /\ p \in processes /\ ppid[p] = self(t) /\ p # self(t)
    /\ \/ ~zombie[p] /\ WaitFor(t, p) /\ UNCHANGED freed
       \/ zombie[p] /\ FinishWaitpid(t, p)

\* create() reads proc->pid and returns it; if the process was deleted in
\* the meantime the value read is anything.
createReturns(t) ==
    /\ pc[t] = "started"
    /\ t \in KThreads \/ "create" \in Calls
    /\ freed' = freed \ {t}
    /\ Return(t)
    /\ UNCHANGED <<pidCounter, processes, ppid, childs, zombies, zombie,
                   waitCount>>

\* SYS_SYSTEM waits for the process it created.
systemWaits(t) ==
    /\ pc[t] = "started" /\ t \in Pids
    /\ Waitpid(t, arg[t])

waitpid(t, p) == Ready(t, "waitpid") /\ Waitpid(t, p)

SpecificReturns(t) == pc[t] = "specificWoken" /\ FinishWaitpid(t, arg[t])

\* waitpid(-1), on entry and when woken: takes the first zombie, sleeps
\* while there are only living children, or fails.
waitpidGeneric(t) ==
    LET dead == zombies[self(t)] IN
    /\ Ready(t, "wait") \/ pc[t] = "genericWoken"
    /\ \/ /\ dead # <<>>
          /\ Reap(t, Head(dead), Tail(dead))
          /\ Return(t)
       \/ /\ dead = <<>> /\ childs[self(t)] # {}
          /\ Goto(t, "generic", 0)
          /\ UNCHANGED <<zombies, processes, freed>>
       \/ /\ dead = <<>> /\ childs[self(t)] = {}
          /\ Return(t)
          /\ UNCHANGED <<zombies, processes, freed>>
    /\ UNCHANGED <<pidCounter, ppid, childs, zombie, waitCount>>

\* genericWaiting.broadcast(), or waiting.broadcast() of process p.
Broadcast(p, all) ==
    [t \in Threads |-> CASE pc[t] = "generic" /\ all -> "genericWoken"
                         [] pc[t] = "specific" /\ arg[t] = p -> "specificWoken"
                         [] t = p -> "none"
                         [] OTHER -> pc[t]]

\* Mutant: the children of the process keep their parent.
start_NoReparent(p) ==
    LET parent == ppid[p]
        direct == waitCount[p] > 0
    IN
    /\ p \in Pids /\ pc[p] = "run"
    /\ zombie' = [zombie EXCEPT ![p] = TRUE]
    /\ childs' = [childs EXCEPT ![parent] = @ \ {p}]
    /\ zombies' = IF direct THEN zombies ELSE [zombies EXCEPT ![parent] = Append(@, p)]
    /\ pc' = Broadcast(p, ~direct)
    /\ UNCHANGED <<pidCounter, processes, ppid, waitCount, arg, freed>>

\* The end of start(): children, dead or alive, go to the kernel; then the
\* waiters of this process are woken or, if there are none, it joins its
\* parent's zombies and every generic waiter is woken.
start(p) ==
    LET orphans == childs[p] \cup {zombies[p][i] : i \in DOMAIN zombies[p]}
        parent  == ppid[p]
        direct  == waitCount[p] > 0
        adopted == [zombies EXCEPT ![0] = zombies[p] \o @, ![p] = <<>>]
    IN
    /\ p \in Pids /\ pc[p] = "run"
    /\ zombie' = [zombie EXCEPT ![p] = TRUE]
    /\ ppid' = [q \in Pids |-> IF q \in orphans THEN 0 ELSE ppid[q]]
    /\ childs' = [q \in Procs |->
                    ((IF q = 0 THEN childs[0] \cup childs[p]
                      ELSE IF q = p THEN {} ELSE childs[q])
                     \ (IF q = parent THEN {p} ELSE {}))]
    /\ zombies' = IF direct THEN adopted
                  ELSE [adopted EXCEPT ![parent] = Append(@, p)]
    /\ pc' = Broadcast(p, ~direct)
    /\ UNCHANGED <<pidCounter, processes, waitCount, arg, freed>>

Step(t) ==
    \/ \E p \in Pids : create(t, p) \/ waitpid(t, p)
    \/ createFails(t) \/ createStarts(t) \/ createReturns(t) \/ systemWaits(t)
    \/ waitpidGeneric(t) \/ SpecificReturns(t)

Next == (\E t \in Threads : Step(t)) \/ (\E p \in Pids : start(p))

Spec == Init /\ [][Next]_vars

\* A thread inside a call goes on when it can, and processes end.
InCall(t) == createFails(t) \/ createStarts(t) \/ createReturns(t)
             \/ systemWaits(t) \/ SpecificReturns(t)
             \/ (pc[t] = "genericWoken" /\ waitpidGeneric(t))

FairSpec ==
    /\ Spec
    /\ \A t \in Threads : WF_vars(InCall(t))
    /\ \A p \in Pids : SF_vars(start(p))
-----------------------------------------------------------------------------
(* Properties *)

Waiting(p) == {t \in Threads : pc[t] \in {"specific", "specificWoken"} /\ arg[t] = p}

Times(list, p) == Cardinality({i \in DOMAIN list : list[i] = p})

\* Every process is in exactly one list: its parent's children while it
\* lives, its parent's zombies when it is dead and nobody waits for it in
\* particular; its parent lives, or is the kernel.  In particular find() of
\* the parent in start() does not fail.
FamilyConsistent ==
    /\ TypeOK
    /\ \A p \in processes : ppid[p] = 0 \/ (ppid[p] \in processes /\ ~zombie[ppid[p]])
    /\ \A q \in Procs, p \in Pids :
         /\ p \in childs[q] <=> (p \in processes /\ ppid[p] = q /\ ~zombie[p])
         /\ Times(zombies[q], p) =
               IF p \in processes /\ ppid[p] = q /\ zombie[p] /\ waitCount[p] = 0
               THEN 1 ELSE 0

\* waitCount counts the threads in waitpid() for this process; none of them
\* outlives it, and those woken find it dead, as the code asserts.
WaitersCounted ==
    /\ \A p \in processes : waitCount[p] = Cardinality(Waiting(p))
    /\ \A t \in Threads : pc[t] \in {"specific", "specificWoken"} =>
          /\ arg[t] \in processes /\ ppid[arg[t]] = self(t)
          /\ pc[t] = "specificWoken" <=> zombie[arg[t]]

\* Only threads of the kernel, which share one list of children, can be left
\* holding a deleted Process, in create() or in waitpid(); a process cannot.
OnlyKernelThreadsRace ==
    \A t \in Threads : (t \in freed \/ pc[t] = "lost") => t \in KThreads

\* If processes end, no process sleeps in waitpid() for ever, on a deleted
\* condition variable or on any other, whatever the kernel's threads do; and a
\* thread of the kernel that waits for a process whose thread has been made
\* does return.  One that waits for a process create() has yet to make a
\* thread for, or for any child, may sleep for ever.
WaitpidReturns ==
    /\ \A t \in Pids :
         LET sleeps == pc[t] \in {"generic", "specific", "lost"}
         IN  sleeps ~> ~sleeps
    /\ \A t \in KThreads :
         (pc[t] = "specific" /\ pc[arg[t]] # "none") ~> (pc[t] = "run")
=============================================================================
