-------------------------- MODULE ThreadLifeProofs --------------------------
(***************************************************************************)
(* Proofs about ThreadLife for any number of threads, any address reuse    *)
(* and any number of creations: type correctness, JoinerIsAlive, NoLeak,   *)
(* JoinedOnce and StuckOnlyByReuse.                                        *)
(***************************************************************************)
EXTENDS ThreadLife, TLAPS

\* A thread inside join() or about to free memory has a target, and a thread
\* that can still be joined has not been.
JoinsTracked ==
    /\ \A c \in Threads : pc[c] \in {"join", "free"} => target[c] \in Threads
    /\ \A t \in Threads : listed[t] /\ ~detached[t] => joins[t] = 0

\* The inductive invariant.
IInv == TypeOK /\ JoinsTracked /\ JoinerIsAlive /\ NoLeak

USE DEF Idle, Goto, At, Ready

\* The flags of every thread but the one woken stay as they are.
LEMMA WakeJoinerFlags ==
    ASSUME joinWait \in [Threads -> BOOLEAN], NEW w
    PROVE  /\ WakeJoiner(w) \in [Threads -> BOOLEAN]
           /\ \A t \in Threads : WakeJoiner(w)[t] <=> joinWait[t] /\ t # w
  BY Zenon DEF WakeJoiner

\* PKremoveDeadThreads() unlinks the terminated detached threads, no other.
LEMMA RemoveDead ==
    /\ PKremoveDeadThreads \in [Threads -> BOOLEAN]
    /\ \A t \in Threads : PKremoveDeadThreads[t] <=> listed[t] /\ ~isDeleted(t)
  BY Zenon DEF PKremoveDeadThreads

\* The initial states satisfy the invariant.
LEMMA InitIInv == Init => IInv
<1> SUFFICES ASSUME Init PROVE IInv
  OBVIOUS
<1> USE ThreadLifeAssumption DEF Init
<1>1. listed \in [Threads -> BOOLEAN] /\ detached \in [Threads -> BOOLEAN]
  BY Zenon
<1>2. \A t \in Threads : (listed[t] => t = Main) /\ (t = Main => detached[t])
  BY Zenon
<1>3. TypeOK
  <2>1. pc \in [Threads \cup {Idle} -> Places]
    BY DEF Places
  <2>2. 0 \in 0 .. MaxGen /\ 0 \in 0 .. 1
    OBVIOUS
  <2>3. /\ gen \in [Threads -> 0 .. MaxGen] /\ joinGen \in [Threads -> 0 .. MaxGen]
        /\ joins \in [Threads -> 0 .. 1]
    BY <2>2
  <2>4. /\ deleted \in [Threads -> BOOLEAN] /\ joinWait \in [Threads -> BOOLEAN]
        /\ blocked \in [Threads -> BOOLEAN] /\ exist_deleted \in BOOLEAN
    BY Zenon
  <2>5. /\ joinData \in [Threads -> Threads \cup {NoThread} \cup Results]
        /\ target \in [Threads -> Threads \cup {NoThread}]
    BY Zenon
  <2> QED
    BY <1>1, <2>1, <2>3, <2>4, <2>5 DEF TypeOK
<1>4. JoinsTracked
  BY DEF JoinsTracked
<1>5. JoinerIsAlive
  BY DEF JoinerIsAlive
<1>6. NoLeak
  BY DEF NoLeak, isDeleted
<1> QED
  BY <1>3, <1>4, <1>5, <1>6 DEF IInv

\* Type correctness and the tracking of joins are inductive together.
LEMMA NextTyped == TypeOK /\ JoinsTracked /\ [Next]_vars => TypeOK' /\ JoinsTracked'
<1> DEFINE Goal == TypeOK' /\ JoinsTracked'
<1> SUFFICES ASSUME TypeOK, JoinsTracked, [Next]_vars PROVE Goal
  OBVIOUS
<1>1. ASSUME NEW c \in Threads, NEW t \in Threads, NEW joinable \in BOOLEAN,
             create(c, t, joinable)
      PROVE  Goal
  BY <1>1, ThreadLifeAssumption DEF create, TypeOK, JoinsTracked, Places
<1>2. ASSUME NEW c \in Threads, NEW t \in Threads, join(c, t)
      PROVE  Goal
  <2>1. joins[t] = 0
    BY <1>2 DEF join, IRQexists, JoinsTracked
  <2>2. target' = [target EXCEPT ![c] = t] /\ joinGen' = [joinGen EXCEPT ![c] = gen[t]]
    BY <1>2 DEF join
  <2>3. /\ target' \in [Threads -> Threads \cup {NoThread}]
        /\ joinGen' \in [Threads -> 0 .. MaxGen]
    BY <2>2 DEF TypeOK
  <2>4. /\ pc' \in [Threads \cup {Idle} -> Places]
        /\ \A d \in Threads : d # c => pc'[d] = pc[d]
    BY <1>2, ThreadLifeAssumption DEF join, CompleteJoin, TypeOK, Places
  <2>5. \A d \in Threads : pc'[d] \in {"join", "free"} => target'[d] \in Threads
    BY <2>2, <2>4 DEF TypeOK, JoinsTracked
  <2>6. CASE ~deleted[t]
    <3>1. /\ joinData' = [joinData EXCEPT ![t] = c]
          /\ joinWait' = [joinWait EXCEPT ![c] = TRUE]
          /\ UNCHANGED <<detached, joins>>
      BY <1>2, <2>6 DEF join
    <3>2. joinWait' \in [Threads -> BOOLEAN]
      BY <3>1, Zenon DEF TypeOK
    <3>3. joinData' \in [Threads -> Threads \cup {NoThread} \cup Results]
      BY <3>1 DEF TypeOK
    <3>4. UNCHANGED <<listed, deleted, blocked, exist_deleted, gen>>
      BY <1>2 DEF join
    <3> QED
      BY <2>3, <2>4, <2>5, <3>1, <3>2, <3>3, <3>4 DEF TypeOK, JoinsTracked
  <2>7. CASE deleted[t]
    <3>0. CompleteJoin(c, t) /\ UNCHANGED <<joinData, joinWait>>
      BY <1>2, <2>7 DEF join
    <3>1. joins' \in [Threads -> 0 .. 1] /\ detached' \in [Threads -> BOOLEAN]
      BY <2>1, <3>0 DEF CompleteJoin, TypeOK
    <3>2. \A d \in Threads : listed'[d] /\ ~detached'[d] => joins'[d] = 0
      BY <1>2, <2>7 DEF join, CompleteJoin, TypeOK, JoinsTracked
    <3> QED
      BY <1>2, <2>3, <2>4, <2>5, <2>7, <3>1, <3>2 DEF join, TypeOK, JoinsTracked
  <2> QED
    BY <2>6, <2>7
<1>3. ASSUME NEW c \in Threads, NEW t \in Threads, detach(c, t)
      PROVE  Goal
  BY <1>3, WakeJoinerFlags, ThreadLifeAssumption DEF detach, TypeOK, JoinsTracked, Places
<1>4. ASSUME NEW c \in Threads, NEW result \in Results \cup {NoThread},
             threadLauncher(c, result)
      PROVE  Goal
  <2>1. WakeJoiner(joinData[c]) \in [Threads -> BOOLEAN]
    BY WakeJoinerFlags DEF TypeOK
  <2>2. joinWait' \in [Threads -> BOOLEAN]
    BY <1>4, <2>1 DEF threadLauncher, TypeOK
  <2>3. joinData' \in [Threads -> Threads \cup {NoThread} \cup Results]
    BY <1>4 DEF threadLauncher, TypeOK
  <2>4. exist_deleted' \in BOOLEAN /\ deleted' \in [Threads -> BOOLEAN]
    BY <1>4 DEF threadLauncher, TypeOK
  <2> QED
    BY <1>4, <2>2, <2>3, <2>4 DEF threadLauncher, TypeOK, JoinsTracked
<1>5. ASSUME NEW c \in Threads, JoinLoop(c)
      PROVE  Goal
  <2> DEFINE t == target[c]
  <2>1. t \in Threads
    BY <1>5 DEF JoinLoop, JoinsTracked
  <2>2. CASE Goto(c, "run") /\ UNCHANGED <<detached, joinWait, joins>>
    BY <1>5, <2>2, ThreadLifeAssumption DEF JoinLoop, TypeOK, JoinsTracked, Places
  <2>4. CASE joinWait' = [joinWait EXCEPT ![c] = TRUE] /\ UNCHANGED <<detached, joins, pc>>
    BY <1>5, <2>4 DEF JoinLoop, TypeOK, JoinsTracked
  <2>3. CASE IRQexists(t) /\ ~detached[t] /\ CompleteJoin(c, t) /\ UNCHANGED joinWait
    <3>1. joins[t] = 0
      BY <2>1, <2>3 DEF IRQexists, JoinsTracked
    <3> QED
      BY <1>5, <2>1, <2>3, <3>1, ThreadLifeAssumption
         DEF JoinLoop, CompleteJoin, TypeOK, JoinsTracked, Places
  <2> QED
    BY <1>5, <2>2, <2>3, <2>4 DEF JoinLoop
<1>6. ASSUME NEW c \in Threads, JoinFree(c)
      PROVE  Goal
  BY <1>6, RemoveDead, ThreadLifeAssumption DEF JoinFree, TypeOK, JoinsTracked, Places
<1>7. ASSUME NEW c \in Threads, Block(c)
      PROVE  Goal
  BY <1>7 DEF Block, TypeOK, JoinsTracked
<1>8. ASSUME NEW c \in Threads, Unblock(c)
      PROVE  Goal
  BY <1>8 DEF Unblock, TypeOK, JoinsTracked
<1>9. CASE idleCheck
  BY <1>9, ThreadLifeAssumption DEF idleCheck, TypeOK, JoinsTracked, Places
<1>10. CASE idleReap
  BY <1>10, RemoveDead, ThreadLifeAssumption
     DEF idleReap, TypeOK, JoinsTracked, Places
<1>11. CASE UNCHANGED vars
  BY <1>11 DEF vars, TypeOK, JoinsTracked
<1> QED
  BY <1>1, <1>2, <1>3, <1>4, <1>5, <1>6, <1>7, <1>8, <1>9, <1>10, <1>11 DEF Next

\* Every step preserves the invariant.
LEMMA NextInductive == IInv /\ [Next]_vars => IInv'
<1> SUFFICES ASSUME IInv, [Next]_vars PROVE JoinerIsAlive' /\ NoLeak'
  BY NextTyped DEF IInv
<1> USE ThreadLifeAssumption DEF IInv
<1> DEFINE Goal == JoinerIsAlive' /\ NoLeak'
<1>1. ASSUME NEW c \in Threads, NEW t \in Threads, NEW joinable \in BOOLEAN,
             create(c, t, joinable)
      PROVE  Goal
  <2>1. JoinerIsAlive'
    BY <1>1 DEF create, TypeOK, JoinerIsAlive
  <2>2. NoLeak'
    BY <1>1 DEF create, TypeOK, NoLeak, isDeleted
  <2> QED
    BY <2>1, <2>2
<1>2. ASSUME NEW c \in Threads, NEW t \in Threads, join(c, t)
      PROVE  Goal
  <2>1. JoinerIsAlive'
    BY <1>2 DEF join, CompleteJoin, IRQexists, isDeleted, TypeOK, JoinerIsAlive
  <2>2. NoLeak'
    BY <1>2 DEF join, CompleteJoin, TypeOK, NoLeak, isDeleted
  <2> QED
    BY <2>1, <2>2
<1>3. ASSUME NEW c \in Threads, NEW t \in Threads, detach(c, t)
      PROVE  Goal
  <2>1. JoinerIsAlive'
    BY <1>3 DEF detach, TypeOK, JoinerIsAlive
  <2>2. NoLeak'
    BY <1>3 DEF detach, TypeOK, NoLeak, isDeleted
  <2> QED
    BY <2>1, <2>2
<1>4. ASSUME NEW c \in Threads, NEW result \in Results \cup {NoThread},
             threadLauncher(c, result)
      PROVE  Goal
  <2>1. JoinerIsAlive'
    BY <1>4 DEF threadLauncher, TypeOK, JoinerIsAlive
  <2>2. NoLeak'
    BY <1>4 DEF threadLauncher, TypeOK, NoLeak, isDeleted
  <2> QED
    BY <2>1, <2>2
<1>5. ASSUME NEW c \in Threads, JoinLoop(c)
      PROVE  Goal
  <2>1. target[c] \in Threads
    BY <1>5 DEF JoinLoop, JoinsTracked
  <2>2. JoinerIsAlive'
    BY <1>5, <2>1 DEF JoinLoop, CompleteJoin, IRQexists, isDeleted, TypeOK, JoinerIsAlive
  <2>3. NoLeak'
    BY <1>5, <2>1 DEF JoinLoop, CompleteJoin, TypeOK, NoLeak, isDeleted
  <2> QED
    BY <2>2, <2>3
<1>6. ASSUME NEW c \in Threads, JoinFree(c)
      PROVE  Goal
  <2>1. JoinerIsAlive'
    BY <1>6, RemoveDead DEF JoinFree, TypeOK, JoinerIsAlive, isDeleted
  <2>2. NoLeak'
    BY <1>6, RemoveDead DEF JoinFree, TypeOK, NoLeak, isDeleted
  <2> QED
    BY <2>1, <2>2
<1>7. ASSUME NEW c \in Threads, Block(c) \/ Unblock(c)
      PROVE  Goal
  BY <1>7 DEF Block, Unblock, JoinerIsAlive, NoLeak, isDeleted
<1>8. CASE idleCheck
  BY <1>8 DEF idleCheck, TypeOK, JoinerIsAlive, NoLeak, isDeleted
<1>9. CASE idleReap
  BY <1>9, RemoveDead DEF idleReap, TypeOK, JoinerIsAlive, NoLeak, isDeleted
<1>10. CASE UNCHANGED vars
  BY <1>10 DEF vars, JoinerIsAlive, NoLeak, isDeleted
<1> QED
  BY <1>1, <1>2, <1>3, <1>4, <1>5, <1>6, <1>7, <1>8, <1>9, <1>10 DEF Next

\* IInv holds in every reachable state.
LEMMA ThreadLifeInvariant == Spec => []IInv
  BY InitIInv, NextInductive, PTL DEF Spec

\* Type correctness of the thread life cycle.
THEOREM ThreadLifeTypeCorrect == Spec => []TypeOK
<1>1. IInv => TypeOK
  BY DEF IInv
<1> QED
  BY <1>1, ThreadLifeInvariant, PTL

\* The joiner that threadLauncher() and detach() wake through joinData is
\* always a thread that exists and is inside join(), even if the addresses
\* of dead threads are reused.
THEOREM JoinerAlwaysAlive == Spec => []JoinerIsAlive
<1>1. IInv => JoinerIsAlive
  BY DEF IInv
<1> QED
  BY <1>1, ThreadLifeInvariant, PTL

\* Terminated threads are never forgotten by the deallocation of join() and
\* of the idle thread.
THEOREM TerminatedReclaimed == Spec => []NoLeak
<1>1. IInv => NoLeak
  BY DEF IInv
<1> QED
  BY <1>1, ThreadLifeInvariant, PTL

\* At most one join() of a thread succeeds.
THEOREM ThreadsJoinedOnce == Spec => []JoinedOnce
<1>1. IInv => JoinedOnce
  BY DEF IInv, TypeOK, JoinedOnce
<1> QED
  BY <1>1, ThreadLifeInvariant, PTL
-----------------------------------------------------------------------------
\* What makes join() safe: a joiner asked for the thread its target's memory
\* holds, or for an earlier one; in the first case the thread, while it can
\* be joined, has that joiner registered.
JoinerRegistered ==
    /\ \A c \in Threads :
          pc[c] = "join" =>
             /\ target[c] # c
             /\ joinGen[c] <= gen[target[c]]
             /\ (/\ joinGen[c] = gen[target[c]] /\ listed[target[c]]
                 /\ ~deleted[target[c]] /\ ~detached[target[c]])
                => joinData[target[c]] = c
    /\ \A c \in Threads : joinWait[c] => pc[c] = "join"

JoinInv == JoinerRegistered /\ StuckOnlyByReuse

\* Initially nobody is inside join().
LEMMA InitRegistered == Init => JoinInv
<1> SUFFICES ASSUME Init PROVE JoinInv
  OBVIOUS
<1>1. \A t \in Threads : ~joinWait[t]
  BY DEF Init
<1>2. \A t \in Threads : pc[t] = "run"
  BY ThreadLifeAssumption DEF Init
<1> QED
  BY <1>1, <1>2 DEF JoinInv, JoinerRegistered, StuckOnlyByReuse, Stuck

\* Every step keeps the joiners registered, and wakes those it must.
LEMMA NextRegistered ==
    ASSUME IInv, JoinInv, [Next]_vars
    PROVE  JoinInv'
<1> USE ThreadLifeAssumption DEF IInv, JoinInv
<1>1. ASSUME NEW c \in Threads, NEW t \in Threads, NEW joinable \in BOOLEAN,
             create(c, t, joinable)
      PROVE  JoinInv'
  <2>1. \A d \in Threads : pc[d] = "join" /\ target[d] = t => joinGen[d] <= gen[t]
    BY DEF JoinerRegistered
  <2>2. \A d \in Threads : joinGen[d] \in Nat /\ gen[d] \in Nat
    BY DEF TypeOK
  <2>3. JoinerRegistered'
    BY <1>1, <2>1, <2>2 DEF create, TypeOK, JoinsTracked, JoinerRegistered
  <2>4. StuckOnlyByReuse'
    BY <1>1, <2>1, <2>2 DEF create, TypeOK, JoinsTracked, JoinerRegistered,
                            StuckOnlyByReuse, Stuck
  <2> QED
    BY <2>3, <2>4
<1>2. ASSUME NEW c \in Threads, NEW t \in Threads, join(c, t)
      PROVE  JoinInv'
  BY <1>2 DEF join, CompleteJoin, IRQexists, isDeleted, TypeOK, JoinsTracked,
              JoinerRegistered, StuckOnlyByReuse, Stuck
<1>3. ASSUME NEW c \in Threads, NEW t \in Threads, detach(c, t)
      PROVE  JoinInv'
  BY <1>3, WakeJoinerFlags DEF detach, TypeOK, JoinsTracked, JoinerRegistered,
                               StuckOnlyByReuse, Stuck
<1>4. ASSUME NEW c \in Threads, NEW result \in Results \cup {NoThread},
             threadLauncher(c, result)
      PROVE  JoinInv'
  BY <1>4, WakeJoinerFlags DEF threadLauncher, TypeOK, JoinsTracked, JoinerRegistered,
                               StuckOnlyByReuse, Stuck
<1>5. ASSUME NEW c \in Threads, JoinLoop(c)
      PROVE  JoinInv'
  BY <1>5 DEF JoinLoop, CompleteJoin, IRQexists, isDeleted, TypeOK, JoinsTracked,
              JoinerRegistered, StuckOnlyByReuse, Stuck
<1>6. ASSUME NEW c \in Threads, JoinFree(c)
      PROVE  JoinInv'
  BY <1>6, RemoveDead DEF JoinFree, TypeOK, JoinsTracked, JoinerRegistered,
                          StuckOnlyByReuse, Stuck, isDeleted
<1>7. ASSUME NEW c \in Threads, Block(c) \/ Unblock(c)
      PROVE  JoinInv'
  BY <1>7 DEF Block, Unblock, JoinerRegistered, StuckOnlyByReuse, Stuck
<1>8. CASE idleCheck
  BY <1>8 DEF idleCheck, TypeOK, JoinerRegistered, StuckOnlyByReuse, Stuck
<1>9. CASE idleReap
  BY <1>9, RemoveDead DEF idleReap, TypeOK, JoinsTracked, JoinerRegistered,
                          StuckOnlyByReuse, Stuck, isDeleted
<1>10. CASE UNCHANGED vars
  BY <1>10 DEF vars, JoinerRegistered, StuckOnlyByReuse, Stuck
<1> QED
  BY <1>1, <1>2, <1>3, <1>4, <1>5, <1>6, <1>7, <1>8, <1>9, <1>10 DEF Next

\* A thread asleep in join() is registered with a live thread that will wake
\* it, unless malloc() returned the memory of the thread it asked for.
THEOREM JoinersWake == Spec => []StuckOnlyByReuse
<1>1. IInv /\ JoinInv /\ [Next]_vars => (IInv /\ JoinInv)'
  BY NextInductive, NextRegistered
<1>2. Init => IInv /\ JoinInv
  BY InitIInv, InitRegistered
<1>3. JoinInv => StuckOnlyByReuse
  BY DEF JoinInv
<1> QED
  BY <1>1, <1>2, <1>3, PTL DEF Spec
=============================================================================
