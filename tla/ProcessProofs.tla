---------------------------- MODULE ProcessProofs ----------------------------
(***************************************************************************)
(* Proofs about Process for every finite set of kernel threads, every      *)
(* range of pids and every choice of the calls processes may make.         *)
(***************************************************************************)
EXTENDS Process, SequenceTheorems, FiniteSetTheorems, TLAPS

Elements(s) == {s[i] : i \in DOMAIN s}

Once(s) == \A i, j \in DOMAIN s : s[i] = s[j] => i = j

\* A parent still has its thread, and a thread's process lives.
ParentsInv ==
    /\ \A p \in processes :
          ppid[p] # p /\ (ppid[p] = 0 \/ pc[ppid[p]] # "none")
    /\ \A p \in Pids : pc[p] # "none" => p \in processes /\ ~zombie[p]

\* FamilyConsistent, with membership instead of counting.
ListsInv ==
    \A q \in Procs :
       /\ Once(zombies[q])
       /\ \A p \in Pids :
            /\ p \in childs[q] <=> (p \in processes /\ ppid[p] = q /\ ~zombie[p])
            /\ p \in Elements(zombies[q]) <=>
               (p \in processes /\ ppid[p] = q /\ zombie[p] /\ waitCount[p] = 0)

\* A process being created is a child without a thread that only its
\* creator starts; a process that waits in create() or system() keeps it.
CreatingInv ==
    /\ \A t \in Threads : pc[t] = "creating" =>
          /\ arg[t] \in processes /\ ppid[arg[t]] = self(t)
          /\ ~zombie[arg[t]] /\ pc[arg[t]] = "none"
    /\ \A t, u \in Threads :
          pc[t] = "creating" /\ pc[u] = "creating" /\ arg[t] = arg[u] => t = u
    /\ \A t \in Pids : pc[t] = "started" => arg[t] \in processes /\ ppid[arg[t]] = t

ProcessInv ==
    /\ TypeOK /\ ParentsInv /\ ListsInv /\ CreatingInv
    /\ WaitersCounted /\ OnlyKernelThreadsRace

-----------------------------------------------------------------------------
(* Lists *)

\* list::remove() takes out the one place of an element.
LEMMA Removed ==
    ASSUME NEW S, NEW s \in Seq(S), Once(s), NEW p
    PROVE  /\ Without(s, p) \in Seq(S) /\ Once(Without(s, p))
           /\ Elements(Without(s, p)) = Elements(s) \ {p}
<1>1. Len(s) \in Nat /\ DOMAIN s = 1 .. Len(s) /\ \A k \in 1 .. Len(s) : s[k] \in S
    BY LenProperties, ElementOfSeq
<1>2. PICK at : at = {i \in DOMAIN s : s[i] = p}
    OBVIOUS
<1>3. CASE at = {}
    <2>1. Without(s, p) = s
        BY <1>2, <1>3 DEF Without
    <2>2. p \notin Elements(s)
        BY <1>2, <1>3 DEF Elements
    <2> QED BY <2>1, <2>2
<1>4. CASE at # {}
    <2>1. PICK k : k = CHOOSE i \in at : TRUE
        OBVIOUS
    <2>2. k \in 1 .. Len(s) /\ s[k] = p
        BY <1>1, <1>2, <1>4, <2>1
    <2>3. PICK r : r = [i \in 1 .. Len(s) - 1 |-> s[IF i < k THEN i ELSE i + 1]]
        OBVIOUS
    <2>4. Without(s, p) = r
        BY <1>2, <1>4, <2>1, <2>3 DEF Without
    <2>5. /\ \A i \in 1 .. Len(s) - 1 : i < k => r[i] = s[i] /\ i \in 1 .. Len(s)
          /\ \A i \in 1 .. Len(s) - 1 : ~(i < k) => r[i] = s[i + 1] /\ i + 1 \in 1 .. Len(s)
        BY <1>1, <2>2, <2>3
    <2>6. r \in Seq(S) /\ DOMAIN r = 1 .. Len(s) - 1
        <3>1. \A i \in 1 .. Len(s) - 1 : s[IF i < k THEN i ELSE i + 1] \in S
            BY <1>1, <2>2
        <3>2. Len(s) - 1 \in Nat
            BY <1>1, <2>2
        <3> QED BY <2>3, <3>1, <3>2
    <2>7. \A i, j \in 1 .. Len(s) : s[i] = s[j] => i = j
        BY <1>1 DEF Once
    <2>8. ASSUME NEW i \in 1 .. Len(s) - 1, NEW j \in 1 .. Len(s) - 1, r[i] = r[j]
          PROVE  i = j
        BY <1>1, <2>2, <2>5, <2>7, <2>8
    <2>9. ASSUME NEW x \in Elements(r) PROVE x \in Elements(s) /\ x # p
        <3>1. PICK i \in 1 .. Len(s) - 1 : x = r[i]
            BY <2>6 DEF Elements
        <3>2. PICK j \in 1 .. Len(s) : x = s[j] /\ j # k
            <4>1. CASE i < k
                BY <2>5, <3>1, <4>1
            <4>2. CASE ~(i < k)
                <5>1. i + 1 \in 1 .. Len(s) /\ i + 1 # k
                    BY <2>2, <2>5, <4>2
                <5> QED BY <2>5, <3>1, <4>2, <5>1
            <4> QED BY <4>1, <4>2
        <3> QED BY <1>1, <2>2, <2>7, <3>2 DEF Elements
    <2>10. ASSUME NEW x \in Elements(s), x # p PROVE x \in Elements(r)
        <3>1. PICK j \in 1 .. Len(s) : x = s[j]
            BY <1>1 DEF Elements
        <3>2. j # k
            BY <2>2, <2>10, <3>1
        <3>3. \E i \in 1 .. Len(s) - 1 : x = r[i]
            <4>1. CASE j < k
                <5>1. j \in 1 .. Len(s) - 1
                    BY <1>1, <2>2, <4>1
                <5> QED BY <2>5, <3>1, <4>1, <5>1
            <4>2. CASE ~(j < k)
                <5>1. j - 1 \in 1 .. Len(s) - 1 /\ ~(j - 1 < k) /\ j - 1 + 1 = j
                    BY <1>1, <2>2, <3>2, <4>2
                <5>2. r[j - 1] = s[j - 1 + 1]
                    BY <2>5, <5>1
                <5> QED BY <3>1, <5>1, <5>2
            <4> QED BY <4>1, <4>2
        <3> QED BY <2>6, <3>3 DEF Elements
    <2> QED BY <2>4, <2>6, <2>8, <2>9, <2>10 DEF Once
<1> QED BY <1>3, <1>4

\* pop_front().
LEMMA Taken ==
    ASSUME NEW S, NEW s \in Seq(S), Once(s), s # <<>>
    PROVE  /\ Tail(s) \in Seq(S) /\ Once(Tail(s)) /\ Head(s) \in Elements(s)
           /\ Elements(Tail(s)) = Elements(s) \ {Head(s)}
<1>1. /\ Len(s) \in Nat /\ Len(s) # 0 /\ DOMAIN s = 1 .. Len(s)
      /\ \A k \in 1 .. Len(s) : s[k] \in S
    BY LenProperties, ElementOfSeq, EmptySeq
<1>2. Head(s) = s[1] /\ 1 \in 1 .. Len(s)
    BY <1>1
<1>3. PICK r : r = Tail(s)
    OBVIOUS
<1>4. /\ r \in Seq(S) /\ DOMAIN r = 1 .. Len(s) - 1
      /\ \A i \in 1 .. Len(s) - 1 : r[i] = s[i + 1] /\ i + 1 \in 1 .. Len(s)
    <2>1. r \in Seq(S) /\ Len(r) = Len(s) - 1 /\ \A i \in 1 .. Len(r) : r[i] = s[i + 1]
        BY <1>3, HeadTailProperties
    <2>2. DOMAIN r = 1 .. Len(r)
        BY <2>1, LenProperties
    <2> QED BY <1>1, <2>1, <2>2
<1>5. \A i, j \in 1 .. Len(s) : s[i] = s[j] => i = j
    BY <1>1 DEF Once
<1>6. ASSUME NEW i \in 1 .. Len(s) - 1, NEW j \in 1 .. Len(s) - 1, r[i] = r[j]
      PROVE  i = j
    BY <1>1, <1>4, <1>5, <1>6
<1>7. ASSUME NEW x \in Elements(r) PROVE x \in Elements(s) /\ x # s[1]
    <2>1. PICK i \in 1 .. Len(s) - 1 : x = r[i]
        BY <1>4 DEF Elements
    <2>2. x = s[i + 1] /\ i + 1 \in 1 .. Len(s) /\ i + 1 # 1
        BY <1>4, <2>1
    <2> QED BY <1>1, <1>2, <1>5, <2>2 DEF Elements
<1>8. ASSUME NEW x \in Elements(s), x # s[1] PROVE x \in Elements(r)
    <2>1. PICK j \in 1 .. Len(s) : x = s[j]
        BY <1>1 DEF Elements
    <2>2. j - 1 \in 1 .. Len(s) - 1 /\ j - 1 + 1 = j
        BY <1>1, <1>8, <2>1
    <2>3. r[j - 1] = s[j - 1 + 1]
        BY <1>4, <2>2
    <2> QED BY <1>4, <2>1, <2>2, <2>3 DEF Elements
<1>9. s[1] \in Elements(s)
    BY <1>1, <1>2 DEF Elements
<1> QED BY <1>2, <1>3, <1>4, <1>6, <1>7, <1>8, <1>9 DEF Once

\* push_back() of a new element.
LEMMA Appended ==
    ASSUME NEW S, NEW s \in Seq(S), Once(s), NEW x \in S, x \notin Elements(s)
    PROVE  /\ Append(s, x) \in Seq(S) /\ Once(Append(s, x))
           /\ Elements(Append(s, x)) = Elements(s) \cup {x}
<1>1. Len(s) \in Nat /\ DOMAIN s = 1 .. Len(s)
    BY LenProperties
<1>2. PICK r : r = Append(s, x)
    OBVIOUS
<1>3. /\ r \in Seq(S) /\ DOMAIN r = 1 .. Len(s) + 1 /\ r[Len(s) + 1] = x
      /\ \A i \in 1 .. Len(s) : r[i] = s[i]
    <2>1. /\ r \in Seq(S) /\ Len(r) = Len(s) + 1 /\ r[Len(s) + 1] = x
          /\ \A i \in 1 .. Len(s) : r[i] = s[i]
        BY <1>2, AppendProperties
    <2> QED BY <2>1, LenProperties
<1>4. \A i \in 1 .. Len(s) : s[i] # x
    BY <1>1 DEF Elements
<1>5. \A i, j \in 1 .. Len(s) : s[i] = s[j] => i = j
    BY <1>1 DEF Once
<1>6. \A i \in 1 .. Len(s) + 1 : i \in 1 .. Len(s) \/ i = Len(s) + 1
    BY <1>1
<1>7. ASSUME NEW i \in 1 .. Len(s) + 1, NEW j \in 1 .. Len(s) + 1, r[i] = r[j]
      PROVE  i = j
    BY <1>3, <1>4, <1>5, <1>6, <1>7
<1>8. ASSUME NEW y \in Elements(r) PROVE y \in Elements(s) \cup {x}
    <2>1. PICK i \in 1 .. Len(s) + 1 : y = r[i]
        BY <1>3 DEF Elements
    <2> QED BY <1>1, <1>3, <1>6, <2>1 DEF Elements
<1>9. ASSUME NEW y \in Elements(s) PROVE y \in Elements(r)
    <2>1. PICK i \in 1 .. Len(s) : y = s[i]
        BY <1>1 DEF Elements
    <2>2. i \in DOMAIN r /\ y = r[i]
        BY <1>1, <1>3, <2>1
    <2> QED BY <2>2 DEF Elements
<1>10. x \in Elements(r)
    <2>1. Len(s) + 1 \in DOMAIN r
        BY <1>1, <1>3
    <2> QED BY <1>3, <2>1 DEF Elements
<1> QED BY <1>2, <1>3, <1>7, <1>8, <1>9, <1>10 DEF Once

\* splice() of two lists without a common element.
LEMMA Spliced ==
    ASSUME NEW S, NEW s \in Seq(S), NEW u \in Seq(S), Once(s), Once(u),
           \A x \in Elements(s) : x \notin Elements(u)
    PROVE  /\ s \o u \in Seq(S) /\ Once(s \o u)
           /\ Elements(s \o u) = Elements(s) \cup Elements(u)
<1>1. /\ Len(s) \in Nat /\ DOMAIN s = 1 .. Len(s)
      /\ Len(u) \in Nat /\ DOMAIN u = 1 .. Len(u)
    BY LenProperties
<1>2. PICK m, n : m = Len(s) /\ n = Len(u)
    OBVIOUS
<1>3. PICK r : r = s \o u
    OBVIOUS
<1>4. /\ r \in Seq(S) /\ DOMAIN r = 1 .. m + n
      /\ \A i \in 1 .. m + n : r[i] = IF i <= m THEN s[i] ELSE u[i - m]
    <2>1. /\ r \in Seq(S) /\ Len(r) = m + n
          /\ \A i \in 1 .. m + n : r[i] = IF i <= m THEN s[i] ELSE u[i - m]
        BY <1>2, <1>3, ConcatProperties
    <2> QED BY <2>1, LenProperties
<1>5. \A i \in 1 .. m + n : (~(i <= m) => i - m \in 1 .. n) /\ (i <= m => i \in 1 .. m)
    BY <1>1, <1>2
<1>6. \A i \in 1 .. m, j \in 1 .. n : s[i] # u[j]
    BY <1>1, <1>2 DEF Elements
<1>7. /\ \A i, j \in 1 .. m : s[i] = s[j] => i = j
      /\ \A i, j \in 1 .. n : u[i] = u[j] => i = j
    BY <1>1, <1>2 DEF Once
<1>8. ASSUME NEW i \in 1 .. m + n, NEW j \in 1 .. m + n, r[i] = r[j]
      PROVE  i = j
    <2>1. CASE i <= m /\ j <= m
        BY <1>4, <1>5, <1>7, <1>8, <2>1
    <2>2. CASE i <= m /\ ~(j <= m)
        BY <1>4, <1>5, <1>6, <1>8, <2>2
    <2>3. CASE ~(i <= m) /\ j <= m
        BY <1>4, <1>5, <1>6, <1>8, <2>3
    <2>4. CASE ~(i <= m) /\ ~(j <= m)
        <3>1. u[i - m] = u[j - m] /\ i - m \in 1 .. n /\ j - m \in 1 .. n
            BY <1>4, <1>5, <1>8, <2>4
        <3>2. i - m = j - m
            BY <1>7, <3>1
        <3> QED BY <1>1, <1>2, <3>2
    <2> QED BY <2>1, <2>2, <2>3, <2>4
<1>9. ASSUME NEW x \in Elements(r) PROVE x \in Elements(s) \cup Elements(u)
    <2>1. PICK i \in 1 .. m + n : x = r[i]
        BY <1>4 DEF Elements
    <2>2. CASE i <= m
        BY <1>1, <1>2, <1>4, <1>5, <2>1, <2>2 DEF Elements
    <2>3. CASE ~(i <= m)
        BY <1>1, <1>2, <1>4, <1>5, <2>1, <2>3 DEF Elements
    <2> QED BY <2>2, <2>3
<1>10. ASSUME NEW x \in Elements(s) PROVE x \in Elements(r)
    <2>1. PICK i \in 1 .. m : x = s[i]
        BY <1>1, <1>2 DEF Elements
    <2>2. i \in 1 .. m + n /\ i <= m
        BY <1>1, <1>2
    <2> QED BY <1>4, <2>1, <2>2 DEF Elements
<1>11. ASSUME NEW x \in Elements(u) PROVE x \in Elements(r)
    <2>1. PICK i \in 1 .. n : x = u[i]
        BY <1>1, <1>2 DEF Elements
    <2>2. PICK j \in 1 .. m + n : ~(j <= m) /\ j - m = i
        <3>1. i + m \in 1 .. m + n /\ ~(i + m <= m) /\ (i + m) - m = i
            BY <1>1, <1>2
        <3> QED BY <3>1
    <2>3. r[j] = u[i]
        BY <1>4, <2>2
    <2> QED BY <1>4, <2>1, <2>3 DEF Elements
<1> QED BY <1>3, <1>4, <1>8, <1>9, <1>10, <1>11 DEF Once

-----------------------------------------------------------------------------
(* Threads and their processes *)

\* The thread of a process has its pid; only kernel threads share a process.
LEMMA Names ==
    /\ \A p \in Pids : p \in Int /\ p # 0 /\ p \in Procs /\ p \in Threads
    /\ 0 \in Procs /\ 0 \notin Pids
    /\ \A q \in Procs : q = 0 \/ q \in Pids
    /\ \A t \in Threads : self(t) \in Procs /\ (t \in Pids => self(t) = t)
    /\ \A t \in Threads : t \in KThreads <=> self(t) = 0
    /\ \A t, u \in Threads : self(t) = self(u) => t = u \/ self(t) = 0
    /\ \A t \in Threads, u \in Pids : self(t) = u => t = u
<1>1. /\ \A p \in Pids : p \in Int /\ p # 0 /\ p \in Procs
      /\ 0 \in Procs /\ 0 \notin Pids
      /\ \A q \in Procs : q = 0 \/ q \in Pids
    BY ProcessAssumption DEF Pids, Procs
<1>2. \A t \in Threads : t \in KThreads \/ (t \in Pids /\ t \notin KThreads)
    BY ProcessAssumption DEF Threads
<1>3. \A p \in Pids : p \in Threads /\ p \notin KThreads
    BY ProcessAssumption DEF Threads
<1> QED BY <1>1, <1>2, <1>3 DEF self

\* Waiters can be counted.
LEMMA ThreadsFinite ==
    IsFiniteSet(Threads) /\ Cardinality(Threads) \in Nat
<1>1. IsFiniteSet(Pids)
    BY ProcessAssumption, FS_Interval DEF Pids
<1>2. IsFiniteSet(KThreads)
    BY ProcessAssumption
<1>3. IsFiniteSet(KThreads \cup Pids)
    BY <1>1, <1>2, FS_Union
<1> QED BY <1>3, FS_CardinalityType DEF Threads

LEMMA WaitingFinite ==
    ASSUME NEW p
    PROVE  /\ IsFiniteSet(Waiting(p))
           /\ Cardinality(Waiting(p)) \in 0 .. Cardinality(Threads)
<1>1. Waiting(p) \in SUBSET Threads
    BY DEF Waiting
<1>2. /\ IsFiniteSet(Waiting(p)) /\ Cardinality(Waiting(p)) <= Cardinality(Threads)
      /\ Cardinality(Waiting(p)) \in Nat
    BY <1>1, ThreadsFinite, FS_Subset, FS_CardinalityType
<1> QED BY <1>2, ThreadsFinite

\* The step of a running thread that neither makes nor starts a process.
LEMMA PlacesKept ==
    ASSUME ProcessInv, NEW t \in Threads, NEW place \in {"run", "generic", "specific"},
           NEW p \in Procs, pc[t] # "none", Goto(t, place, p),
           UNCHANGED <<processes, ppid, zombie>>
    PROVE  /\ \A u \in Threads : pc'[u] = IF u = t THEN place ELSE pc[u]
           /\ \A u \in Threads : arg'[u] = IF u = t THEN p ELSE arg[u]
           /\ pc' \in [Threads -> Places] /\ arg' \in [Threads -> Procs]
           /\ ParentsInv' /\ CreatingInv'
<1>1. TypeOK /\ pc \in [Threads -> Places] /\ arg \in [Threads -> Procs]
    BY DEF ProcessInv, TypeOK
<1>2. /\ \A u \in Threads : pc'[u] = IF u = t THEN place ELSE pc[u]
      /\ \A u \in Threads : arg'[u] = IF u = t THEN p ELSE arg[u]
      /\ pc' \in [Threads -> Places] /\ arg' \in [Threads -> Procs]
    BY <1>1 DEF Goto, Places
<1>3. \A u \in Threads : pc'[u] = "none" <=> pc[u] = "none"
    BY <1>2
<1>4. ParentsInv'
    <2>1. \A q \in processes : ppid[q] \in Procs
        BY <1>1 DEF TypeOK
    <2> QED BY <1>3, <2>1, Names DEF ProcessInv, ParentsInv
<1>5. CreatingInv'
    <2>1. ASSUME NEW u \in Threads, pc'[u] = "creating"
          PROVE  /\ pc[u] = "creating" /\ arg'[u] = arg[u]
                 /\ arg[u] \in Threads /\ pc'[arg[u]] = "none"
        <3>1. pc[u] = "creating" /\ arg'[u] = arg[u]
            BY <1>2, <2>1
        <3>2. arg[u] \in Pids /\ pc[arg[u]] = "none"
            BY <1>1, <3>1 DEF ProcessInv, CreatingInv, TypeOK
        <3> QED BY <1>3, <3>1, <3>2, Names
    <2>2. \A u \in Pids : pc'[u] = "started" => pc[u] = "started" /\ arg'[u] = arg[u]
        BY <1>2, Names
    <2> QED BY <2>1, <2>2 DEF ProcessInv, CreatingInv
<1> QED BY <1>2, <1>4, <1>5

\* A thread that is not waiting for a process in particular, and does not
\* begin to: only where it is changes.
LEMMA MoveKeeps ==
    ASSUME ProcessInv, NEW t \in Threads, NEW place \in {"run", "generic"},
           pc[t] \notin {"none", "specific", "specificWoken"},
           Goto(t, place, 0),
           freed' = freed \/ freed' = freed \ {t},
           UNCHANGED <<pidCounter, processes, ppid, childs, zombies, zombie, waitCount>>
    PROVE  ProcessInv'
<1>1. /\ \A u \in Threads : pc'[u] = IF u = t THEN place ELSE pc[u]
      /\ \A u \in Threads : arg'[u] = IF u = t THEN 0 ELSE arg[u]
      /\ pc' \in [Threads -> Places] /\ arg' \in [Threads -> Procs]
      /\ ParentsInv' /\ CreatingInv'
    <2>1. 0 \in Procs
        BY Names
    <2> QED BY <2>1, PlacesKept
<1>2. TypeOK'
    BY <1>1 DEF ProcessInv, TypeOK
<1>3. ListsInv'
    BY DEF ProcessInv, ListsInv
<1>4. \A p : Waiting(p)' = Waiting(p)
    BY <1>1 DEF Waiting
<1>5. WaitersCounted'
    BY <1>1, <1>4 DEF ProcessInv, WaitersCounted
<1>6. OnlyKernelThreadsRace'
    BY <1>1 DEF ProcessInv, OnlyKernelThreadsRace
<1> QED BY <1>1, <1>2, <1>3, <1>5, <1>6 DEF ProcessInv

\* The new pid is not in use, so nobody is dealing with it.
LEMMA CreateKeeps ==
    ASSUME ProcessInv, NEW t \in Threads, NEW p \in Pids, create(t, p)
    PROVE  ProcessInv'
<1>1. TypeOK /\ pc \in [Threads -> Places] /\ arg \in [Threads -> Procs]
    BY DEF ProcessInv, TypeOK
<1>2. /\ pc[t] = "run" /\ p \notin processes /\ pidCounter' = p + 1
      /\ processes' = processes \cup {p} /\ zombies' = zombies /\ freed' = freed
    BY DEF create, Ready, getNewPid
<1>3. /\ \A q \in Pids : ppid'[q] = IF q = p THEN self(t) ELSE ppid[q]
      /\ \A q \in Pids : zombie'[q] = IF q = p THEN FALSE ELSE zombie[q]
      /\ \A q \in Pids : waitCount'[q] = IF q = p THEN 0 ELSE waitCount[q]
      /\ ppid' \in [Pids -> Procs] /\ zombie' \in [Pids -> BOOLEAN]
    BY <1>1, Names DEF create, TypeOK
<1>4. /\ \A q \in Procs : childs'[q] = childs[q] \cup (IF q = self(t) THEN {p} ELSE {})
      /\ childs' \in [Procs -> SUBSET Pids]
    BY <1>1, Names DEF create, TypeOK
<1>5. /\ \A u \in Threads : pc'[u] = IF u = t THEN "creating" ELSE pc[u]
      /\ \A u \in Threads : arg'[u] = IF u = t THEN p ELSE arg[u]
      /\ pc' \in [Threads -> Places] /\ arg' \in [Threads -> Procs]
    BY <1>1, Names DEF create, Goto, Places
<1>6. /\ p \in Threads /\ pc[p] = "none" /\ p # t /\ self(t) # p
      /\ \A q \in processes : q # p /\ q \in Pids
    BY <1>1, <1>2, Names DEF ProcessInv, ParentsInv, TypeOK
<1>7. TypeOK'
    <2>1. waitCount' \in [Pids -> 0 .. Cardinality(Threads)]
        BY <1>1, ThreadsFinite DEF create, TypeOK
    <2>2. pidCounter' \in 0 .. MaxPid + 1
        BY <1>2, ProcessAssumption DEF Pids
    <2> QED BY <1>1, <1>2, <1>3, <1>4, <1>5, <2>1, <2>2 DEF TypeOK
<1>8. ParentsInv'
    <2>1. self(t) = 0 \/ pc'[self(t)] # "none"
        BY <1>5, Names
    <2>2. \A q \in Procs : q # 0 /\ pc[q] # "none" => pc'[q] # "none"
        BY <1>5, Names
    <2>3. \A q \in processes : ppid'[q] = ppid[q] /\ ppid[q] \in Procs
        BY <1>1, <1>3, <1>6 DEF TypeOK
    <2>4. ASSUME NEW q \in processes'
          PROVE  ppid'[q] # q /\ (ppid'[q] = 0 \/ pc'[ppid'[q]] # "none")
        <3>1. CASE q = p
            BY <1>3, <1>6, <2>1, <3>1
        <3>2. CASE q \in processes
            BY <2>2, <2>3, <3>2 DEF ProcessInv, ParentsInv
        <3> QED BY <1>2, <3>1, <3>2
    <2>5. ASSUME NEW q \in Pids, pc'[q] # "none" PROVE q \in processes' /\ ~zombie'[q]
        <3>1. pc[q] # "none" /\ q # p
            BY <1>2, <1>5, <1>6, <2>5, Names
        <3> QED BY <1>2, <1>3, <3>1 DEF ProcessInv, ParentsInv
    <2> QED BY <2>4, <2>5 DEF ParentsInv
<1>9. ListsInv'
    <2> SUFFICES ASSUME NEW q \in Procs, NEW r \in Pids
                 PROVE  /\ Once(zombies[q])
                        /\ r \in childs'[q] <=> (r \in processes' /\ ppid'[r] = q /\ ~zombie'[r])
                        /\ r \in Elements(zombies[q]) <=>
                           (r \in processes' /\ ppid'[r] = q /\ zombie'[r] /\ waitCount'[r] = 0)
        BY <1>2 DEF ListsInv
    <2>1. /\ Once(zombies[q])
          /\ r \in childs[q] <=> (r \in processes /\ ppid[r] = q /\ ~zombie[r])
          /\ r \in Elements(zombies[q]) <=>
               (r \in processes /\ ppid[r] = q /\ zombie[r] /\ waitCount[r] = 0)
        BY DEF ProcessInv, ListsInv
    <2>2. CASE r = p
        <3>1. /\ r \in childs'[q] <=> self(t) = q
              /\ ppid'[r] = self(t) /\ zombie'[r] = FALSE /\ r \in processes'
            BY <1>2, <1>3, <1>4, <2>1, <2>2
        <3> QED BY <1>2, <2>1, <2>2, <3>1
    <2>3. CASE r # p
        <3>1. /\ ppid'[r] = ppid[r] /\ zombie'[r] = zombie[r]
              /\ waitCount'[r] = waitCount[r]
              /\ r \in processes' <=> r \in processes
            BY <1>2, <1>3, <2>3
        <3>2. r \in childs'[q] <=> r \in childs[q]
            BY <1>4, <2>3
        <3> QED BY <2>1, <3>1, <3>2
    <2> QED BY <2>2, <2>3
<1>10. CreatingInv'
    <2>1. ASSUME NEW u \in Threads, pc'[u] = "creating"
          PROVE  /\ arg'[u] \in processes' /\ ppid'[arg'[u]] = self(u)
                 /\ ~zombie'[arg'[u]] /\ pc'[arg'[u]] = "none"
                 /\ u # t => pc[u] = "creating" /\ arg[u] \in processes
        <3>1. CASE u = t
            BY <1>2, <1>3, <1>5, <1>6, <3>1
        <3>2. CASE u # t
            <4>1. pc[u] = "creating" /\ arg'[u] = arg[u]
                BY <1>5, <2>1, <3>2
            <4>2. /\ arg[u] \in processes /\ ppid[arg[u]] = self(u)
                  /\ ~zombie[arg[u]] /\ pc[arg[u]] = "none"
                BY <4>1 DEF ProcessInv, CreatingInv
            <4>3. pc'[arg[u]] = "none"
                BY <1>2, <1>5, <1>6, <4>2, Names
            <4> QED BY <1>2, <1>3, <1>6, <4>1, <4>2, <4>3
        <3> QED BY <3>1, <3>2
    <2>2. ASSUME NEW u \in Threads, NEW v \in Threads, pc'[u] = "creating",
                 pc'[v] = "creating", arg'[u] = arg'[v]
          PROVE  u = v
        <3>1. CASE u # t /\ v # t
            BY <1>5, <2>1, <2>2, <3>1 DEF ProcessInv, CreatingInv
        <3>2. CASE u = t /\ v # t
            BY <1>2, <1>5, <2>1, <2>2, <3>2
        <3>3. CASE u # t /\ v = t
            BY <1>2, <1>5, <2>1, <2>2, <3>3
        <3> QED BY <3>1, <3>2, <3>3
    <2>3. ASSUME NEW u \in Pids, pc'[u] = "started"
          PROVE  arg'[u] \in processes' /\ ppid'[arg'[u]] = u
        <3>1. pc[u] = "started" /\ arg'[u] = arg[u]
            BY <1>5, <2>3, Names
        <3>2. arg[u] \in processes /\ ppid[arg[u]] = u
            BY <3>1 DEF ProcessInv, CreatingInv
        <3> QED BY <1>2, <1>3, <1>6, <3>1, <3>2
    <2> QED BY <2>1, <2>2, <2>3 DEF CreatingInv
<1>11. \A q : Waiting(q)' = Waiting(q)
    BY <1>2, <1>5 DEF Waiting
<1>12. Waiting(p) = {} /\ Cardinality(Waiting(p)) = 0
    <2>1. Waiting(p) = {}
        BY <1>2 DEF Waiting, ProcessInv, WaitersCounted
    <2> QED BY <2>1, FS_EmptySet
<1>13. WaitersCounted'
    <2>1. \A q \in processes' : waitCount'[q] = Cardinality(Waiting(q))
        BY <1>2, <1>3, <1>6, <1>12 DEF ProcessInv, WaitersCounted
    <2>2. ASSUME NEW u \in Threads, pc'[u] \in {"specific", "specificWoken"}
          PROVE  /\ arg'[u] \in processes' /\ ppid'[arg'[u]] = self(u)
                 /\ pc'[u] = "specificWoken" <=> zombie'[arg'[u]]
        <3>1. pc'[u] = pc[u] /\ arg'[u] = arg[u]
            BY <1>5, <2>2
        <3>2. /\ arg[u] \in processes /\ ppid[arg[u]] = self(u)
              /\ pc[u] = "specificWoken" <=> zombie[arg[u]]
            BY <2>2, <3>1 DEF ProcessInv, WaitersCounted
        <3> QED BY <1>2, <1>3, <1>6, <3>1, <3>2
    <2> QED BY <1>11, <2>1, <2>2 DEF WaitersCounted
<1>14. OnlyKernelThreadsRace'
    BY <1>2, <1>5 DEF ProcessInv, OnlyKernelThreadsRace
<1> QED BY <1>7, <1>8, <1>9, <1>10, <1>13, <1>14 DEF ProcessInv

\* Taking back a process that never ran: it has no children, and who sleeps
\* on it has the same parent process as its creator.
LEMMA CreateFailsKeeps ==
    ASSUME ProcessInv, NEW t \in Threads, createFails(t)
    PROVE  ProcessInv'
<1>1. TypeOK /\ pc \in [Threads -> Places] /\ arg \in [Threads -> Procs]
    BY DEF ProcessInv, TypeOK
<1>2. PICK p : p = arg[t]
    OBVIOUS
<1>3. /\ pc[t] = "creating" /\ processes' = processes \ {p}
      /\ UNCHANGED <<pidCounter, ppid, zombies, zombie, waitCount, freed>>
    BY <1>2 DEF createFails
<1>4. /\ p \in processes /\ p \in Pids /\ p \in Threads /\ p # t
      /\ ppid[p] = self(t) /\ ~zombie[p] /\ pc[p] = "none"
    BY <1>1, <1>2, <1>3, Names DEF ProcessInv, CreatingInv, TypeOK
<1>5. /\ \A q \in Procs : childs'[q] = IF q = self(t) THEN childs[q] \ {p} ELSE childs[q]
      /\ childs' \in [Procs -> SUBSET Pids]
    BY <1>1, <1>2, Names DEF createFails, TypeOK
<1>6. /\ \A u \in Threads : pc'[u] = IF u = t THEN "run"
                                     ELSE IF pc[u] = "specific" /\ arg[u] = p
                                     THEN "lost" ELSE pc[u]
      /\ \A u \in Threads : arg'[u] = IF u = t THEN 0 ELSE arg[u]
      /\ pc' \in [Threads -> Places] /\ arg' \in [Threads -> Procs]
    BY <1>1, <1>2, Names DEF createFails, Places
<1>7. TypeOK'
    BY <1>1, <1>3, <1>5, <1>6 DEF TypeOK
<1>8. \A q \in processes : ppid[q] # p
    BY <1>4, Names DEF ProcessInv, ParentsInv
<1>9. \A u \in Threads : pc'[u] = "none" <=> pc[u] = "none"
    BY <1>3, <1>6
<1>10. ParentsInv'
    <2>1. ASSUME NEW q \in processes'
          PROVE  ppid[q] # q /\ (ppid[q] = 0 \/ pc'[ppid[q]] # "none")
        <3>1. /\ ppid[q] # q /\ (ppid[q] = 0 \/ pc[ppid[q]] # "none")
              /\ ppid[q] \in Procs
            BY <1>1, <1>3 DEF ProcessInv, ParentsInv, TypeOK
        <3> QED BY <1>9, <3>1, Names
    <2>2. \A q \in Pids : pc'[q] # "none" => q \in processes' /\ ~zombie[q]
        BY <1>3, <1>4, <1>9, Names DEF ProcessInv, ParentsInv
    <2> QED BY <1>3, <2>1, <2>2 DEF ParentsInv
<1>11. ListsInv'
    <2> SUFFICES ASSUME NEW q \in Procs, NEW r \in Pids
                 PROVE  /\ Once(zombies'[q])
                        /\ r \in childs'[q] <=> (r \in processes' /\ ppid'[r] = q /\ ~zombie'[r])
                        /\ r \in Elements(zombies'[q]) <=>
                           (r \in processes' /\ ppid'[r] = q /\ zombie'[r] /\ waitCount'[r] = 0)
        BY <1>4 DEF ListsInv
    <2>0. /\ zombies' = zombies /\ ppid'[r] = ppid[r] /\ zombie'[r] = zombie[r]
          /\ waitCount'[r] = waitCount[r]
        BY <1>3
    <2>1. /\ Once(zombies[q])
          /\ r \in childs[q] <=> (r \in processes /\ ppid[r] = q /\ ~zombie[r])
          /\ r \in Elements(zombies[q]) <=>
               (r \in processes /\ ppid[r] = q /\ zombie[r] /\ waitCount[r] = 0)
        BY DEF ProcessInv, ListsInv
    <2>2. r \in childs'[q] <=> r \in childs[q] /\ ~(r = p /\ q = self(t))
        BY <1>5
    <2>3. r \in processes' <=> r \in processes /\ r # p
        BY <1>3
    <2> QED BY <1>4, <2>0, <2>1, <2>2, <2>3
<1>12. CreatingInv'
    <2>1. ASSUME NEW u \in Threads, pc'[u] = "creating"
          PROVE  /\ pc[u] = "creating" /\ arg'[u] = arg[u] /\ u # t
                 /\ arg[u] \in processes' /\ ppid[arg[u]] = self(u)
                 /\ ~zombie[arg[u]] /\ pc'[arg[u]] = "none"
        <3>1. pc[u] = "creating" /\ arg'[u] = arg[u] /\ u # t
            BY <1>6, <2>1
        <3>2. /\ arg[u] \in processes /\ ppid[arg[u]] = self(u)
              /\ ~zombie[arg[u]] /\ pc[arg[u]] = "none" /\ arg[u] # p
            BY <1>2, <1>3, <3>1 DEF ProcessInv, CreatingInv
        <3>3. arg[u] \in Threads
            BY <1>1, <3>2, Names DEF TypeOK
        <3> QED BY <1>3, <1>9, <3>1, <3>2, <3>3
    <2>2. ASSUME NEW u \in Pids, pc'[u] = "started"
          PROVE  arg'[u] \in processes' /\ ppid[arg'[u]] = u
        <3>1. pc[u] = "started" /\ arg'[u] = arg[u] /\ u \in Threads /\ u # t
            BY <1>6, <2>2, Names
        <3>2. arg[u] \in processes /\ ppid[arg[u]] = u
            BY <3>1 DEF ProcessInv, CreatingInv
        <3>3. arg[u] # p
            BY <1>4, <3>1, <3>2, Names
        <3> QED BY <1>3, <3>1, <3>2, <3>3
    <2> QED BY <1>3, <2>1, <2>2 DEF CreatingInv, ProcessInv
<1>13. \A q \in processes' : Waiting(q)' = Waiting(q)
    <2> TAKE q \in processes'
    <2>1. q # p
        BY <1>3
    <2> QED BY <1>3, <1>6, <2>1 DEF Waiting
<1>14. WaitersCounted'
    <2>1. ASSUME NEW u \in Threads, pc'[u] \in {"specific", "specificWoken"}
          PROVE  /\ arg'[u] \in processes' /\ ppid[arg'[u]] = self(u)
                 /\ pc'[u] = "specificWoken" <=> zombie[arg'[u]]
        <3>1. pc'[u] = pc[u] /\ arg'[u] = arg[u] /\ ~(pc[u] = "specific" /\ arg[u] = p)
            BY <1>6, <2>1
        <3>2. /\ arg[u] \in processes /\ ppid[arg[u]] = self(u)
              /\ pc[u] = "specificWoken" <=> zombie[arg[u]]
            BY <2>1, <3>1 DEF ProcessInv, WaitersCounted
        <3>3. arg[u] # p
            BY <1>4, <2>1, <3>1, <3>2
        <3> QED BY <1>3, <3>1, <3>2, <3>3
    <2> QED BY <1>3, <1>13, <2>1 DEF ProcessInv, WaitersCounted
<1>15. OnlyKernelThreadsRace'
    <2> SUFFICES ASSUME NEW u \in Threads, u \in freed \/ pc'[u] = "lost"
                 PROVE  u \in KThreads
        BY <1>3 DEF OnlyKernelThreadsRace
    <2>1. CASE u \in freed \/ pc[u] = "lost"
        BY <2>1 DEF ProcessInv, OnlyKernelThreadsRace
    <2>2. CASE pc[u] = "specific" /\ arg[u] = p /\ u # t
        <3>1. self(u) = self(t)
            BY <1>4, <2>2 DEF ProcessInv, WaitersCounted
        <3> QED BY <2>2, <3>1, Names
    <2> QED BY <1>6, <2>1, <2>2
<1> QED BY <1>7, <1>10, <1>11, <1>12, <1>14, <1>15 DEF ProcessInv

\* The thread of a new process runs.
LEMMA CreateStartsKeeps ==
    ASSUME ProcessInv, NEW t \in Threads, createStarts(t)
    PROVE  ProcessInv'
<1>1. TypeOK /\ pc \in [Threads -> Places] /\ arg \in [Threads -> Procs]
    BY DEF ProcessInv, TypeOK
<1>2. PICK p : p = arg[t]
    OBVIOUS
<1>3. /\ pc[t] = "creating"
      /\ UNCHANGED <<pidCounter, processes, ppid, childs, zombies, zombie,
                     waitCount, arg, freed>>
    BY DEF createStarts
<1>4. /\ p \in processes /\ p \in Pids /\ p \in Threads /\ p # t
      /\ ppid[p] = self(t) /\ ~zombie[p] /\ pc[p] = "none"
    BY <1>1, <1>2, <1>3, Names DEF ProcessInv, CreatingInv, TypeOK
<1>5. /\ \A u \in Threads : pc'[u] = IF u = t THEN "started"
                                     ELSE IF u = p THEN "run" ELSE pc[u]
      /\ pc' \in [Threads -> Places]
    BY <1>1, <1>2, <1>4 DEF createStarts, Places
<1>6. TypeOK'
    BY <1>1, <1>3, <1>5 DEF TypeOK
<1>7. ParentsInv'
    <2>1. ASSUME NEW q \in processes
          PROVE  ppid[q] # q /\ (ppid[q] = 0 \/ pc'[ppid[q]] # "none")
        <3>1. /\ ppid[q] # q /\ (ppid[q] = 0 \/ pc[ppid[q]] # "none")
              /\ ppid[q] \in Procs
            BY <1>1 DEF ProcessInv, ParentsInv, TypeOK
        <3> QED BY <1>5, <3>1, Names
    <2>2. \A q \in Pids : pc'[q] # "none" => q \in processes /\ ~zombie[q]
        BY <1>3, <1>4, <1>5, Names DEF ProcessInv, ParentsInv
    <2> QED BY <1>3, <2>1, <2>2 DEF ParentsInv
<1>8. ListsInv'
    BY <1>3 DEF ProcessInv, ListsInv
<1>9. CreatingInv'
    <2>1. ASSUME NEW u \in Threads, pc'[u] = "creating"
          PROVE  /\ pc[u] = "creating" /\ u # t
                 /\ arg[u] \in processes /\ ppid[arg[u]] = self(u)
                 /\ ~zombie[arg[u]] /\ pc'[arg[u]] = "none"
        <3>1. pc[u] = "creating" /\ u # t
            BY <1>5, <2>1
        <3>2. /\ arg[u] \in processes /\ ppid[arg[u]] = self(u)
              /\ ~zombie[arg[u]] /\ pc[arg[u]] = "none" /\ arg[u] # p
            BY <1>2, <1>3, <3>1 DEF ProcessInv, CreatingInv
        <3>3. arg[u] \in Threads
            BY <1>1, <3>2, Names DEF TypeOK
        <3> QED BY <1>3, <1>5, <3>1, <3>2, <3>3
    <2>2. ASSUME NEW u \in Pids, pc'[u] = "started"
          PROVE  arg[u] \in processes /\ ppid[arg[u]] = u
        <3>1. CASE u = t
            BY <1>2, <1>4, <3>1, Names
        <3>2. CASE u # t
            <4>1. pc[u] = "started"
                BY <1>5, <2>2, <3>2, Names
            <4> QED BY <4>1 DEF ProcessInv, CreatingInv
        <3> QED BY <3>1, <3>2
    <2> QED BY <1>3, <2>1, <2>2 DEF CreatingInv, ProcessInv
<1>10. \A u \in Threads :
          /\ pc'[u] \in {"specific", "specificWoken"} => pc'[u] = pc[u]
          /\ pc[u] \in {"specific", "specificWoken"} => pc'[u] = pc[u]
    BY <1>3, <1>4, <1>5
<1>11. \A q : Waiting(q)' = Waiting(q)
    BY <1>3, <1>10 DEF Waiting
<1>12. WaitersCounted'
    BY <1>3, <1>10, <1>11 DEF ProcessInv, WaitersCounted
<1>13. OnlyKernelThreadsRace'
    BY <1>3, <1>5 DEF ProcessInv, OnlyKernelThreadsRace
<1> QED BY <1>6, <1>7, <1>8, <1>9, <1>12, <1>13 DEF ProcessInv

\* One more waiter for the living child p.
LEMMA WaitForKeeps ==
    ASSUME ProcessInv, NEW t \in Threads, NEW p \in Pids, pc[t] \in {"run", "started"},
           p \in processes, ppid[p] = self(t), ~zombie[p],
           WaitFor(t, p), freed' = freed
    PROVE  ProcessInv'
<1>1. TypeOK /\ pc \in [Threads -> Places] /\ arg \in [Threads -> Procs]
    BY DEF ProcessInv, TypeOK
<1>2. UNCHANGED <<pidCounter, processes, ppid, childs, zombies, zombie>>
    BY DEF WaitFor
<1>3. /\ \A u \in Threads : pc'[u] = IF u = t THEN "specific" ELSE pc[u]
      /\ \A u \in Threads : arg'[u] = IF u = t THEN p ELSE arg[u]
      /\ pc' \in [Threads -> Places] /\ arg' \in [Threads -> Procs]
      /\ ParentsInv' /\ CreatingInv'
    <2>1. p \in Procs /\ Goto(t, "specific", p)
        BY Names DEF WaitFor
    <2> QED BY <1>2, <2>1, PlacesKept
<1>4. \A q \in Pids : q # p => Waiting(q)' = Waiting(q)
    BY <1>3 DEF Waiting
<1>5. Waiting(p)' = Waiting(p) \cup {t} /\ t \notin Waiting(p)
    BY <1>3 DEF Waiting
<1>6. /\ Cardinality(Waiting(p)') = Cardinality(Waiting(p)) + 1
      /\ Cardinality(Waiting(p)') \in 0 .. Cardinality(Threads)
    <2>1. IsFiniteSet(Waiting(p))
        BY WaitingFinite
    <2>2. Cardinality(Waiting(p) \cup {t}) = Cardinality(Waiting(p)) + 1
        BY <1>5, <2>1, FS_AddElement
    <2>3. Waiting(p)' \in SUBSET Threads
        BY DEF Waiting
    <2>4. /\ IsFiniteSet(Waiting(p)') /\ Cardinality(Waiting(p)') <= Cardinality(Threads)
          /\ Cardinality(Waiting(p)') \in Nat
        BY <2>3, ThreadsFinite, FS_Subset, FS_CardinalityType
    <2> QED BY <1>5, <2>2, <2>4, ThreadsFinite
<1>7. waitCount[p] = Cardinality(Waiting(p))
    BY DEF ProcessInv, WaitersCounted
<1>8. /\ waitCount'[p] = Cardinality(Waiting(p)') /\ waitCount'[p] # 0
      /\ \A q \in Pids : q # p => waitCount'[q] = waitCount[q]
      /\ waitCount' \in [Pids -> 0 .. Cardinality(Threads)]
    <2>1. waitCount \in [Pids -> 0 .. Cardinality(Threads)]
        BY <1>1 DEF TypeOK
    <2>2. waitCount' = [waitCount EXCEPT ![p] = waitCount[p] + 1]
        BY DEF WaitFor
    <2>3. waitCount[p] + 1 = Cardinality(Waiting(p)')
        BY <1>6, <1>7
    <2>4. waitCount[p] + 1 \in 0 .. Cardinality(Threads)
        BY <1>6, <2>3
    <2>5. waitCount[p] + 1 # 0
        BY <2>1, ThreadsFinite
    <2> QED BY <2>1, <2>2, <2>3, <2>4, <2>5
<1>9. TypeOK'
    BY <1>1, <1>2, <1>3, <1>8 DEF TypeOK
<1>10. ListsInv'
    <2> SUFFICES ASSUME NEW q \in Procs, NEW r \in Pids
                 PROVE  /\ Once(zombies'[q])
                        /\ r \in childs'[q] <=> (r \in processes' /\ ppid'[r] = q /\ ~zombie'[r])
                        /\ r \in Elements(zombies'[q]) <=>
                           (r \in processes' /\ ppid'[r] = q /\ zombie'[r] /\ waitCount'[r] = 0)
        BY DEF ListsInv
    <2>1. /\ Once(zombies[q])
          /\ r \in childs[q] <=> (r \in processes /\ ppid[r] = q /\ ~zombie[r])
          /\ r \in Elements(zombies[q]) <=>
               (r \in processes /\ ppid[r] = q /\ zombie[r] /\ waitCount[r] = 0)
        BY DEF ProcessInv, ListsInv
    <2>2. /\ zombies' = zombies /\ ppid' = ppid /\ zombie' = zombie
          /\ childs' = childs /\ processes' = processes
        BY <1>2
    <2> QED BY <1>8, <2>1, <2>2
<1>11. WaitersCounted'
    <2>1. ASSUME NEW u \in Threads, pc'[u] \in {"specific", "specificWoken"}
          PROVE  /\ arg'[u] \in processes' /\ ppid'[arg'[u]] = self(u)
                 /\ pc'[u] = "specificWoken" <=> zombie'[arg'[u]]
        <3>1. CASE u = t
            BY <1>2, <1>3, <3>1
        <3>2. CASE u # t
            BY <1>2, <1>3, <2>1, <3>2 DEF ProcessInv, WaitersCounted
        <3> QED BY <3>1, <3>2
    <2>2. ASSUME NEW q \in processes' PROVE waitCount'[q] = Cardinality(Waiting(q)')
        <3>1. q \in processes /\ q \in Pids
            BY <1>1, <1>2 DEF TypeOK
        <3>2. CASE q = p
            BY <1>8, <3>2
        <3>3. CASE q # p
            BY <1>4, <1>8, <3>1, <3>3 DEF ProcessInv, WaitersCounted
        <3> QED BY <3>2, <3>3
    <2> QED BY <2>1, <2>2 DEF WaitersCounted
<1>12. OnlyKernelThreadsRace'
    BY <1>3 DEF ProcessInv, OnlyKernelThreadsRace
<1> QED BY <1>3, <1>9, <1>10, <1>11, <1>12 DEF ProcessInv

\* A waiter woken by the end of the process p, but not the last one.
LEMMA LeaveKeeps ==
    ASSUME ProcessInv, NEW t \in Threads, NEW p \in Pids,
           pc[t] = "specificWoken", arg[t] = p, waitCount[p] - 1 # 0,
           waitCount' = [waitCount EXCEPT ![p] = waitCount[p] - 1],
           Return(t),
           UNCHANGED <<pidCounter, processes, ppid, childs, zombies, zombie, freed>>
    PROVE  ProcessInv'
<1>1. TypeOK /\ pc \in [Threads -> Places] /\ arg \in [Threads -> Procs]
    BY DEF ProcessInv, TypeOK
<1>2. p \in processes /\ ppid[p] = self(t) /\ zombie[p]
    BY DEF ProcessInv, WaitersCounted
<1>3. /\ \A u \in Threads : pc'[u] = IF u = t THEN "run" ELSE pc[u]
      /\ \A u \in Threads : arg'[u] = IF u = t THEN 0 ELSE arg[u]
      /\ pc' \in [Threads -> Places] /\ arg' \in [Threads -> Procs]
      /\ ParentsInv' /\ CreatingInv'
    <2>1. 0 \in Procs /\ Goto(t, "run", 0)
        BY Names DEF Return
    <2> QED BY <2>1, PlacesKept
<1>4. \A q \in Pids : q # p => Waiting(q)' = Waiting(q)
    BY <1>3 DEF Waiting
<1>5. Waiting(p)' = Waiting(p) \ {t} /\ t \in Waiting(p)
    BY <1>3 DEF Waiting
<1>6. /\ Cardinality(Waiting(p)') = Cardinality(Waiting(p)) - 1
      /\ Cardinality(Waiting(p)') \in 0 .. Cardinality(Threads)
    <2>1. IsFiniteSet(Waiting(p))
        BY WaitingFinite
    <2>2. Cardinality(Waiting(p) \ {t}) = Cardinality(Waiting(p)) - 1
        BY <1>5, <2>1, FS_RemoveElement
    <2>3. Waiting(p)' \in SUBSET Threads
        BY DEF Waiting
    <2>4. /\ IsFiniteSet(Waiting(p)') /\ Cardinality(Waiting(p)') <= Cardinality(Threads)
          /\ Cardinality(Waiting(p)') \in Nat
        BY <2>3, ThreadsFinite, FS_Subset, FS_CardinalityType
    <2> QED BY <1>5, <2>2, <2>4, ThreadsFinite
<1>7. waitCount[p] = Cardinality(Waiting(p))
    BY <1>2 DEF ProcessInv, WaitersCounted
<1>8. /\ waitCount'[p] = Cardinality(Waiting(p)') /\ waitCount'[p] # 0
      /\ \A q \in Pids : q # p => waitCount'[q] = waitCount[q]
      /\ waitCount' \in [Pids -> 0 .. Cardinality(Threads)]
    <2>1. waitCount \in [Pids -> 0 .. Cardinality(Threads)]
        BY <1>1 DEF TypeOK
    <2>3. waitCount[p] - 1 = Cardinality(Waiting(p)')
        BY <1>6, <1>7
    <2>4. waitCount[p] - 1 \in 0 .. Cardinality(Threads)
        BY <1>6, <2>3
    <2> QED BY <2>1, <2>3, <2>4
<1>9. waitCount[p] # 0
    <2>1. Waiting(p) # {} /\ IsFiniteSet(Waiting(p))
        BY <1>5, WaitingFinite
    <2> QED BY <1>7, <2>1, FS_EmptySet
<1>10. TypeOK'
    BY <1>1, <1>3, <1>8 DEF TypeOK
<1>11. ListsInv'
    <2> SUFFICES ASSUME NEW q \in Procs, NEW r \in Pids
                 PROVE  /\ Once(zombies'[q])
                        /\ r \in childs'[q] <=> (r \in processes' /\ ppid'[r] = q /\ ~zombie'[r])
                        /\ r \in Elements(zombies'[q]) <=>
                           (r \in processes' /\ ppid'[r] = q /\ zombie'[r] /\ waitCount'[r] = 0)
        BY DEF ListsInv
    <2>1. /\ Once(zombies[q])
          /\ r \in childs[q] <=> (r \in processes /\ ppid[r] = q /\ ~zombie[r])
          /\ r \in Elements(zombies[q]) <=>
               (r \in processes /\ ppid[r] = q /\ zombie[r] /\ waitCount[r] = 0)
        BY DEF ProcessInv, ListsInv
    <2>2. /\ zombies' = zombies /\ ppid' = ppid /\ zombie' = zombie
          /\ childs' = childs /\ processes' = processes
        OBVIOUS
    <2>3. waitCount'[r] = 0 <=> waitCount[r] = 0
        BY <1>8, <1>9
    <2> QED BY <2>1, <2>2, <2>3
<1>12. WaitersCounted'
    <2>1. ASSUME NEW u \in Threads, pc'[u] \in {"specific", "specificWoken"}
          PROVE  pc'[u] = pc[u] /\ arg'[u] = arg[u]
        BY <1>3, <2>1
    <2>2. ASSUME NEW q \in processes PROVE waitCount'[q] = Cardinality(Waiting(q)')
        <3>1. q \in Pids
            BY <1>1 DEF TypeOK
        <3>2. CASE q = p
            BY <1>8, <3>2
        <3>3. CASE q # p
            BY <1>4, <1>8, <3>1, <3>3 DEF ProcessInv, WaitersCounted
        <3> QED BY <3>2, <3>3
    <2> QED BY <2>1, <2>2 DEF ProcessInv, WaitersCounted
<1>13. OnlyKernelThreadsRace'
    BY <1>3 DEF ProcessInv, OnlyKernelThreadsRace
<1> QED BY <1>3, <1>10, <1>11, <1>12, <1>13 DEF ProcessInv

\* t takes the dead process p: nobody else waits for it.
LEMMA ReapKeeps ==
    ASSUME ProcessInv, NEW t \in Threads, NEW p \in Pids, NEW list \in Seq(Pids),
           pc[t] \in {"run", "started", "genericWoken", "specificWoken"},
           pc[t] = "specificWoken" => arg[t] = p,
           p \in processes, ppid[p] = self(t), zombie[p],
           \A u \in Threads : u \in Waiting(p) => u = t,
           Once(list), Elements(list) = Elements(zombies[self(t)]) \ {p},
           Reap(t, p, list), Return(t),
           waitCount' \in [Pids -> 0 .. Cardinality(Threads)],
           \A q \in Pids : q # p => waitCount'[q] = waitCount[q],
           UNCHANGED <<pidCounter, ppid, childs, zombie>>
    PROVE  ProcessInv'
<1>1. TypeOK /\ pc \in [Threads -> Places] /\ arg \in [Threads -> Procs]
    BY DEF ProcessInv, TypeOK
<1>2. /\ processes' = processes \ {p}
      /\ freed' = freed \cup {u \in Threads \ {t} : pc[u] = "started" /\ arg[u] = p}
    BY DEF Reap
<1>3. /\ \A q \in Procs : zombies'[q] = IF q = self(t) THEN list ELSE zombies[q]
      /\ zombies' \in [Procs -> Seq(Pids)]
    BY <1>1, Names DEF Reap, TypeOK
<1>4. /\ \A u \in Threads : pc'[u] = IF u = t THEN "run" ELSE pc[u]
      /\ \A u \in Threads : arg'[u] = IF u = t THEN 0 ELSE arg[u]
      /\ pc' \in [Threads -> Places] /\ arg' \in [Threads -> Procs]
    BY <1>1, Names DEF Return, Goto, Places
<1>5. \A u \in Pids : u # t /\ pc[u] = "started" => arg[u] # p
    BY Names DEF ProcessInv, CreatingInv
<1>6. TypeOK'
    BY <1>1, <1>2, <1>3, <1>4 DEF TypeOK
<1>7. ParentsInv'
    <2>1. pc[p] = "none" /\ p # t /\ p # 0
        BY Names DEF ProcessInv, ParentsInv
    <2>2. \A u \in Threads : pc'[u] = "none" <=> pc[u] = "none"
        BY <1>4
    <2>3. ASSUME NEW q \in processes'
          PROVE  ppid[q] # q /\ (ppid[q] = 0 \/ pc'[ppid[q]] # "none")
        <3>1. /\ ppid[q] # q /\ (ppid[q] = 0 \/ pc[ppid[q]] # "none")
              /\ ppid[q] \in Procs
            BY <1>1, <1>2 DEF ProcessInv, ParentsInv, TypeOK
        <3> QED BY <2>2, <3>1, Names
    <2>4. \A q \in Pids : pc'[q] # "none" => q \in processes' /\ ~zombie[q]
        BY <1>2, <2>1, <2>2, Names DEF ProcessInv, ParentsInv
    <2> QED BY <2>3, <2>4 DEF ParentsInv
<1>8. ListsInv'
    <2> SUFFICES ASSUME NEW q \in Procs, NEW r \in Pids
                 PROVE  /\ Once(zombies'[q])
                        /\ r \in childs'[q] <=> (r \in processes' /\ ppid'[r] = q /\ ~zombie'[r])
                        /\ r \in Elements(zombies'[q]) <=>
                           (r \in processes' /\ ppid'[r] = q /\ zombie'[r] /\ waitCount'[r] = 0)
        BY DEF ListsInv
    <2>1. /\ Once(zombies[q])
          /\ r \in childs[q] <=> (r \in processes /\ ppid[r] = q /\ ~zombie[r])
          /\ r \in Elements(zombies[q]) <=>
               (r \in processes /\ ppid[r] = q /\ zombie[r] /\ waitCount[r] = 0)
        BY DEF ProcessInv, ListsInv
    <2>2. ppid' = ppid /\ zombie' = zombie /\ childs' = childs
        OBVIOUS
    <2>3. r \in processes' <=> r \in processes /\ r # p
        BY <1>2
    <2>4. /\ Once(zombies'[q])
          /\ r \in Elements(zombies'[q]) <=>
               r \in Elements(zombies[q]) /\ ~(r = p /\ q = self(t))
        <3>1. CASE q = self(t)
            BY <1>3, <3>1
        <3>2. CASE q # self(t)
            BY <1>3, <2>1, <3>2
        <3> QED BY <3>1, <3>2
    <2>5. CASE r = p
        BY <2>1, <2>2, <2>3, <2>4, <2>5
    <2>6. CASE r # p
        <3>1. waitCount'[r] = waitCount[r]
            BY <2>6
        <3> QED BY <2>1, <2>2, <2>3, <2>4, <2>6, <3>1
    <2> QED BY <2>5, <2>6
<1>9. CreatingInv'
    <2>1. ASSUME NEW u \in Threads, pc'[u] = "creating"
          PROVE  /\ pc[u] = "creating" /\ arg'[u] = arg[u]
                 /\ arg[u] \in processes' /\ ppid[arg[u]] = self(u)
                 /\ ~zombie[arg[u]] /\ pc'[arg[u]] = "none"
        <3>1. pc[u] = "creating" /\ arg'[u] = arg[u]
            BY <1>4, <2>1
        <3>2. /\ arg[u] \in processes /\ ppid[arg[u]] = self(u)
              /\ ~zombie[arg[u]] /\ pc[arg[u]] = "none" /\ arg[u] # p
            BY <3>1 DEF ProcessInv, CreatingInv
        <3>3. arg[u] \in Threads
            BY <1>1, <3>2, Names DEF TypeOK
        <3> QED BY <1>2, <1>4, <3>1, <3>2, <3>3
    <2>2. ASSUME NEW u \in Pids, pc'[u] = "started"
          PROVE  arg'[u] \in processes' /\ ppid[arg'[u]] = u
        <3>1. pc[u] = "started" /\ arg'[u] = arg[u] /\ u # t
            BY <1>4, <2>2, Names
        <3>2. arg[u] \in processes /\ ppid[arg[u]] = u
            BY <3>1 DEF ProcessInv, CreatingInv
        <3> QED BY <1>2, <1>5, <3>1, <3>2
    <2> QED BY <2>1, <2>2 DEF CreatingInv, ProcessInv
<1>10. \A q \in processes' : Waiting(q)' = Waiting(q)
    <2> TAKE q \in processes'
    <2>1. q # p
        BY <1>2
    <2> QED BY <1>4, <2>1 DEF Waiting
<1>11. WaitersCounted'
    <2>1. ASSUME NEW u \in Threads, pc'[u] \in {"specific", "specificWoken"}
          PROVE  /\ arg'[u] \in processes' /\ ppid[arg'[u]] = self(u)
                 /\ pc'[u] = "specificWoken" <=> zombie[arg'[u]]
        <3>1. pc'[u] = pc[u] /\ arg'[u] = arg[u] /\ u # t
            BY <1>4, <2>1
        <3>2. /\ arg[u] \in processes /\ ppid[arg[u]] = self(u)
              /\ pc[u] = "specificWoken" <=> zombie[arg[u]]
            BY <2>1, <3>1 DEF ProcessInv, WaitersCounted
        <3>3. arg[u] # p
            BY <2>1, <3>1 DEF Waiting
        <3> QED BY <1>2, <3>1, <3>2, <3>3
    <2>2. ASSUME NEW q \in processes' PROVE waitCount'[q] = Cardinality(Waiting(q)')
        <3>1. q \in processes /\ q # p /\ q \in Pids
            BY <1>1, <1>2 DEF TypeOK
        <3> QED BY <1>10, <3>1 DEF ProcessInv, WaitersCounted
    <2> QED BY <2>1, <2>2 DEF WaitersCounted
<1>12. OnlyKernelThreadsRace'
    <2> SUFFICES ASSUME NEW u \in Threads, u \in freed' \/ pc'[u] = "lost"
                 PROVE  u \in KThreads
        BY DEF OnlyKernelThreadsRace
    <2>1. CASE u \in freed \/ pc[u] = "lost"
        BY <2>1 DEF ProcessInv, OnlyKernelThreadsRace
    <2>2. CASE u # t /\ pc[u] = "started" /\ arg[u] = p
        BY <1>5, <2>2 DEF Threads
    <2> QED BY <1>2, <1>4, <2>1, <2>2
<1> QED BY <1>6, <1>7, <1>8, <1>9, <1>11, <1>12 DEF ProcessInv

\* The part of waitpid(p) after the wait, for the last waiter and the others.
LEMMA FinishKeeps ==
    ASSUME ProcessInv, NEW t \in Threads, NEW p \in Pids,
           p \in processes, ppid[p] = self(t), zombie[p],
           pc[t] \in {"run", "started"} \/ (pc[t] = "specificWoken" /\ arg[t] = p),
           FinishWaitpid(t, p)
    PROVE  ProcessInv'
<1>1. /\ waitCount \in [Pids -> 0 .. Cardinality(Threads)]
      /\ zombies[self(t)] \in Seq(Pids)
    BY Names DEF ProcessInv, TypeOK
<1>2. waitCount[p] = Cardinality(Waiting(p)) /\ IsFiniteSet(Waiting(p))
    BY WaitingFinite DEF ProcessInv, WaitersCounted
<1>3. PICK left : left = IF pc[t] = "specificWoken" THEN waitCount[p] - 1 ELSE waitCount[p]
    OBVIOUS
<1>4. /\ waitCount' = [waitCount EXCEPT ![p] = left]
      /\ \/ left = 0 /\ Reap(t, p, Without(zombies[self(t)], p))
         \/ left # 0 /\ UNCHANGED <<zombies, processes, freed>>
      /\ Return(t)
      /\ UNCHANGED <<pidCounter, ppid, childs, zombie>>
    BY <1>3 DEF FinishWaitpid
<1>5. CASE left # 0
    <2>1. UNCHANGED <<pidCounter, processes, ppid, childs, zombies, zombie, freed>>
        BY <1>4, <1>5
    <2>2. CASE pc[t] = "specificWoken"
        <3>1. waitCount[p] - 1 # 0 /\ waitCount' = [waitCount EXCEPT ![p] = waitCount[p] - 1]
            BY <1>3, <1>4, <1>5, <2>2
        <3> QED BY <1>4, <2>1, <2>2, <3>1, LeaveKeeps
    <2>3. CASE pc[t] # "specificWoken"
        <3>1. waitCount' = waitCount
            BY <1>1, <1>3, <1>4, <2>3
        <3>2. Goto(t, "run", 0)
            BY <1>4 DEF Return
        <3>3. pc[t] \notin {"none", "specific", "specificWoken"}
            BY <2>3
        <3> QED BY <2>1, <3>1, <3>2, <3>3, MoveKeeps
    <2> QED BY <2>2, <2>3
<1>6. CASE left = 0
    <2>1. \A u \in Threads : u \in Waiting(p) => u = t
        <3>1. CASE pc[t] = "specificWoken"
            <4>1. t \in Waiting(p)
                BY <3>1 DEF Waiting
            <4>2. waitCount[p] = 1
                <5>1. waitCount[p] \in Int
                    BY <1>1
                <5> QED BY <1>3, <1>6, <3>1, <5>1
            <4>3. \E x : Waiting(p) = {x}
                BY <1>2, <4>2, FS_Singleton
            <4> QED BY <4>1, <4>3
        <3>2. CASE pc[t] # "specificWoken"
            <4>1. waitCount[p] = 0
                BY <1>3, <1>6, <3>2
            <4> QED BY <1>2, <4>1, FS_EmptySet
        <3> QED BY <3>1, <3>2
    <2>2. PICK list : list = Without(zombies[self(t)], p)
        OBVIOUS
    <2>3. Once(zombies[self(t)])
        BY Names DEF ProcessInv, ListsInv
    <2>4. list \in Seq(Pids) /\ Once(list) /\ Elements(list) = Elements(zombies[self(t)]) \ {p}
        BY <1>1, <2>2, <2>3, Removed
    <2>5. /\ waitCount' \in [Pids -> 0 .. Cardinality(Threads)]
          /\ \A q \in Pids : q # p => waitCount'[q] = waitCount[q]
        BY <1>1, <1>4, <1>6, ThreadsFinite
    <2>6. Reap(t, p, list)
        BY <1>4, <1>6, <2>2
    <2> QED BY <1>4, <2>1, <2>4, <2>5, <2>6, ReapKeeps
<1> QED BY <1>5, <1>6

LEMMA WaitpidKeeps ==
    ASSUME ProcessInv, NEW t \in Threads, NEW p \in Procs, pc[t] \in {"run", "started"},
           Waitpid(t, p)
    PROVE  ProcessInv'
<1>1. p \in processes /\ ppid[p] = self(t) /\ p \in Pids
    BY DEF Waitpid, ProcessInv, TypeOK
<1>2. CASE ~zombie[p] /\ WaitFor(t, p) /\ freed' = freed
    BY <1>1, <1>2, WaitForKeeps
<1>3. CASE zombie[p] /\ FinishWaitpid(t, p)
    BY <1>1, <1>3, FinishKeeps
<1> QED BY <1>2, <1>3 DEF Waitpid

\* waitpid(-1): a process in the list of zombies has no waiters of its own.
LEMMA GenericKeeps ==
    ASSUME ProcessInv, NEW t \in Threads, waitpidGeneric(t)
    PROVE  ProcessInv'
<1>1. PICK dead : dead = zombies[self(t)]
    OBVIOUS
<1>2. /\ pc[t] \in {"run", "genericWoken"}
      /\ \/ dead # <<>> /\ Reap(t, Head(dead), Tail(dead)) /\ Return(t)
         \/ /\ Goto(t, "generic", 0) \/ Return(t)
            /\ UNCHANGED <<zombies, processes, freed>>
      /\ UNCHANGED <<pidCounter, ppid, childs, zombie, waitCount>>
    BY <1>1 DEF waitpidGeneric, Ready
<1>3. CASE dead # <<>> /\ Reap(t, Head(dead), Tail(dead)) /\ Return(t)
    <2>1. /\ dead \in Seq(Pids) /\ Once(dead)
          /\ waitCount \in [Pids -> 0 .. Cardinality(Threads)]
        BY <1>1, Names DEF ProcessInv, TypeOK, ListsInv
    <2>2. PICK p, list : p = Head(dead) /\ list = Tail(dead)
        OBVIOUS
    <2>3. /\ list \in Seq(Pids) /\ Once(list) /\ p \in Elements(dead)
          /\ Elements(list) = Elements(zombies[self(t)]) \ {p}
        BY <1>1, <1>3, <2>1, <2>2, Taken
    <2>4. p \in Pids
        BY <1>3, <2>1, <2>2, HeadTailProperties
    <2>5. /\ p \in processes /\ ppid[p] = self(t) /\ zombie[p] /\ waitCount[p] = 0
        BY <1>1, <2>3, <2>4, Names DEF ProcessInv, ListsInv
    <2>6. \A u \in Threads : u \in Waiting(p) => u = t
        <3>1. Cardinality(Waiting(p)) = 0 /\ IsFiniteSet(Waiting(p))
            BY <2>5, WaitingFinite DEF ProcessInv, WaitersCounted
        <3> QED BY <3>1, FS_EmptySet
    <2>7. Reap(t, p, list) /\ Return(t)
        BY <1>3, <2>2
    <2>8. /\ waitCount' \in [Pids -> 0 .. Cardinality(Threads)]
          /\ \A q \in Pids : q # p => waitCount'[q] = waitCount[q]
        BY <1>2, <2>1
    <2> QED BY <1>2, <2>3, <2>4, <2>5, <2>6, <2>7, <2>8, ReapKeeps
<1>4. CASE /\ Goto(t, "generic", 0) \/ Return(t)
           /\ UNCHANGED <<zombies, processes, freed>>
    <2>1. pc[t] \notin {"none", "specific", "specificWoken"}
        BY <1>2
    <2>2. CASE Goto(t, "generic", 0)
        BY <1>2, <1>4, <2>1, <2>2, MoveKeeps
    <2>3. CASE Goto(t, "run", 0)
        BY <1>2, <1>4, <2>1, <2>3, MoveKeeps
    <2> QED BY <1>4, <2>2, <2>3 DEF Return
<1> QED BY <1>2, <1>3, <1>4

-----------------------------------------------------------------------------
(* The end of a process *)

\* The children that start() gives to the kernel are all there are: a dead
\* child that somebody waits for would need its parent's only thread.
LEMMA Orphans ==
    ASSUME ProcessInv, NEW p \in Pids, pc[p] = "run", NEW q \in Pids
    PROVE  q \in childs[p] \cup Elements(zombies[p]) <=> q \in processes /\ ppid[q] = p
<1>1. /\ q \in childs[p] <=> (q \in processes /\ ppid[q] = p /\ ~zombie[q])
      /\ q \in Elements(zombies[p]) <=>
           (q \in processes /\ ppid[q] = p /\ zombie[q] /\ waitCount[q] = 0)
    BY Names DEF ProcessInv, ListsInv
<1>2. ASSUME q \in processes, ppid[q] = p PROVE waitCount[q] = 0
    <2>1. ASSUME NEW u \in Waiting(q) PROVE FALSE
        <3>1. /\ u \in Threads /\ arg[u] = q
              /\ pc[u] \in {"specific", "specificWoken"}
            BY DEF Waiting
        <3>2. self(u) = p
            BY <1>2, <3>1 DEF ProcessInv, WaitersCounted
        <3>3. u = p
            BY <3>1, <3>2, Names
        <3> QED BY <3>1, <3>3
    <2>2. Waiting(q) = {}
        BY <2>1
    <2>3. Cardinality(Waiting(q)) = 0
        BY <2>2, FS_EmptySet
    <2> QED BY <1>2, <2>3 DEF ProcessInv, WaitersCounted
<1> QED BY <1>1, <1>2

LEMMA StartKeeps ==
    ASSUME ProcessInv, NEW p \in Pids, start(p)
    PROVE  ProcessInv'
<1>1. /\ TypeOK /\ pc \in [Threads -> Places] /\ arg \in [Threads -> Procs]
      /\ zombies \in [Procs -> Seq(Pids)]
    BY DEF ProcessInv, TypeOK
<1>2. /\ pc[p] = "run" /\ UNCHANGED <<pidCounter, processes, waitCount, arg, freed>>
    BY DEF start
<1>3. /\ p \in processes /\ ~zombie[p] /\ p \in Threads /\ p \in Procs /\ p # 0
      /\ ppid[p] # p /\ ppid[p] \in Procs
    BY <1>1, <1>2, Names DEF ProcessInv, ParentsInv, TypeOK
<1>4. PICK parent \in Procs : parent = ppid[p] /\ parent # p
    BY <1>3
<1> DEFINE direct == waitCount[p] > 0
<1>5. waitCount[p] \in Nat /\ (direct <=> waitCount[p] # 0)
    <2>1. waitCount[p] \in 0 .. Cardinality(Threads)
        BY <1>1 DEF TypeOK
    <2>2. waitCount[p] \in Nat
        BY <2>1, ThreadsFinite
    <2> QED BY <2>2
<1> HIDE DEF direct
<1>6. PICK adopted : adopted = [zombies EXCEPT ![0] = zombies[p] \o @, ![p] = <<>>]
    OBVIOUS
<1>7. /\ \A q \in Pids : zombie'[q] = IF q = p THEN TRUE ELSE zombie[q]
      /\ zombie' \in [Pids -> BOOLEAN]
    BY <1>1 DEF start, TypeOK
<1>8. /\ \A q \in processes : ppid'[q] = IF ppid[q] = p THEN 0 ELSE ppid[q]
      /\ ppid' \in [Pids -> Procs]
    <2>1. ppid' = [q \in Pids |-> IF q \in childs[p] \cup Elements(zombies[p])
                                  THEN 0 ELSE ppid[q]]
        BY DEF start, Elements
    <2>2. ppid' \in [Pids -> Procs]
        BY <1>1, <2>1, Names DEF TypeOK
    <2>3. ASSUME NEW q \in processes PROVE ppid'[q] = IF ppid[q] = p THEN 0 ELSE ppid[q]
        <3>1. q \in Pids
            BY <1>1 DEF TypeOK
        <3>2. q \in childs[p] \cup Elements(zombies[p]) <=> ppid[q] = p
            BY <1>2, <3>1, Orphans
        <3> QED BY <2>1, <3>1, <3>2
    <2> QED BY <2>2, <2>3
<1>9. /\ \A q \in Procs : childs'[q] = ((IF q = 0 THEN childs[0] \cup childs[p]
                                         ELSE IF q = p THEN {} ELSE childs[q])
                                        \ (IF q = parent THEN {p} ELSE {}))
      /\ childs' \in [Procs -> SUBSET Pids]
    <2>1. childs' = [q \in Procs |-> ((IF q = 0 THEN childs[0] \cup childs[p]
                                       ELSE IF q = p THEN {} ELSE childs[q])
                                      \ (IF q = parent THEN {p} ELSE {}))]
        BY <1>4 DEF start
    <2>2. \A q \in Procs : childs[q] \in SUBSET Pids
        BY <1>1 DEF TypeOK
    <2> QED BY <1>3, <2>1, <2>2, Names
<1>10. /\ \A u \in Threads :
             pc'[u] = IF pc[u] = "generic" /\ ~direct THEN "genericWoken"
                      ELSE IF pc[u] = "specific" /\ arg[u] = p THEN "specificWoken"
                      ELSE IF u = p THEN "none" ELSE pc[u]
       /\ pc' \in [Threads -> Places]
    <2>1. pc' = Broadcast(p, ~direct)
        BY DEF start, direct
    <2>2. ASSUME NEW u \in Threads
          PROVE  pc'[u] = IF pc[u] = "generic" /\ ~direct THEN "genericWoken"
                          ELSE IF pc[u] = "specific" /\ arg[u] = p THEN "specificWoken"
                          ELSE IF u = p THEN "none" ELSE pc[u]
        BY <1>2, <2>1 DEF Broadcast
    <2>3. pc' = [u \in Threads |-> pc'[u]]
        BY <2>1 DEF Broadcast
    <2>4. \A u \in Threads : pc'[u] \in Places
        BY <1>1, <2>2 DEF Places
    <2> QED BY <2>2, <2>3, <2>4
<1>11. /\ \A u \in Threads : u # p => (pc'[u] = "none" <=> pc[u] = "none")
       /\ pc'[p] = "none"
    BY <1>2, <1>3, <1>10
<1>12. \A u \in Threads :
          /\ pc[u] \in {"creating", "started", "lost"} => pc'[u] = pc[u]
          /\ pc'[u] \in {"creating", "started", "lost"} => pc'[u] = pc[u]
    BY <1>2, <1>10
<1>13. ParentsInv'
    <2>1. ASSUME NEW q \in processes
          PROVE  ppid'[q] # q /\ (ppid'[q] = 0 \/ pc'[ppid'[q]] # "none")
        <3>1. /\ ppid[q] # q /\ (ppid[q] = 0 \/ pc[ppid[q]] # "none")
              /\ ppid[q] \in Procs /\ q \in Pids
            BY <1>1 DEF ProcessInv, ParentsInv, TypeOK
        <3>2. CASE ppid[q] = p
            BY <1>8, <3>1, <3>2, Names
        <3>3. CASE ppid[q] # p
            BY <1>8, <1>11, <3>1, <3>3, Names
        <3> QED BY <3>2, <3>3
    <2>2. ASSUME NEW q \in Pids, pc'[q] # "none" PROVE q \in processes /\ ~zombie'[q]
        <3>1. q # p /\ pc[q] # "none"
            BY <1>11, <2>2, Names
        <3> QED BY <1>7, <3>1 DEF ProcessInv, ParentsInv
    <2> QED BY <1>2, <2>1, <2>2 DEF ParentsInv
<1>14. CreatingInv'
    <2>1. ASSUME NEW u \in Threads, pc'[u] = "creating"
          PROVE  /\ pc[u] = "creating"
                 /\ arg[u] \in processes /\ ppid'[arg[u]] = self(u)
                 /\ ~zombie'[arg[u]] /\ pc'[arg[u]] = "none"
        <3>1. pc[u] = "creating" /\ u # p
            BY <1>2, <1>12, <2>1
        <3>2. /\ arg[u] \in processes /\ ppid[arg[u]] = self(u)
              /\ ~zombie[arg[u]] /\ pc[arg[u]] = "none" /\ arg[u] # p
            BY <1>2, <3>1 DEF ProcessInv, CreatingInv
        <3>3. arg[u] \in Threads /\ arg[u] \in Pids
            BY <1>1, <3>2, Names DEF TypeOK
        <3>4. self(u) # p
            BY <3>1, Names
        <3> QED BY <1>7, <1>8, <1>11, <3>1, <3>2, <3>3, <3>4
    <2>2. ASSUME NEW u \in Pids, pc'[u] = "started"
          PROVE  arg[u] \in processes /\ ppid'[arg[u]] = u
        <3>1. pc[u] = "started" /\ u # p
            BY <1>2, <1>12, <2>2, Names
        <3>2. arg[u] \in processes /\ ppid[arg[u]] = u
            BY <3>1 DEF ProcessInv, CreatingInv
        <3> QED BY <1>8, <3>1, <3>2
    <2> QED BY <1>2, <2>1, <2>2 DEF CreatingInv, ProcessInv
<1>15. \A q : Waiting(q)' = Waiting(q)
    BY <1>2, <1>10 DEF Waiting
<1>16. WaitersCounted'
    <2>1. ASSUME NEW u \in Threads, pc'[u] \in {"specific", "specificWoken"}
          PROVE  /\ arg[u] \in processes /\ ppid'[arg[u]] = self(u)
                 /\ pc'[u] = "specificWoken" <=> zombie'[arg[u]]
        <3>1. /\ pc[u] \in {"specific", "specificWoken"} /\ u # p
              /\ arg[u] # p => pc'[u] = pc[u]
              /\ arg[u] = p => pc'[u] = "specificWoken"
            BY <1>2, <1>10, <2>1
        <3>2. /\ arg[u] \in processes /\ ppid[arg[u]] = self(u)
              /\ pc[u] = "specificWoken" <=> zombie[arg[u]]
            BY <3>1 DEF ProcessInv, WaitersCounted
        <3>3. self(u) # p /\ arg[u] \in Pids
            BY <1>1, <3>1, <3>2, Names DEF TypeOK
        <3>4. ppid'[arg[u]] = self(u)
            BY <1>8, <3>2, <3>3
        <3>5. CASE arg[u] = p
            BY <1>7, <3>1, <3>2, <3>4, <3>5
        <3>6. CASE arg[u] # p
            BY <1>7, <3>1, <3>2, <3>3, <3>4, <3>6
        <3> QED BY <3>5, <3>6
    <2> QED BY <1>2, <1>15, <2>1 DEF ProcessInv, WaitersCounted
<1>17. OnlyKernelThreadsRace'
    BY <1>2, <1>12 DEF ProcessInv, OnlyKernelThreadsRace
<1>18. ASSUME NEW q \in Procs
       PROVE  /\ adopted[q] \in Seq(Pids) /\ Once(adopted[q])
              /\ \A r \in Pids : r \in Elements(adopted[q]) <=>
                   (r \in processes /\ ppid'[r] = q /\ zombie[r] /\ waitCount[r] = 0)
    <2>1. \A c \in Procs :
             /\ zombies[c] \in Seq(Pids) /\ Once(zombies[c])
             /\ \A r \in Pids : r \in Elements(zombies[c]) <=>
                  (r \in processes /\ ppid[r] = c /\ zombie[r] /\ waitCount[r] = 0)
        BY <1>1 DEF ProcessInv, ListsInv
    <2>2. /\ adopted[0] = zombies[p] \o zombies[0] /\ adopted[p] = <<>>
          /\ q # 0 /\ q # p => adopted[q] = zombies[q]
        BY <1>1, <1>3, <1>6, Names
    <2>3. CASE q = 0
        <3>1. \A x \in Elements(zombies[p]) : x \notin Elements(zombies[0])
            <4>1. \A x \in Elements(zombies[p]) : x \in Pids
                <5>1. \A k \in DOMAIN zombies[p] : zombies[p][k] \in Pids
                    BY <1>3, <2>1, ElementOfSeq, LenProperties
                <5> QED BY <5>1 DEF Elements
            <4> QED BY <1>3, <2>1, <4>1, Names
        <3>2. /\ adopted[0] \in Seq(Pids) /\ Once(adopted[0])
              /\ Elements(adopted[0]) = Elements(zombies[p]) \cup Elements(zombies[0])
            BY <1>3, <2>1, <2>2, <3>1, Names, Spliced
        <3>3. \A r \in Pids : r \in Elements(adopted[0]) <=>
                 (r \in processes /\ (ppid[r] = p \/ ppid[r] = 0) /\ zombie[r] /\ waitCount[r] = 0)
            BY <1>3, <2>1, <3>2, Names
        <3>4. \A r \in processes : ppid'[r] = 0 <=> (ppid[r] = p \/ ppid[r] = 0)
            BY <1>8
        <3> QED BY <2>3, <3>2, <3>3, <3>4
    <2>4. CASE q = p
        <3>1. /\ <<>> \in Seq(Pids) /\ Once(<<>>) /\ Elements(<<>>) = {}
            BY DEF Once, Elements
        <3>2. \A r \in processes : ppid'[r] # p
            BY <1>3, <1>8
        <3> QED BY <2>2, <2>4, <3>1, <3>2
    <2>5. CASE q # 0 /\ q # p
        <3>1. \A r \in processes : ppid'[r] = q <=> ppid[r] = q
            BY <1>8, <2>5
        <3> QED BY <2>1, <2>2, <2>5, <3>1
    <2> QED BY <2>3, <2>4, <2>5
<1>19. ppid'[p] = parent /\ p \notin Elements(adopted[parent])
    BY <1>3, <1>4, <1>8, <1>18
<1>20. ASSUME NEW q \in Procs
       PROVE  /\ zombies'[q] \in Seq(Pids) /\ Once(zombies'[q])
              /\ Elements(zombies'[q]) =
                   Elements(adopted[q]) \cup (IF ~direct /\ q = parent THEN {p} ELSE {})
    <2>1. DOMAIN adopted = Procs
        BY <1>1, <1>6
    <2>2. CASE ~direct /\ q = parent
        <3>1. zombies'[q] = Append(adopted[q], p)
            <4>1. zombies' = [adopted EXCEPT ![parent] = Append(@, p)]
                BY <1>4, <1>6, <2>2 DEF start, direct
            <4> QED BY <1>4, <2>1, <2>2, <4>1
        <3> QED BY <1>18, <1>19, <2>2, <3>1, Appended
    <2>3. CASE direct \/ q # parent
        <3>1. zombies'[q] = adopted[q]
            <4>1. CASE direct
                BY <1>6, <4>1 DEF start, direct
            <4>2. CASE ~direct
                <5>1. zombies' = [adopted EXCEPT ![parent] = Append(@, p)]
                    BY <1>4, <1>6, <4>2 DEF start, direct
                <5> QED BY <2>1, <2>3, <4>2, <5>1
            <4> QED BY <4>1, <4>2
        <3> QED BY <1>18, <2>3, <3>1
    <2> QED BY <2>2, <2>3
<1>21. zombies' \in [Procs -> Seq(Pids)]
    <2>1. zombies' = [q \in Procs |-> zombies'[q]]
        <3>1. DOMAIN adopted = Procs /\ adopted = [q \in Procs |-> adopted[q]]
            BY <1>1, <1>6
        <3>2. CASE direct
            BY <1>6, <3>1, <3>2 DEF start, direct
        <3>3. CASE ~direct
            <4>1. zombies' = [adopted EXCEPT ![parent] = Append(@, p)]
                BY <1>4, <1>6, <3>3 DEF start, direct
            <4> QED BY <3>1, <4>1
        <3> QED BY <3>2, <3>3
    <2> QED BY <1>20, <2>1
<1>22. ListsInv'
    <2> SUFFICES ASSUME NEW q \in Procs, NEW r \in Pids
                 PROVE  /\ Once(zombies'[q])
                        /\ r \in childs'[q] <=> (r \in processes' /\ ppid'[r] = q /\ ~zombie'[r])
                        /\ r \in Elements(zombies'[q]) <=>
                           (r \in processes' /\ ppid'[r] = q /\ zombie'[r] /\ waitCount'[r] = 0)
        BY DEF ListsInv
    <2>1. processes' = processes /\ waitCount' = waitCount
        BY <1>2
    <2>2. r \in childs'[q] <=> (r \in processes /\ ppid'[r] = q /\ ~zombie'[r])
        <3>1. \A c \in Procs : r \in childs[c] <=> (r \in processes /\ ppid[r] = c /\ ~zombie[r])
            BY DEF ProcessInv, ListsInv
        <3>2. CASE r = p
            <4>1. \A c \in Procs : p \in childs[c] => c = parent
                BY <1>4, <3>1, <3>2
            <4>2. p \notin childs'[q]
                BY <1>3, <1>4, <1>9, <4>1, Names
            <4> QED BY <1>7, <3>2, <4>2
        <3>3. CASE r # p
            <4>1. zombie'[r] = zombie[r]
                BY <1>7, <3>3
            <4>2. CASE q = 0
                <5>1. r \in childs'[q] <=> r \in childs[0] \/ r \in childs[p]
                    BY <1>9, <3>3, <4>2
                <5>2. r \in processes => (ppid'[r] = 0 <=> (ppid[r] = p \/ ppid[r] = 0))
                    BY <1>8
                <5>3. /\ r \in childs[0] <=> (r \in processes /\ ppid[r] = 0 /\ ~zombie[r])
                      /\ r \in childs[p] <=> (r \in processes /\ ppid[r] = p /\ ~zombie[r])
                    BY <1>3, <3>1, Names
                <5> QED BY <4>1, <4>2, <5>1, <5>2, <5>3
            <4>3. CASE q = p
                <5>1. r \notin childs'[q]
                    BY <1>3, <1>9, <4>3
                <5>2. r \in processes => ppid'[r] # p
                    BY <1>3, <1>8
                <5> QED BY <4>3, <5>1, <5>2
            <4>4. CASE q # 0 /\ q # p
                <5>1. r \in childs'[q] <=> r \in childs[q]
                    BY <1>9, <3>3, <4>4
                <5>2. r \in processes => (ppid'[r] = q <=> ppid[r] = q)
                    BY <1>8, <4>4
                <5> QED BY <3>1, <4>1, <5>1, <5>2
            <4> QED BY <4>2, <4>3, <4>4
        <3> QED BY <3>2, <3>3
    <2>3. /\ Once(zombies'[q])
          /\ r \in Elements(zombies'[q]) <=>
               r \in Elements(adopted[q]) \/ (~direct /\ q = parent /\ r = p)
        BY <1>20
    <2>4. r \in Elements(adopted[q]) <=>
             (r \in processes /\ ppid'[r] = q /\ zombie[r] /\ waitCount[r] = 0)
        BY <1>18
    <2>5. r \in Elements(zombies'[q]) <=>
             (r \in processes /\ ppid'[r] = q /\ zombie'[r] /\ waitCount[r] = 0)
        <3>1. CASE r = p
            <4>1. zombie'[r] /\ r \in processes /\ ppid'[r] = parent /\ ~zombie[r]
                BY <1>3, <1>7, <1>19, <3>1
            <4>2. ~direct <=> waitCount[r] = 0
                BY <1>5, <3>1
            <4> QED BY <2>3, <2>4, <3>1, <4>1, <4>2
        <3>2. CASE r # p
            <4>1. zombie'[r] = zombie[r]
                BY <1>7, <3>2
            <4> QED BY <2>3, <2>4, <3>2, <4>1
        <3> QED BY <3>1, <3>2
    <2> QED BY <2>1, <2>2, <2>3, <2>5
<1>23. TypeOK'
    BY <1>1, <1>2, <1>7, <1>8, <1>9, <1>10, <1>21 DEF TypeOK
<1> QED BY <1>13, <1>14, <1>16, <1>17, <1>22, <1>23 DEF ProcessInv

-----------------------------------------------------------------------------
(* The theorems *)

\* Initially there are no processes but the kernel.
LEMMA ProcessInit == Init => ProcessInv
<1> SUFFICES ASSUME Init PROVE ProcessInv
    OBVIOUS
<1>1. TypeOK
    <2>1. <<>> \in Seq(Pids) /\ 0 \in 0 .. Cardinality(Threads) /\ 0 \in 0 .. MaxPid + 1
        BY ThreadsFinite, ProcessAssumption
    <2> QED BY <2>1, Names DEF Init, TypeOK, Places
<1>2. /\ processes = {} /\ freed = {}
      /\ \A t \in Threads : pc[t] \in {"run", "none"} /\ (t \in Pids => pc[t] = "none")
    <2>1. \A t \in Pids : t \notin KThreads
        BY ProcessAssumption
    <2> QED BY <2>1 DEF Init
<1>3. ParentsInv
    BY <1>2, Names DEF ParentsInv
<1>4. ListsInv
    <2>1. \A q \in Procs : childs[q] = {} /\ zombies[q] = <<>>
        BY DEF Init
    <2>2. Once(<<>>) /\ Elements(<<>>) = {}
        BY DEF Once, Elements
    <2> QED BY <1>2, <2>1, <2>2 DEF ListsInv
<1>5. CreatingInv
    BY <1>2, Names DEF CreatingInv
<1>6. WaitersCounted
    BY <1>2 DEF WaitersCounted
<1>7. OnlyKernelThreadsRace
    BY <1>2 DEF OnlyKernelThreadsRace
<1> QED BY <1>1, <1>3, <1>4, <1>5, <1>6, <1>7 DEF ProcessInv

\* The lists of processes, the threads in create() and waitpid() and the
\* counts of waiters agree, whatever the kernel's threads and the processes
\* do: together with the types this is inductive.
THEOREM ProcessInvariant == Spec => []ProcessInv
<1>1. ASSUME ProcessInv, [Next]_vars PROVE ProcessInv'
    <2>1. CASE UNCHANGED vars
        <3>1. \A p : Waiting(p)' = Waiting(p)
            BY <2>1 DEF vars, Waiting
        <3> QED BY <1>1, <2>1, <3>1 DEF vars, ProcessInv, TypeOK, ParentsInv, ListsInv,
                    CreatingInv, WaitersCounted, OnlyKernelThreadsRace
    <2>2. ASSUME NEW t \in Threads, NEW p \in Pids, create(t, p) PROVE ProcessInv'
        BY <1>1, <2>2, CreateKeeps
    <2>3. ASSUME NEW t \in Threads, NEW p \in Pids, waitpid(t, p) PROVE ProcessInv'
        <3>1. pc[t] = "run" /\ Waitpid(t, p) /\ p \in Procs
            BY <2>3, Names DEF waitpid, Ready
        <3> QED BY <1>1, <3>1, WaitpidKeeps
    <2>4. ASSUME NEW t \in Threads, createFails(t) PROVE ProcessInv'
        BY <1>1, <2>4, CreateFailsKeeps
    <2>5. ASSUME NEW t \in Threads, createStarts(t) PROVE ProcessInv'
        BY <1>1, <2>5, CreateStartsKeeps
    <2>6. ASSUME NEW t \in Threads, createReturns(t) PROVE ProcessInv'
        <3>1. /\ pc[t] = "started" /\ Goto(t, "run", 0) /\ freed' = freed \ {t}
              /\ UNCHANGED <<pidCounter, processes, ppid, childs, zombies, zombie, waitCount>>
            BY <2>6 DEF createReturns, Return
        <3>2. pc[t] \notin {"none", "specific", "specificWoken"}
            BY <3>1
        <3> QED BY <1>1, <3>1, <3>2, MoveKeeps
    <2>7. ASSUME NEW t \in Threads, systemWaits(t) PROVE ProcessInv'
        <3>1. pc[t] = "started" /\ Waitpid(t, arg[t]) /\ arg[t] \in Procs
            BY <1>1, <2>7 DEF systemWaits, ProcessInv, TypeOK
        <3> QED BY <1>1, <3>1, WaitpidKeeps
    <2>8. ASSUME NEW t \in Threads, waitpidGeneric(t) PROVE ProcessInv'
        BY <1>1, <2>8, GenericKeeps
    <2>9. ASSUME NEW t \in Threads, SpecificReturns(t) PROVE ProcessInv'
        <3>1. pc[t] = "specificWoken" /\ FinishWaitpid(t, arg[t])
            BY <2>9 DEF SpecificReturns
        <3>2. arg[t] \in processes /\ ppid[arg[t]] = self(t) /\ zombie[arg[t]]
            BY <1>1, <3>1 DEF ProcessInv, WaitersCounted
        <3>3. arg[t] \in Pids
            BY <1>1, <3>2 DEF ProcessInv, TypeOK
        <3> QED BY <1>1, <3>1, <3>2, <3>3, FinishKeeps
    <2>10. ASSUME NEW p \in Pids, start(p) PROVE ProcessInv'
        BY <1>1, <2>10, StartKeeps
    <2> QED BY <1>1, <2>1, <2>2, <2>3, <2>4, <2>5, <2>6, <2>7, <2>8, <2>9, <2>10
            DEF Next, Step
<1> QED BY <1>1, ProcessInit, PTL DEF Spec

\* Every process is in exactly one list of its parent, once, and its parent
\* lives: what start(), waitpid() and a failing create() do to the lists
\* leaves no process in two of them or in none.
THEOREM ProcessFamily == Spec => []FamilyConsistent
<1>1. ASSUME ProcessInv PROVE FamilyConsistent
    <2>1. TypeOK
        BY <1>1 DEF ProcessInv
    <2>2. \A p \in processes : ppid[p] = 0 \/ (ppid[p] \in processes /\ ~zombie[ppid[p]])
        <3>1. \A p \in processes : ppid[p] \in Procs
            BY <2>1 DEF TypeOK
        <3> QED BY <1>1, <3>1, Names DEF ProcessInv, ParentsInv
    <2>3. ASSUME NEW q \in Procs, NEW p \in Pids
          PROVE  /\ p \in childs[q] <=> (p \in processes /\ ppid[p] = q /\ ~zombie[p])
                 /\ Times(zombies[q], p) =
                       IF p \in processes /\ ppid[p] = q /\ zombie[p] /\ waitCount[p] = 0
                       THEN 1 ELSE 0
        <3>1. /\ Once(zombies[q])
              /\ p \in childs[q] <=> (p \in processes /\ ppid[p] = q /\ ~zombie[p])
              /\ p \in Elements(zombies[q]) <=>
                   (p \in processes /\ ppid[p] = q /\ zombie[p] /\ waitCount[p] = 0)
            BY <1>1 DEF ProcessInv, ListsInv
        <3>2. PICK s, at : s = zombies[q] /\ at = {i \in DOMAIN s : s[i] = p}
            OBVIOUS
        <3>3. Times(zombies[q], p) = IF p \in Elements(s) THEN 1 ELSE 0
            <4>1. Times(zombies[q], p) = Cardinality(at)
                BY <3>2 DEF Times
            <4>2. CASE p \in Elements(s)
                <5>1. PICK i \in DOMAIN s : s[i] = p
                    BY <4>2 DEF Elements
                <5>2. at = {i}
                    BY <3>1, <3>2, <5>1 DEF Once
                <5> QED BY <4>1, <4>2, <5>2, FS_Singleton
            <4>3. CASE p \notin Elements(s)
                <5>1. at = {}
                    BY <3>2, <4>3 DEF Elements
                <5> QED BY <4>1, <4>3, <5>1, FS_EmptySet
            <4> QED BY <4>2, <4>3
        <3> QED BY <3>1, <3>2, <3>3
    <2> QED BY <2>1, <2>2, <2>3 DEF FamilyConsistent
<1> QED BY <1>1, ProcessInvariant, PTL

\* waitCount is the number of threads in waitpid() for a process, none of
\* them outlives it, and a waiter that is woken finds it dead: the two
\* errorHandler(UNEXPECTED) of waitpid() are never reached.
THEOREM ProcessWaiters == Spec => []WaitersCounted
<1>1. ProcessInv => WaitersCounted
    BY DEF ProcessInv
<1> QED BY <1>1, ProcessInvariant, PTL

\* Only threads of the kernel can be left with a Process that another one
\* deleted, in create() or asleep in waitpid().
THEOREM ProcessRace == Spec => []OnlyKernelThreadsRace
<1>1. ProcessInv => OnlyKernelThreadsRace
    BY DEF ProcessInv
<1> QED BY <1>1, ProcessInvariant, PTL

=============================================================================
