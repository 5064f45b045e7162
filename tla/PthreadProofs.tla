---------------------------- MODULE PthreadProofs ----------------------------
(***************************************************************************)
(* Proofs about Pthread and the modules it composes, FastMutex, EventQueue *)
(* and ProcessPool, for every finite set of threads, every depth of        *)
(* recursive locking, and every pool whose size has a whole bitmap.        *)
(***************************************************************************)
EXTENDS Pthread, SequenceTheorems, FiniteSetTheorems, TLAPS

-----------------------------------------------------------------------------
(* pthread_once() *)

\* init_executed tells how far the call of func() is.
OnceInv ==
    /\ OnceCompleted
    /\ completed = 1 <=> init_executed = 2
    /\ \A t \in Threads : once[t] = "func" => init_executed = 1

\* A round of pthread_once(), and func() returning or throwing, keep it.
LEMMA OnceStep ==
    ASSUME OnceInv, NEW t \in Threads,
           pthread_once(t) \/ FuncThrows(t) \/ FuncReturns(t)
    PROVE  OnceInv'
<1> USE DEF OnceInv, OnceCompleted, OnceTypeOK, OnceGoto
<1>1. CASE pthread_once(t)
    BY <1>1 DEF pthread_once
<1>2. CASE FuncThrows(t)
    BY <1>2 DEF FuncThrows
<1>3. CASE FuncReturns(t)
    BY <1>3 DEF FuncReturns
<1> QED BY <1>1, <1>2, <1>3

-----------------------------------------------------------------------------
(* The lists of waiting threads *)

Once(s) == \A i, j \in DOMAIN s : s[i] = s[j] => i = j

\* A thread that is not in a list is linked at its end.
LEMMA LinkLast ==
    ASSUME NEW S, NEW s \in Seq(S), Once(s), NEW x \in S, ~In(s, x)
    PROVE  /\ Append(s, x) \in Seq(S) /\ Append(s, x) # <<>> /\ Once(Append(s, x))
           /\ \A y : In(Append(s, x), y) <=> In(s, y) \/ y = x
<1> DEFINE r == Append(s, x)
<1>1. /\ Len(s) \in Nat /\ DOMAIN s = 1 .. Len(s)
      /\ r \in Seq(S) /\ r # <<>> /\ DOMAIN r = 1 .. Len(s) + 1
      /\ \A i \in 1 .. Len(s) : r[i] = s[i]
      /\ r[Len(s) + 1] = x
    BY AppendProperties, LenProperties
<1> HIDE DEF r
<1>2. \A i \in 1 .. Len(s) + 1 : i = Len(s) + 1 \/ i \in 1 .. Len(s)
    BY <1>1
<1>3. Once(r)
    <2>1. \A i \in 1 .. Len(s) : r[i] # x
        BY <1>1 DEF In
    <2>2. \A i, j \in 1 .. Len(s) : r[i] = r[j] => i = j
        BY <1>1 DEF Once
    <2> QED BY <1>1, <1>2, <2>1, <2>2 DEF Once
<1>4. ASSUME NEW y PROVE In(r, y) <=> In(s, y) \/ y = x
    <2>1. In(r, y) => In(s, y) \/ y = x
        BY <1>1, <1>2 DEF In
    <2>2. In(s, y) => In(r, y)
        BY <1>1 DEF In
    <2>3. In(r, x)
        BY <1>1 DEF In
    <2> QED BY <2>1, <2>2, <2>3
<1> QED BY <1>1, <1>3, <1>4 DEF r

\* The first n threads of a list are unlinked.
LEMMA UnlinkFirsts ==
    ASSUME NEW S, NEW s \in Seq(S), Once(s), NEW n \in 0 .. Len(s),
           NEW r, r = SubSeq(s, n + 1, Len(s))
    PROVE  /\ r \in Seq(S) /\ Once(r)
           /\ \A y : In(r, y) <=> In(s, y) /\ \A i \in 1 .. n : y # s[i]
           /\ n = Len(s) => r = <<>>
<1>1. Len(s) \in Nat /\ n \in Nat /\ DOMAIN s = 1 .. Len(s)
    BY LenProperties
<1>2. /\ r \in Seq(S) /\ DOMAIN r = 1 .. Len(s) - n
      /\ \A i \in 1 .. Len(s) - n : r[i] = s[n + i]
    <2>1. \A i \in n + 1 .. Len(s) : s[i] \in S
        BY <1>1, ElementOfSeq
    <2>2. /\ r \in Seq(S) /\ Len(r) = IF n + 1 <= Len(s) THEN Len(s) - (n + 1) + 1 ELSE 0
          /\ \A i \in 1 .. Len(s) - (n + 1) + 1 : r[i] = s[(n + 1) + i - 1]
        BY <1>1, <2>1, SubSeqProperties
    <2>3. Len(r) = Len(s) - n
        <3>1. \A k \in Nat : \A m \in 0 .. k : m + 1 <= k \/ m = k
            OBVIOUS
        <3>2. n + 1 <= Len(s) => Len(r) = Len(s) - n
            BY <1>1, <2>2
        <3>3. n = Len(s) => Len(r) = Len(s) - n
            BY <1>1, <2>2
        <3> QED BY <1>1, <3>1, <3>2, <3>3
    <2>4. DOMAIN r = 1 .. Len(r)
        BY <2>2, LenProperties
    <2>5. \A i \in 1 .. Len(s) - n : i \in 1 .. Len(s) - (n + 1) + 1 /\ (n + 1) + i - 1 = n + i
        BY <1>1
    <2> QED BY <2>2, <2>3, <2>4, <2>5
<1>3. Once(r)
    <2> SUFFICES ASSUME NEW i \in 1 .. Len(s) - n, NEW j \in 1 .. Len(s) - n,
                        r[i] = r[j]
                 PROVE  i = j
        BY <1>2 DEF Once
    <2>1. n + i \in DOMAIN s /\ n + j \in DOMAIN s /\ s[n + i] = s[n + j]
        BY <1>1, <1>2
    <2>2. n + i = n + j
        BY <2>1 DEF Once
    <2> QED BY <1>1, <2>2
<1>4. ASSUME NEW y, In(r, y) PROVE In(s, y) /\ \A i \in 1 .. n : y # s[i]
    <2>1. PICK k \in 1 .. Len(s) - n : y = s[n + k]
        BY <1>2, <1>4 DEF In
    <2>2. n + k \in DOMAIN s
        BY <1>1, <2>1
    <2>3. \A i \in 1 .. n : i \in DOMAIN s /\ i # n + k
        BY <1>1
    <2> QED BY <2>1, <2>2, <2>3 DEF In, Once
<1>5. ASSUME NEW y, In(s, y), \A i \in 1 .. n : y # s[i] PROVE In(r, y)
    <2>1. PICK k \in 1 .. Len(s) : y = s[k]
        BY <1>1, <1>5 DEF In
    <2>2. k - n \in 1 .. Len(s) - n /\ r[k - n] = y
        BY <1>1, <1>2, <1>5, <2>1
    <2> QED BY <1>2, <2>2 DEF In
<1>6. n = Len(s) => r = <<>>
    BY <1>1, <1>2, EmptySeq
<1> QED BY <1>2, <1>3, <1>4, <1>5, <1>6

\* The first thread of a list is unlinked.
LEMMA UnlinkFirst ==
    ASSUME NEW S, NEW s \in Seq(S), s # <<>>, Once(s)
    PROVE  /\ Tail(s) \in Seq(S) /\ Once(Tail(s))
           /\ Head(s) \in S /\ In(s, Head(s))
           /\ \A y : In(Tail(s), y) <=> In(s, y) /\ y # Head(s)
<1>1. Len(s) \in Nat \ {0} /\ DOMAIN s = 1 .. Len(s) /\ Head(s) = s[1] /\ Head(s) \in S
    BY EmptySeq, LenProperties, HeadTailProperties
<1>2. Tail(s) = SubSeq(s, 1 + 1, Len(s))
    BY TailIsSubSeq
<1>3. 1 \in 0 .. Len(s) /\ \A i : i \in 1 .. 1 <=> i = 1
    BY <1>1
<1>4. /\ Tail(s) \in Seq(S) /\ Once(Tail(s))
      /\ \A y : In(Tail(s), y) <=> In(s, y) /\ \A i \in 1 .. 1 : y # s[i]
    BY <1>2, <1>3, UnlinkFirsts
<1>5. In(s, Head(s))
    BY <1>1 DEF In
<1> QED BY <1>1, <1>3, <1>4, <1>5

-----------------------------------------------------------------------------
(* The mutex and the condition variable *)

\* A thread asleep on the mutex is in one of its two loops; only a thread in
\* pthread_cond_wait() has a depth to restore, and only if the mutex is
\* recursive; a mutex just handed over is held once.
MutexAux ==
    /\ \A t \in Threads : wait[t] => pc[t] \in {"lock", "relock"}
    /\ \A t \in Threads : pc[t] \in {"free", "lock"} => depth[t] = 0
    /\ recursive < 0 => \A t \in Threads : depth[t] = 0
    /\ owner # NoThread => pc[owner] = "free" \/ recursive <= 0

MutexInv == ListsConsistent /\ CallsMatchOwnership /\ MutexAux

\* The mutex passes to the thread that has waited longest, which leaves the
\* list and is awake, or becomes free when nobody waits.
LEMMA HandOffEffect ==
    ASSUME MutexInv, NEW t \in Threads, Holds(t), HandOff
    PROVE  /\ owner' \in Threads \cup {NoThread} /\ owner' # t
           /\ first' \in Seq(Threads) /\ Once(first')
           /\ wait' \in [Threads -> BOOLEAN]
           /\ \A u \in Threads : wait'[u] => wait[u]
           /\ \A u \in Threads : In(first', u) <=> In(first, u) /\ owner' # u
           /\ owner' = NoThread => first' = <<>>
           /\ owner' # NoThread => In(first, owner') /\ ~wait'[owner']
<1> USE FastMutexAssumption
<1>1. /\ owner = t /\ t # NoThread /\ first \in Seq(Threads) /\ Once(first)
      /\ wait \in [Threads -> BOOLEAN] /\ ~In(first, t)
    BY DEF MutexInv, ListsConsistent, MutexTypeOK, Holds, Once
<1>2. CASE first = <<>>
    <2>1. \A u \in Threads : ~In(first, u)
        BY <1>2 DEF In
    <2> QED BY <1>1, <1>2, <2>1 DEF HandOff
<1>3. CASE first # <<>>
    <2>1. /\ owner' = Head(first) /\ first' = Tail(first)
          /\ wait' = [wait EXCEPT ![Head(first)] = FALSE]
        BY <1>3 DEF HandOff
    <2>2. /\ first' \in Seq(Threads) /\ Once(first')
          /\ Head(first) \in Threads /\ In(first, Head(first))
          /\ \A u : In(first', u) <=> In(first, u) /\ u # Head(first)
        BY <1>1, <1>3, <2>1, UnlinkFirst
    <2>3. /\ wait' \in [Threads -> BOOLEAN] /\ ~wait'[Head(first)]
          /\ \A u \in Threads : wait'[u] => wait[u]
        BY <1>1, <2>1, <2>2
    <2> QED BY <1>1, <2>1, <2>2, <2>3
<1> QED BY <1>2, <1>3

\* A caller that finds the mutex taken joins the list, asleep.
LEMMA EnqueueKeepsInv ==
    ASSUME MutexInv, NEW t \in Threads, NEW place \in {"lock", "relock"},
           pc[t] \in {"free", "cond"}, ~condWait[t], place = "lock" => pc[t] = "free",
           Enqueue(t, place), UNCHANGED <<cond, condWait, depth>>
    PROVE  MutexInv'
<1> USE FastMutexAssumption
<1>1. /\ owner \in Threads /\ owner # t /\ owner' = owner
      /\ first' = Append(first, t) /\ wait' = [wait EXCEPT ![t] = TRUE]
      /\ pc' = [pc EXCEPT ![t] = place] /\ recursive' = recursive /\ held' = held
      /\ cond' = cond /\ condWait' = condWait /\ depth' = depth
    BY DEF Enqueue, Goto, MutexInv, ListsConsistent, MutexTypeOK
<1>2. MutexTypeOK /\ Once(first) /\ ~In(first, t)
    BY DEF MutexInv, ListsConsistent, Once
<1>3. /\ first' \in Seq(Threads) /\ Once(first') /\ first' # <<>>
      /\ \A u : In(first', u) <=> In(first, u) \/ u = t
    BY <1>1, <1>2, LinkLast DEF MutexTypeOK
<1>4. MutexTypeOK'
    BY <1>1, <1>2, <1>3 DEF MutexTypeOK
<1>5. \A u \in Threads : /\ pc'[u] = IF u = t THEN place ELSE pc[u]
                         /\ wait'[u] <=> wait[u] \/ u = t
    BY <1>1, <1>2 DEF MutexTypeOK
<1>6. \A u \in Threads : /\ In(first', u) <=> pc'[u] \in {"lock", "relock"} /\ owner' # u
                         /\ In(cond', u) <=> condWait'[u]
                         /\ condWait'[u] => pc'[u] = "cond"
    BY <1>1, <1>3, <1>5 DEF MutexInv, ListsConsistent
<1>7. ListsConsistent'
    BY <1>1, <1>3, <1>4, <1>5, <1>6 DEF MutexInv, ListsConsistent, Once
<1>8. CallsMatchOwnership'
    BY <1>1, <1>5 DEF MutexInv, CallsMatchOwnership, Holds
<1>9. MutexAux'
    BY <1>1, <1>5 DEF MutexInv, MutexAux
<1> QED BY <1>7, <1>8, <1>9 DEF MutexInv

\* A thread that is not in a list becomes the owner of a free mutex, or goes
\* one level deeper in one it owns.
LEMMA TakeKeepsInv ==
    ASSUME MutexInv, NEW t \in Threads, NEW r \in -1 .. MaxDepth,
           \/ owner = NoThread /\ pc[t] \in {"free", "cond"} /\ ~condWait[t]
           \/ owner = t /\ pc[t] # "cond",
           owner' = t, recursive' = r, recursive < 0 <=> r < 0,
           NEW h, held' = [held EXCEPT ![t] = h], h = IF r < 0 THEN 1 ELSE r + 1,
           depth' = [depth EXCEPT ![t] = 0],
           pc' = [pc EXCEPT ![t] = "free"],
           UNCHANGED <<first, cond, wait, condWait>>
    PROVE  MutexInv'
<1> USE FastMutexAssumption
<1>1. MutexTypeOK /\ t # NoThread
    BY DEF MutexInv, ListsConsistent
<1>2. MutexTypeOK'
    BY <1>1 DEF MutexTypeOK
<1>3. \A u \in Threads : /\ pc'[u] = IF u = t THEN "free" ELSE pc[u]
                         /\ depth'[u] = IF u = t THEN 0 ELSE depth[u]
                         /\ held'[u] = IF u = t THEN (IF r < 0 THEN 1 ELSE r + 1)
                                       ELSE held[u]
    BY <1>1 DEF MutexTypeOK
<1>4. ~wait[t] /\ ~condWait[t] /\ ~In(first, t) /\ ~In(cond, t)
    BY <1>1 DEF MutexInv, ListsConsistent, MutexAux
<1>5. \A u \in Threads : In(first, u) => u # t /\ owner # NoThread
    <2>1. first = <<>> => \A u \in Threads : ~In(first, u)
        BY DEF In
    <2> QED BY <1>4, <2>1 DEF MutexInv, ListsConsistent
<1>6. \A u \in Threads : /\ In(first', u) <=> pc'[u] \in {"lock", "relock"} /\ owner' # u
                         /\ In(cond', u) <=> condWait'[u]
                         /\ condWait'[u] => pc'[u] = "cond"
    <2> SUFFICES ASSUME NEW u \in Threads
                 PROVE  /\ In(first, u) <=> pc'[u] \in {"lock", "relock"} /\ t # u
                        /\ In(cond, u) <=> condWait[u]
                        /\ condWait[u] => pc'[u] = "cond"
        OBVIOUS
    <2>1. CASE u = t
        BY <1>3, <1>4, <2>1 DEF MutexInv, ListsConsistent
    <2>2. CASE u # t
        BY <1>1, <1>3, <2>2 DEF MutexInv, ListsConsistent
    <2> QED BY <2>1, <2>2
<1>7. ListsConsistent'
    BY <1>1, <1>2, <1>3, <1>4, <1>6 DEF MutexInv, ListsConsistent
<1>8. CallsMatchOwnership'
    <2>1. \A u \in Threads : Holds(u)' <=> u = t
        BY <1>3 DEF Holds
    <2>2. \A u \in Threads : u # t => held[u] = 0
        BY <1>1 DEF MutexInv, CallsMatchOwnership, Holds, MutexTypeOK
    <2>3. held'[t] > 0
        BY <1>3
    <2> QED BY <1>1, <1>3, <2>1, <2>2, <2>3 DEF CallsMatchOwnership
<1>9. MutexAux'
    BY <1>1, <1>3, <1>4 DEF MutexInv, MutexAux
<1> QED BY <1>7, <1>8, <1>9 DEF MutexInv

\* The owner gives up all its levels, to return from pthread_mutex_unlock()
\* or to sleep on the condition variable.
LEMMA ReleaseKeepsInv ==
    ASSUME MutexInv, NEW t \in Threads, Holds(t), HandOff,
           recursive' \in -1 .. 0, recursive < 0 <=> recursive' < 0,
           held' = [held EXCEPT ![t] = 0],
           \/ UNCHANGED <<pc, cond, condWait, depth>>
           \/ /\ pc' = [pc EXCEPT ![t] = "cond"]
              /\ cond' = Append(cond, t)
              /\ condWait' = [condWait EXCEPT ![t] = TRUE]
              /\ \E d \in 0 .. MaxDepth : /\ depth' = [depth EXCEPT ![t] = d]
                                          /\ recursive < 0 => d = 0
    PROVE  MutexInv'
<1> USE FastMutexAssumption
<1>1. /\ MutexTypeOK /\ owner = t /\ pc[t] = "free" /\ t # NoThread
      /\ Once(first) /\ Once(cond) /\ ~condWait[t] /\ ~In(cond, t) /\ ~wait[t]
    BY DEF MutexInv, ListsConsistent, Holds, Once
<1>2. /\ owner' \in Threads \cup {NoThread} /\ owner' # t
      /\ first' \in Seq(Threads) /\ Once(first')
      /\ wait' \in [Threads -> BOOLEAN]
      /\ \A u \in Threads : wait'[u] => wait[u]
      /\ \A u \in Threads : In(first', u) <=> In(first, u) /\ owner' # u
      /\ owner' = NoThread => first' = <<>>
      /\ owner' # NoThread => In(first, owner') /\ ~wait'[owner']
    BY HandOffEffect
<1>3. /\ pc' \in [Threads -> {"free", "lock", "cond", "relock"}]
      /\ depth' \in [Threads -> 0 .. MaxDepth]
      /\ \A u \in Threads : u # t => pc'[u] = pc[u] /\ depth'[u] = depth[u]
      /\ pc'[t] \in {"free", "cond"}
      /\ recursive < 0 => depth'[t] = depth[t] \/ depth'[t] = 0
      /\ pc'[t] = "free" => depth'[t] = depth[t]
    <2>1. CASE UNCHANGED <<pc, cond, condWait, depth>>
        BY <1>1, <2>1 DEF MutexTypeOK
    <2>2. ASSUME NEW d \in 0 .. MaxDepth, depth' = [depth EXCEPT ![t] = d],
                 recursive < 0 => d = 0, pc' = [pc EXCEPT ![t] = "cond"]
          PROVE  /\ pc' \in [Threads -> {"free", "lock", "cond", "relock"}]
                 /\ depth' \in [Threads -> 0 .. MaxDepth]
                 /\ \A u \in Threads : u # t => pc'[u] = pc[u] /\ depth'[u] = depth[u]
                 /\ pc'[t] = "cond"
                 /\ recursive < 0 => depth'[t] = 0
        BY <1>1, <2>2 DEF MutexTypeOK
    <2> QED BY <2>1, <2>2
<1>4. /\ cond' \in Seq(Threads) /\ Once(cond') /\ condWait' \in [Threads -> BOOLEAN]
      /\ \A u \in Threads : /\ In(cond', u) <=> condWait'[u]
                            /\ condWait'[u] => pc'[u] = "cond"
    <2>1. CASE UNCHANGED <<pc, cond, condWait, depth>>
        BY <1>1, <2>1 DEF MutexInv, ListsConsistent, MutexTypeOK
    <2>2. CASE /\ pc' = [pc EXCEPT ![t] = "cond"]
               /\ cond' = Append(cond, t)
               /\ condWait' = [condWait EXCEPT ![t] = TRUE]
        <3>1. /\ cond' \in Seq(Threads) /\ Once(cond')
              /\ \A u : In(cond', u) <=> In(cond, u) \/ u = t
            BY <1>1, <2>2, LinkLast DEF MutexTypeOK
        <3>2. /\ condWait' \in [Threads -> BOOLEAN]
              /\ \A u \in Threads : /\ condWait'[u] <=> condWait[u] \/ u = t
                                    /\ pc'[u] = IF u = t THEN "cond" ELSE pc[u]
            BY <1>1, <2>2 DEF MutexTypeOK
        <3> QED BY <3>1, <3>2 DEF MutexInv, ListsConsistent
    <2> QED BY <2>1, <2>2
<1>5. MutexTypeOK'
    <2>1. recursive' \in -1 .. MaxDepth
        OBVIOUS
    <2>2. held' \in [Threads -> 0 .. MaxDepth + 1]
        <3>1. 0 \in 0 .. MaxDepth + 1
            OBVIOUS
        <3> QED BY <1>1, <3>1 DEF MutexTypeOK
    <2> QED BY <1>2, <1>3, <1>4, <2>1, <2>2 DEF MutexTypeOK
<1>6. owner' # NoThread => pc'[owner'] \in {"lock", "relock"}
    BY <1>1, <1>2, <1>3 DEF MutexInv, ListsConsistent
<1>7. \A u \in Threads : In(first', u) <=> pc'[u] \in {"lock", "relock"} /\ owner' # u
    <2> TAKE u \in Threads
    <2>1. In(first, u) <=> pc[u] \in {"lock", "relock"} /\ u # t
        BY <1>1 DEF MutexInv, ListsConsistent
    <2>2. pc'[u] \in {"lock", "relock"} <=> pc[u] \in {"lock", "relock"} /\ u # t
        BY <1>1, <1>3
    <2> QED BY <1>2, <2>1, <2>2
<1>8. ListsConsistent'
    BY <1>2, <1>4, <1>5, <1>6, <1>7 DEF ListsConsistent, Once
<1>9. CallsMatchOwnership'
    <2>1. \A u \in Threads : ~Holds(u)'
        BY <1>1, <1>2, <1>6 DEF Holds
    <2>2. \A u \in Threads : held'[u] = 0
        BY <1>1 DEF MutexInv, CallsMatchOwnership, Holds, MutexTypeOK
    <2> QED BY <2>1, <2>2 DEF CallsMatchOwnership
<1>10. MutexAux'
    <2>1. \A u \in Threads : wait'[u] => pc'[u] \in {"lock", "relock"}
        BY <1>1, <1>2, <1>3 DEF MutexInv, MutexAux
    <2>2. \A u \in Threads : pc'[u] \in {"free", "lock"} => depth'[u] = 0
        BY <1>1, <1>3 DEF MutexInv, MutexAux
    <2>3. recursive' < 0 => \A u \in Threads : depth'[u] = 0
        BY <1>1, <1>3 DEF MutexInv, MutexAux
    <2> QED BY <2>1, <2>2, <2>3 DEF MutexAux
<1> QED BY <1>8, <1>9, <1>10 DEF MutexInv

\* Waking the first n threads of the condition variable's list.
LEMMA CondWakeKeepsInv ==
    ASSUME MutexInv, NEW n \in 0 .. Len(cond), CondWake(n)
    PROVE  MutexInv'
<1>1. MutexTypeOK /\ Once(cond) /\ cond \in Seq(Threads)
    BY DEF MutexInv, ListsConsistent, MutexTypeOK, Once
<1>2. /\ cond' \in Seq(Threads) /\ Once(cond')
      /\ \A u : In(cond', u) <=> In(cond, u) /\ \A i \in 1 .. n : u # cond[i]
    <2>1. cond' = SubSeq(cond, n + 1, Len(cond))
        BY DEF CondWake
    <2>2. \A s \in Seq(Threads) : Once(s) =>
             \A k \in 0 .. Len(s) : \A r : r = SubSeq(s, k + 1, Len(s)) =>
                /\ r \in Seq(Threads) /\ Once(r)
                /\ \A u : In(r, u) <=> In(s, u) /\ \A i \in 1 .. k : u # s[i]
        BY UnlinkFirsts
    <2>3. n \in 0 .. Len(cond)
        OBVIOUS
    <2>4. \A r : r = SubSeq(cond, n + 1, Len(cond)) =>
                /\ r \in Seq(Threads) /\ Once(r)
                /\ \A u : In(r, u) <=> In(cond, u) /\ \A i \in 1 .. n : u # cond[i]
        BY <1>1, <2>2, <2>3, Zenon
    <2> QED BY <2>1, <2>4, Zenon
<1>3. /\ condWait' \in [Threads -> BOOLEAN]
      /\ \A u \in Threads : condWait'[u] <=> condWait[u] /\ \A i \in 1 .. n : u # cond[i]
    BY <1>1 DEF CondWake, MutexTypeOK
<1>4. UNCHANGED <<owner, recursive, first, wait, pc, depth, held>>
    BY DEF CondWake
<1>5. MutexTypeOK'
    BY <1>1, <1>2, <1>3, <1>4 DEF MutexTypeOK
<1>6. ListsConsistent'
    BY <1>2, <1>3, <1>4, <1>5 DEF MutexInv, ListsConsistent, Once
<1>7. CallsMatchOwnership' /\ MutexAux'
    BY <1>4 DEF MutexInv, CallsMatchOwnership, MutexAux, Holds
<1> QED BY <1>6, <1>7 DEF MutexInv

\* A change of the WAIT flags alone that puts only waiting threads to sleep.
LEMMA FlagsKeepInv ==
    ASSUME MutexInv, wait' \in [Threads -> BOOLEAN],
           \A u \in Threads : wait'[u] => wait[u] \/ In(first, u),
           UNCHANGED <<owner, recursive, first, cond, condWait, pc, depth, held>>
    PROVE  MutexInv'
<1>1. MutexTypeOK'
    BY DEF MutexInv, ListsConsistent, MutexTypeOK
<1>2. \A u \in Threads : wait'[u] => pc[u] \in {"lock", "relock"} /\ owner # u
    BY FastMutexAssumption DEF MutexInv, ListsConsistent, MutexAux
<1>3. owner # NoThread => owner \in Threads
    BY DEF MutexInv, ListsConsistent, MutexTypeOK
<1>4. ListsConsistent'
    BY <1>1, <1>2, <1>3 DEF MutexInv, ListsConsistent
<1>5. CallsMatchOwnership' /\ MutexAux'
    BY <1>2 DEF MutexInv, CallsMatchOwnership, MutexAux, Holds
<1> QED BY <1>4, <1>5 DEF MutexInv

MutexStep(t) ==
    \/ pthread_mutex_lock(t) \/ pthread_mutex_trylock(t) \/ pthread_mutex_unlock(t)
    \/ pthread_cond_wait(t) \/ pthread_cond_signal(t) \/ pthread_cond_broadcast(t)
    \/ Resume(t) \/ SpuriousWakeup(t) \/ UNCHANGED mutexVars

\* Every function of pthread.cpp on the mutex and on the condition variable
\* keeps the invariant.
LEMMA MutexStepKeepsInv ==
    ASSUME MutexInv, NEW t \in Threads, MutexStep(t)
    PROVE  MutexInv'
<1> USE FastMutexAssumption
<1>0. /\ MutexTypeOK /\ t # NoThread
      /\ pc[t] # "cond" => ~condWait[t]
      /\ pc[t] \in {"free", "lock"} => depth[t] = 0
    BY DEF MutexInv, ListsConsistent, MutexAux
<1>a. ASSUME pc[t] = "free" PROVE UNCHANGED <<pc, depth>> =>
          depth' = [depth EXCEPT ![t] = 0] /\ pc' = [pc EXCEPT ![t] = "free"]
    BY <1>0, <1>a DEF MutexTypeOK
<1>b. /\ pc[t] = "free" /\ owner = t => held[t] = IF recursive < 0 THEN 1 ELSE recursive + 1
      /\ owner # t => held[t] = 0
      /\ owner = NoThread => recursive <= 0
    BY <1>0 DEF MutexInv, CallsMatchOwnership, Holds, MutexTypeOK
<1>c. recursive \in -1 .. MaxDepth
    BY <1>0 DEF MutexTypeOK
<1>1. CASE pthread_mutex_lock(t)
    <2>1. CASE owner = NoThread /\ owner' = t /\ Count(t, 1)
               /\ UNCHANGED <<recursive, first, wait, pc>>
        <3>1. depth' = [depth EXCEPT ![t] = 0] /\ pc' = [pc EXCEPT ![t] = "free"]
            BY <1>0, <1>1, <1>a, <2>1 DEF pthread_mutex_lock
        <3>2. /\ recursive' \in -1 .. MaxDepth /\ (recursive < 0 <=> recursive' < 0)
              /\ 1 = IF recursive' < 0 THEN 1 ELSE recursive' + 1
            BY <1>0, <1>1, <1>b, <1>c, <2>1 DEF pthread_mutex_lock
        <3>3. held' = [held EXCEPT ![t] = 1]
            BY <1>1, <2>1 DEF pthread_mutex_lock, Count
        <3> QED BY <1>0, <1>1, <2>1, <3>1, <3>2, <3>3, TakeKeepsInv DEF pthread_mutex_lock
    <2>2. CASE /\ owner = t /\ recursive \in 0 .. MaxDepth - 1
               /\ recursive' = recursive + 1
               /\ Count(t, held[t] + 1)
               /\ UNCHANGED <<owner, first, wait, pc>>
        <3>1. depth' = [depth EXCEPT ![t] = 0] /\ pc' = [pc EXCEPT ![t] = "free"]
            BY <1>0, <1>1, <1>a, <2>2 DEF pthread_mutex_lock
        <3>2. /\ recursive' \in -1 .. MaxDepth /\ (recursive < 0 <=> recursive' < 0)
              /\ held[t] + 1 = IF recursive' < 0 THEN 1 ELSE recursive' + 1
            BY <1>0, <1>1, <1>b, <1>c, <2>2 DEF pthread_mutex_lock
        <3>3. held' = [held EXCEPT ![t] = held[t] + 1]
            BY <1>1, <2>2 DEF pthread_mutex_lock, Count
        <3> QED BY <1>0, <1>1, <2>2, <3>1, <3>2, <3>3, TakeKeepsInv DEF pthread_mutex_lock
    <2>3. CASE Enqueue(t, "lock")
        BY <1>0, <1>1, <2>3, EnqueueKeepsInv DEF pthread_mutex_lock
    <2> QED BY <1>1, <2>1, <2>2, <2>3 DEF pthread_mutex_lock
<1>2. CASE pthread_mutex_trylock(t)
    <2>1. CASE owner = NoThread /\ owner' = t /\ UNCHANGED recursive
        <3>1. depth' = [depth EXCEPT ![t] = 0] /\ pc' = [pc EXCEPT ![t] = "free"]
            BY <1>0, <1>2, <1>a, <2>1 DEF pthread_mutex_trylock
        <3>2. /\ recursive' \in -1 .. MaxDepth /\ (recursive < 0 <=> recursive' < 0)
              /\ held[t] + 1 = IF recursive' < 0 THEN 1 ELSE recursive' + 1
            BY <1>0, <1>2, <1>b, <1>c, <2>1 DEF pthread_mutex_trylock
        <3>3. held' = [held EXCEPT ![t] = held[t] + 1]
            BY <1>2, <2>1 DEF pthread_mutex_trylock, Count
        <3> QED BY <1>0, <1>2, <2>1, <3>1, <3>2, <3>3, TakeKeepsInv DEF pthread_mutex_trylock
    <2>2. CASE /\ owner = t /\ recursive \in 0 .. MaxDepth - 1
               /\ recursive' = recursive + 1
               /\ UNCHANGED owner
        <3>1. depth' = [depth EXCEPT ![t] = 0] /\ pc' = [pc EXCEPT ![t] = "free"]
            BY <1>0, <1>2, <1>a, <2>2 DEF pthread_mutex_trylock
        <3>2. /\ recursive' \in -1 .. MaxDepth /\ (recursive < 0 <=> recursive' < 0)
              /\ held[t] + 1 = IF recursive' < 0 THEN 1 ELSE recursive' + 1
            BY <1>0, <1>2, <1>b, <1>c, <2>2 DEF pthread_mutex_trylock
        <3>3. held' = [held EXCEPT ![t] = held[t] + 1]
            BY <1>2, <2>2 DEF pthread_mutex_trylock, Count
        <3> QED BY <1>0, <1>2, <2>2, <3>1, <3>2, <3>3, TakeKeepsInv DEF pthread_mutex_trylock
    <2> QED BY <1>2, <2>1, <2>2 DEF pthread_mutex_trylock
<1>3. CASE pthread_mutex_unlock(t)
    <2>1. CASE recursive > 0 /\ recursive' = recursive - 1
               /\ UNCHANGED <<owner, first, wait>>
        <3>1. depth' = [depth EXCEPT ![t] = 0] /\ pc' = [pc EXCEPT ![t] = "free"]
            BY <1>0, <1>3, <1>a, <2>1 DEF pthread_mutex_unlock, Holds
        <3>2. /\ recursive' \in -1 .. MaxDepth /\ (recursive < 0 <=> recursive' < 0)
              /\ held[t] - 1 = IF recursive' < 0 THEN 1 ELSE recursive' + 1
            BY <1>0, <1>3, <1>b, <1>c, <2>1 DEF pthread_mutex_unlock, Holds
        <3>3. held' = [held EXCEPT ![t] = held[t] - 1]
            BY <1>3, <2>1 DEF pthread_mutex_unlock, Holds, Count
        <3> QED BY <1>0, <1>3, <2>1, <3>1, <3>2, <3>3, TakeKeepsInv DEF pthread_mutex_unlock, Holds
    <2>2. CASE recursive <= 0 /\ HandOff /\ UNCHANGED recursive
        <3>1. held' = [held EXCEPT ![t] = held[t] - 1] /\ Holds(t)
            BY <1>3 DEF pthread_mutex_unlock, Count
        <3>2. held[t] - 1 = 0
            BY <1>b, <1>c, <2>2, <3>1 DEF Holds
        <3>3. recursive' \in -1 .. 0
            BY <1>c, <2>2
        <3> QED BY <1>3, <2>2, <3>1, <3>2, <3>3, ReleaseKeepsInv
                DEF pthread_mutex_unlock
    <2> QED BY <1>3, <2>1, <2>2 DEF pthread_mutex_unlock
<1>4. CASE pthread_cond_wait(t)
    <2> DEFINE d == IF recursive < 0 THEN 0 ELSE recursive
    <2>1. d \in 0 .. MaxDepth /\ (recursive < 0 => d = 0)
        BY <1>c
    <2>2. depth' = [depth EXCEPT ![t] = d]
        BY <1>4 DEF pthread_cond_wait
    <2> HIDE DEF d
    <2>3. recursive' \in -1 .. 0 /\ (recursive < 0 <=> recursive' < 0)
        BY <1>4, <1>c DEF pthread_cond_wait, Depth
    <2> QED BY <1>4, <2>1, <2>2, <2>3, ReleaseKeepsInv
            DEF pthread_cond_wait, Goto, Count
<1>5. CASE pthread_cond_signal(t) \/ pthread_cond_broadcast(t)
    <2>1. /\ Len(cond) \in 0 .. Len(cond) /\ (IF cond = <<>> THEN 0 ELSE 1) \in 0 .. Len(cond)
        BY <1>0, EmptySeq, LenProperties DEF MutexTypeOK
    <2> QED BY <1>5, <2>1, CondWakeKeepsInv DEF pthread_cond_signal, pthread_cond_broadcast
<1>6. CASE LockLoop(t)
    <2>1. CASE owner # t /\ wait' = [wait EXCEPT ![t] = TRUE]
               /\ UNCHANGED <<recursive, pc, depth, held>>
        <3>1. In(first, t)
            BY <1>6, <2>1 DEF LockLoop, MutexInv, ListsConsistent
        <3> QED BY <1>0, <1>6, <2>1, <3>1, FlagsKeepInv DEF LockLoop, MutexTypeOK
    <2>2. CASE /\ owner = t
               /\ Goto(t, "free")
               /\ Count(t, depth[t] + 1)
               /\ recursive' = IF pc[t] = "relock" THEN Depth(depth[t]) ELSE recursive
               /\ depth' = [depth EXCEPT ![t] = 0]
               /\ UNCHANGED wait
        <3>1. pc[t] \in {"lock", "relock"} /\ UNCHANGED <<owner, first, cond, condWait>>
            BY <1>6 DEF LockLoop
        <3>2. recursive <= 0 /\ (recursive < 0 => depth[t] = 0) /\ depth[t] \in 0 .. MaxDepth
            BY <1>0, <2>2, <3>1 DEF MutexInv, MutexAux, MutexTypeOK
        <3>3. /\ recursive' \in -1 .. MaxDepth /\ (recursive < 0 <=> recursive' < 0)
              /\ depth[t] + 1 = IF recursive' < 0 THEN 1 ELSE recursive' + 1
            BY <1>0, <1>c, <2>2, <3>1, <3>2 DEF Depth
        <3> QED BY <2>2, <3>1, <3>3, TakeKeepsInv DEF Goto, Count
    <2> QED BY <1>6, <2>1, <2>2 DEF LockLoop
<1>7. CASE CondReturn(t)
    <2>1. CASE /\ owner = NoThread
               /\ owner' = t
               /\ recursive' = Depth(depth[t])
               /\ Count(t, depth[t] + 1)
               /\ depth' = [depth EXCEPT ![t] = 0]
               /\ Goto(t, "free")
               /\ UNCHANGED <<first, wait>>
        <3>1. (recursive < 0 => depth[t] = 0) /\ depth[t] \in 0 .. MaxDepth
            BY <1>0 DEF MutexInv, MutexAux, MutexTypeOK
        <3>2. /\ recursive' \in -1 .. MaxDepth /\ (recursive < 0 <=> recursive' < 0)
              /\ depth[t] + 1 = IF recursive' < 0 THEN 1 ELSE recursive' + 1
            BY <1>c, <2>1, <3>1 DEF Depth
        <3> QED BY <1>7, <2>1, <3>2, TakeKeepsInv DEF CondReturn, Goto, Count
    <2>2. CASE Enqueue(t, "relock") /\ UNCHANGED depth
        BY <1>0, <1>7, <2>2, EnqueueKeepsInv DEF CondReturn
    <2> QED BY <1>7, <2>1, <2>2 DEF CondReturn
<1>8. CASE SpuriousWakeup(t)
    BY <1>0, <1>8, FlagsKeepInv DEF SpuriousWakeup, MutexTypeOK
<1>9. CASE UNCHANGED mutexVars
    BY <1>0, <1>9, FlagsKeepInv DEF mutexVars, MutexTypeOK
<1> QED
    BY <1>1, <1>2, <1>3, <1>4, <1>5, <1>6, <1>7, <1>8, <1>9 DEF MutexStep, Resume

-----------------------------------------------------------------------------
(* The event queue *)

\* Counting threads.
LEMMA CountThreads ==
    ASSUME NEW A \in SUBSET Threads, NEW B \in SUBSET Threads
    PROVE  /\ Cardinality(A) \in Nat /\ Cardinality(B) \in Nat
           /\ A \subseteq B => Cardinality(A) <= Cardinality(B)
           /\ \A x : A \ {x} \subseteq B => Cardinality(A) - 1 <= Cardinality(B)
           /\ \A x : A \subseteq B /\ x \in B \ A => Cardinality(A) + 1 <= Cardinality(B)
           /\ \A x, y : A \ {x} \subseteq B /\ y \in B \ A => Cardinality(A) <= Cardinality(B)
<1>1. \A X \in SUBSET Threads : IsFiniteSet(X) /\ Cardinality(X) \in Nat
    BY EventQueueAssumption, FS_Subset, FS_CardinalityType
<1>2. \A X, Y \in SUBSET Threads : X \subseteq Y => Cardinality(X) <= Cardinality(Y)
    BY <1>1, FS_Subset
<1>3. \A X \in SUBSET Threads : \A x : Cardinality(X \ {x}) >= Cardinality(X) - 1
    <2> TAKE X \in SUBSET Threads
    <2> TAKE x
    <2>1. Cardinality(X \ {x}) = IF x \in X THEN Cardinality(X) - 1 ELSE Cardinality(X)
        BY <1>1, FS_RemoveElement
    <2>2. Cardinality(X) \in Nat
        BY <1>1
    <2> QED BY <2>1, <2>2
<1>4. \A X \in SUBSET Threads : \A x : x \notin X =>
          Cardinality(X \cup {x}) = Cardinality(X) + 1
    BY <1>1, FS_AddElement
<1>5. ASSUME NEW x, A \ {x} \subseteq B PROVE Cardinality(A) - 1 <= Cardinality(B)
    <2>1. Cardinality(A \ {x}) <= Cardinality(B)
        BY <1>2, <1>5
    <2>2. Cardinality(A \ {x}) >= Cardinality(A) - 1 /\ Cardinality(A \ {x}) \in Nat
        BY <1>1, <1>3
    <2> QED BY <1>1, <2>1, <2>2
<1>6. ASSUME NEW x, A \subseteq B, x \in B \ A
      PROVE  Cardinality(A) + 1 <= Cardinality(B)
    <2>1. Cardinality(A \cup {x}) <= Cardinality(B)
        BY <1>2, <1>6
    <2> QED BY <1>1, <1>4, <1>6, <2>1
<1>7. ASSUME NEW x, NEW y, A \ {x} \subseteq B, y \in B \ A
      PROVE  Cardinality(A) <= Cardinality(B)
    <2>1. Cardinality((A \ {x}) \cup {y}) <= Cardinality(B)
        BY <1>2, <1>7
    <2>2. Cardinality((A \ {x}) \cup {y}) = Cardinality(A \ {x}) + 1
        BY <1>4, <1>7
    <2>3. Cardinality(A \ {x}) >= Cardinality(A) - 1 /\ Cardinality(A \ {x}) \in Nat
        BY <1>1, <1>3
    <2> QED BY <1>1, <2>1, <2>2, <2>3
<1> QED BY <1>1, <1>2, <1>5, <1>6, <1>7

\* The threads that will deal with an event: runners that will look at the
\* list, and posters that will signal.
Caring == Coming \cup {t \in Posters : at[t] = "signal"}

\* A thread asleep on the condition variable is a runner inside its loop.
SleepersLoop == \A t \in Threads : condWait[t] => t \in Runners /\ at[t] = "loop"

\* A step of t that does not change who is asleep, and takes t neither out
\* of the loop nor away from a signal, leaves no event uncared for.
LEMMA MoveKeepsQueue ==
    ASSUME RunnersNotForgotten, SleepersLoop, NEW t \in Threads,
           at' \in [Threads -> Places], \A u \in Threads : u # t => at'[u] = at[u],
           at'[t] # at[t] => at[t] \notin {"loop", "signal"},
           events' \in Seq(Posters), Len(events') <= Len(events),
           UNCHANGED <<cond, condWait>>
    PROVE  RunnersNotForgotten' /\ SleepersLoop'
<1> USE EventQueueAssumption
<1>1. SleepersLoop'
    BY DEF SleepersLoop
<1>2. Caring \in SUBSET Threads /\ Caring' \in SUBSET Threads /\ Caring \subseteq Caring'
    BY DEF Caring, Coming
<1>3. Cardinality(Caring) <= Cardinality(Caring') /\ Cardinality(Caring) \in Nat
      /\ Cardinality(Caring') \in Nat
    BY <1>2, CountThreads
<1>4. Len(events) \in Nat /\ Len(events') \in Nat
    BY LenProperties DEF RunnersNotForgotten, QueueTypeOK
<1>5. cond # <<>> => Len(events) <= Cardinality(Caring)
    BY DEF RunnersNotForgotten, Caring
<1>6. cond' # <<>> => Len(events') <= Cardinality(Caring')
    BY <1>3, <1>4, <1>5
<1> QED BY <1>1, <1>6 DEF RunnersNotForgotten, QueueTypeOK, Caring

\* Every section of post(), run() and runOne() leaves each pending event with
\* a thread that will deal with it.
LEMMA QueueStepKeepsQueue ==
    ASSUME MutexInv, RunnersNotForgotten, SleepersLoop, NEW t \in Threads,
           QueueStep(t) \/ (SpuriousWakeup(t) /\ UNCHANGED queueVars)
    PROVE  RunnersNotForgotten' /\ SleepersLoop'
<1> USE EventQueueAssumption
<1>0. /\ events \in Seq(Posters) /\ at \in [Threads -> Places]
      /\ Len(events) \in Nat /\ Len(events) <= Len(events)
      /\ cond # <<>> => Len(events) <= Cardinality(Caring)
    BY LenProperties DEF RunnersNotForgotten, QueueTypeOK, Caring
<1>a. /\ Caring \in SUBSET Threads /\ Caring' \in SUBSET Threads
      /\ Cardinality(Caring) \in Nat /\ Cardinality(Caring') \in Nat
    <2>1. Caring \in SUBSET Threads /\ Caring' \in SUBSET Threads
        BY DEF Caring, Coming
    <2> QED BY <2>1, CountThreads
<1>b. ASSUME events' \in Seq(Posters), at' \in [Threads -> Places],
             cond' # <<>> => Len(events') <= Cardinality(Caring')
      PROVE  RunnersNotForgotten'
    BY <1>b DEF RunnersNotForgotten, QueueTypeOK, Caring
<1>c. ASSUME NEW from \in Places \ {"loop", "signal"}, NEW to \in Places,
             Call(t, from, to), UNCHANGED <<cond, condWait>>
      PROVE  RunnersNotForgotten' /\ SleepersLoop'
    BY <1>0, <1>c, MoveKeepsQueue DEF Call, Move
<1>d. pc[t] = "free" => ~condWait[t]
    BY DEF MutexInv, ListsConsistent
<1>1. ASSUME NEW from \in Places \ {"loop", "signal"}, NEW to \in Places,
             Call(t, from, to),
             pthread_mutex_lock(t) \/ pthread_mutex_unlock(t) \/ UNCHANGED mutexVars
      PROVE  RunnersNotForgotten' /\ SleepersLoop'
    <2>1. UNCHANGED <<cond, condWait>>
        BY <1>1 DEF pthread_mutex_lock, pthread_mutex_unlock, mutexVars
    <2> QED BY <1>1, <1>c, <2>1
<1>2. ASSUME t \in Posters, Move(t, "push", "signal"), events' = Append(events, t),
             UNCHANGED mutexVars
      PROVE  RunnersNotForgotten' /\ SleepersLoop'
    <2>1. /\ at' = [at EXCEPT ![t] = "signal"] /\ at[t] = "push"
          /\ UNCHANGED <<cond, condWait>>
        BY <1>2 DEF Move, mutexVars
    <2>2. events' \in Seq(Posters) /\ Len(events') = Len(events) + 1
        BY <1>0, <1>2, AppendProperties
    <2>3. Caring \subseteq Caring' /\ t \in Caring' \ Caring
        BY <1>0, <1>2, <2>1 DEF Caring, Coming, Places
    <2>4. Cardinality(Caring) + 1 <= Cardinality(Caring')
        BY <1>a, <2>3, CountThreads
    <2>5. RunnersNotForgotten'
        <3>1. at' \in [Threads -> Places]
            BY <1>0, <2>1 DEF Places
        <3>2. cond' # <<>> => Len(events') <= Cardinality(Caring')
            BY <1>0, <1>a, <2>1, <2>2, <2>4
        <3> QED BY <1>b, <2>2, <3>1, <3>2
    <2> QED BY <1>0, <2>1, <2>5 DEF SleepersLoop
<1>3. ASSUME Call(t, "signal", "unlock"), pthread_cond_signal(t)
      PROVE  RunnersNotForgotten' /\ SleepersLoop'
    <2>1. at' = [at EXCEPT ![t] = "unlock"] /\ at[t] = "signal" /\ events' = events
        BY <1>3 DEF Call, Move
    <2>2. at' \in [Threads -> Places] /\ events' \in Seq(Posters)
        BY <1>0, <2>1 DEF Places
    <2>3. /\ cond \in Seq(Threads) /\ condWait \in [Threads -> BOOLEAN]
          /\ \A u \in Threads : In(cond, u) <=> condWait[u]
        BY DEF MutexInv, ListsConsistent, MutexTypeOK
    <2>4. CASE cond = <<>>
        <3>1. Len(cond) = 0 /\ 0 + 1 = 1
            BY <2>4
        <3>2. cond' = <<>> /\ condWait' = condWait
            <4>1. CondWake(0)
                BY <1>3, <2>4 DEF pthread_cond_signal
            <4>2. cond' = SubSeq(cond, 0 + 1, Len(cond))
                BY <4>1 DEF CondWake
            <4>3. condWait' = condWait
                BY <2>3, <4>1 DEF CondWake
            <4> QED BY <3>1, <4>2, <4>3, SubSeqEmpty
        <3>3. RunnersNotForgotten'
            BY <1>b, <2>2, <3>2
        <3> QED BY <1>0, <2>1, <3>2, <3>3 DEF SleepersLoop
    <2>5. CASE cond # <<>>
        <3>1. CondWake(1)
            BY <1>3, <2>5 DEF pthread_cond_signal
        <3>2. /\ cond[1] \in Threads /\ condWait[cond[1]]
            <4>1. 1 \in DOMAIN cond /\ cond[1] \in Threads
                BY <2>3, <2>5, EmptySeq, LenProperties
            <4> QED BY <2>3, <4>1 DEF In
        <3>3. \A u \in Threads : condWait'[u] <=> condWait[u] /\ u # cond[1]
            <4>1. \A i : i \in 1 .. 1 <=> i = 1
                OBVIOUS
            <4> QED BY <2>3, <3>1, <4>1 DEF CondWake
        <3>4. cond[1] \in Runners /\ at[cond[1]] = "loop" /\ cond[1] # t
            BY <2>1, <3>2 DEF SleepersLoop
        <3>5. SleepersLoop'
            BY <1>0, <2>1, <3>3 DEF SleepersLoop
        <3>6. Caring \ {t} \subseteq Caring'
            BY <1>0, <2>1, <3>3 DEF Caring, Coming
        <3>7. cond[1] \in Caring' \ Caring
            BY <1>0, <2>1, <3>2, <3>3, <3>4 DEF Caring, Coming
        <3>8. Cardinality(Caring) <= Cardinality(Caring')
            BY <1>a, <3>6, <3>7, CountThreads
        <3>9. RunnersNotForgotten'
            BY <1>0, <1>a, <1>b, <2>1, <2>2, <2>5, <3>8
        <3> QED BY <3>5, <3>9
    <2> QED BY <2>4, <2>5
<1>4. ASSUME t \in Runners, events = <<>>, Call(t, "loop", "loop"), pthread_cond_wait(t)
      PROVE  RunnersNotForgotten' /\ SleepersLoop'
    <2>1. at' = at /\ at[t] = "loop" /\ events' = <<>>
        BY <1>0, <1>4 DEF Call, Move
    <2>2. RunnersNotForgotten'
        BY <1>0, <1>a, <1>b, <1>4, <2>1, EmptySeq
    <2>3. \A u \in Threads : condWait'[u] => condWait[u] \/ u = t
        BY <1>4 DEF pthread_cond_wait, MutexInv, ListsConsistent, MutexTypeOK
    <2> QED BY <1>4, <2>1, <2>2, <2>3 DEF SleepersLoop
<1>5. ASSUME NEW from \in {"loop", "one"}, NEW to \in {"unlockRun", "unlockOne"},
             PopFront(t, from, to)
      PROVE  RunnersNotForgotten' /\ SleepersLoop'
    <2>1. /\ at' = [at EXCEPT ![t] = to] /\ at[t] = from
          /\ UNCHANGED <<cond, condWait>> /\ ~condWait[t]
          /\ events # <<>> /\ events' = Tail(events)
        BY <1>5, <1>d DEF PopFront, Move, mutexVars, Holds
    <2>2. events' \in Seq(Posters) /\ Len(events') = Len(events) - 1
        BY <1>0, <2>1, HeadTailProperties
    <2>3. Caring \ {t} \subseteq Caring'
        BY <1>0, <2>1 DEF Caring, Coming
    <2>4. Cardinality(Caring) - 1 <= Cardinality(Caring')
        BY <1>a, <2>3, CountThreads
    <2>5. at' \in [Threads -> Places]
        BY <1>0, <2>1 DEF Places
    <2>6. cond' # <<>> => Len(events') <= Cardinality(Caring')
        BY <1>0, <1>a, <2>1, <2>2, <2>4
    <2>7. RunnersNotForgotten'
        BY <1>b, <2>2, <2>5, <2>6
    <2> QED BY <1>0, <2>1, <2>7 DEF SleepersLoop
<1>6. ASSUME Resume(t) \/ SpuriousWakeup(t), UNCHANGED queueVars
      PROVE  RunnersNotForgotten' /\ SleepersLoop'
    <2>1. UNCHANGED <<cond, condWait>>
        BY <1>6 DEF Resume, LockLoop, CondReturn, SpuriousWakeup
    <2> QED BY <1>0, <1>6, <2>1, MoveKeepsQueue DEF queueVars
<1>7. CASE t \in Posters /\ post(t)
    BY <1>1, <1>2, <1>3, <1>7 DEF post, Places
<1>8. CASE t \in Runners /\ run(t)
    BY <1>1, <1>4, <1>5, <1>8 DEF run, Places
<1>9. CASE t \in Runners /\ runOne(t)
    BY <1>1, <1>5, <1>9 DEF runOne, Places
<1> QED BY <1>6, <1>7, <1>8, <1>9 DEF QueueStep

-----------------------------------------------------------------------------
(* The pool *)

\* Division, for the alignment of a block.
LEMMA ModDef ==
    ASSUME NEW a \in Int, NEW s \in Nat \ {0}
    PROVE  a = s * (a \div s) + (a % s) /\ a % s \in 0 .. s - 1 /\ (a \div s) \in Int
OBVIOUS

LEMMA ModZero == ASSUME NEW s \in Nat \ {0}, NEW q \in Int PROVE (s * q) % s = 0
OBVIOUS

LEMMA ModSmall == ASSUME NEW s \in Nat \ {0}, NEW q \in 0 .. s - 1 PROVE q % s = q
OBVIOUS

LEMMA Factor ==
    ASSUME NEW s \in Nat \ {0}, NEW p \in Int, NEW q \in Int
    PROVE  s * p + s * q = s * (p + q)
OBVIOUS

\* Every position allocate() tries, the first and those a multiple of the size
\* after it, is aligned as an address.
LEMMA ModAligned ==
    ASSUME NEW s \in Nat \ {0}, NEW B \in Nat, NEW i \in Nat,
           NEW st, st = (s - (B % s)) % s, i >= st, (i - st) % s = 0
    PROVE  (B + i) % s = 0 /\ st \in Nat
<1> DEFINE m == B % s
           q == B \div s
<1>1. B \in Int /\ s \in Int /\ s # 0
    OBVIOUS
<1>2. B = s * q + m /\ m \in 0 .. s - 1 /\ q \in Int
    BY <1>1, ModDef
<1>3. st = (s - m) % s
    OBVIOUS
<1> HIDE DEF m, q
<1>4. PICK p \in Int : B + st = s * p /\ st \in Nat
    <2>1. CASE m = 0
        <3>1. st = (s * 1) % s
            BY <1>3, <2>1
        <3>2. st = 0
            BY <3>1, ModZero
        <3> QED BY <1>2, <2>1, <3>2
    <2>2. CASE m # 0
        <3>1. s - m \in 0 .. s - 1
            BY <1>2, <2>2
        <3>2. st = s - m
            BY <1>3, <3>1, ModSmall
        <3>3. B + st = s * q + s * 1
            BY <1>2, <3>2
        <3>4. B + st = s * (q + 1)
            BY <1>2, <3>3, Factor
        <3>5. q + 1 \in Int /\ st \in Nat
            BY <1>2, <3>1, <3>2
        <3> QED BY <3>4, <3>5
    <2> QED BY <2>1, <2>2
<1> DEFINE k == (i - st) \div s
<1>5. i - st = s * k /\ k \in Int
    <2> DEFINE d == i - st
    <2>1. d \in Int /\ d % s = 0
        BY <1>4
    <2> HIDE DEF d
    <2>2. d = s * (d \div s) + (d % s) /\ d \div s \in Int
        BY <2>1, ModDef
    <2>3. d = s * (d \div s) /\ d \div s \in Int
        BY <2>1, <2>2
    <2> QED BY <2>3 DEF d
<1> HIDE DEF k
<1>6. B + i = s * p + s * k
    BY <1>4, <1>5
<1>7. B + i = s * (p + k) /\ p + k \in Int
    BY <1>4, <1>5, <1>6, Factor
<1> QED BY <1>4, <1>7, ModZero

\* A thread inside allocate() has no block yet; inside deallocate() it has one.
JobsMatch ==
    \A t \in Threads :
        /\ image[t] # NoBlock => \A size \in Sizes : job[t] # <<"allocate", size>>
        /\ image[t] = NoBlock => job[t] # Job("deallocate")

\* The map has the images that start in the pool; blocks beyond it may have
\* replaced one another in it.
BlocksMatch ==
    /\ \A t \in Threads : image[t] # NoBlock /\ image[t].start \in Pool
                          => image[t] \in allocatedBlocks
    /\ \A b \in allocatedBlocks : b.start \in Pool => \E t \in Threads : image[t] = b

PoolInv == PoolNotShared /\ JobsMatch /\ BlocksMatch

\* Without remainders the bitmap has the bits of the pool.
LEMMA BitmapIsPool == WholeWords => Bitmap = Pool
<1> SUFFICES ASSUME WholeWords PROVE Bitmap = Pool
    OBVIOUS
<1>1. NumBlocks \in Nat /\ NumBlocks % 32 = 0
    BY PoolAssumption DEF WholeWords
<1>2. 32 * ((NumBlocks \div 8) \div 4) = NumBlocks
    BY <1>1
<1> QED BY <1>2 DEF Bitmap, Pool

\* The places are different.
LEMMA JobsDistinct ==
    /\ \A size \in Sizes : /\ <<"allocate", size>> \in Jobs
                           /\ <<"allocate", size>> # Job("idle")
                           /\ <<"allocate", size>> # Job("unlock")
                           /\ <<"allocate", size>> # Job("deallocate")
    /\ Job("idle") # Job("unlock") /\ Job("deallocate") # Job("unlock")
    /\ Job("idle") # Job("deallocate")
    /\ {Job("idle"), Job("unlock"), Job("deallocate")} \subseteq Jobs
BY DEF Job, Jobs

\* A block contains its first bit, and none before it.
LEMMA BlockNotEmpty ==
    ASSUME NEW b \in [start : Nat, size : Sizes]
    PROVE  /\ b.start \in BitsOf(b) /\ b # NoBlock
           /\ b.start \in Nat /\ b.size \in Sizes
           /\ b.start \notin Pool => BitsOf(b) \cap Pool = {}
<1>1. b.start \in Nat /\ b.size \in 1 .. NumBlocks /\ NumBlocks \in Nat
    BY PoolAssumption
<1>2. b \in [start : Nat, size : Nat]
    BY <1>1
<1>3. b # NoBlock
    BY <1>2, PoolAssumption
<1>4. b.start \in BitsOf(b)
    BY <1>1 DEF BitsOf
<1>5. b.start \notin Pool => BitsOf(b) \cap Pool = {}
    BY <1>1 DEF BitsOf, Pool
<1> QED BY <1>1, <1>3, <1>4, <1>5

\* The bits set are those in use.
LEMMA BitsInUse ==
    ASSUME PoolInv, WholeWords
    PROVE  /\ \A k \in Pool : k \in bitmap <=> \E t \in Threads : k \in InUse(t)
           /\ bitmap \subseteq Pool /\ Bitmap = Pool
BY BitmapIsPool DEF PoolInv, PoolNotShared, PoolTypeOK

\* A step that only moves a thread between the sections.
LEMMA JobGotoKeepsPool ==
    ASSUME PoolInv, NEW t \in Threads, NEW from, NEW to \in Jobs, JobGoto(t, from, to),
           image[t] # NoBlock => \A size \in Sizes : to # <<"allocate", size>>,
           image[t] = NoBlock => to # Job("deallocate"),
           UNCHANGED <<bitmap, allocatedBlocks, image>>
    PROVE  PoolInv'
<1>1. job' \in [Threads -> Jobs]
    BY DEF PoolInv, PoolNotShared, PoolTypeOK, JobGoto
<1>2. JobsMatch'
    BY DEF JobGoto, JobsMatch, PoolInv, PoolNotShared, PoolTypeOK
<1>3. PoolTypeOK'
    BY <1>1 DEF PoolInv, PoolNotShared, PoolTypeOK
<1>4. PoolNotShared' /\ BlocksMatch'
    BY <1>3 DEF PoolInv, PoolNotShared, BlocksMatch, InUse
<1> QED BY <1>2, <1>4 DEF PoolInv

\* allocate() marks a block whose bits are found clear: it meets no image in
\* the pool.
LEMMA AllocateKeepsPool ==
    ASSUME PoolInv, WholeWords, NEW t \in Threads, NEW size \in Sizes,
           JobGoto(t, <<"allocate", size>>, Job("unlock")),
           NEW i \in Positions(size), LooksFree(Block(i, size)),
           bitmap' = bitmap \cup (BitsOf(Block(i, size)) \cap Bitmap),
           allocatedBlocks' = {b \in allocatedBlocks : b.start # i} \cup {Block(i, size)},
           image' = [image EXCEPT ![t] = Block(i, size)]
    PROVE  PoolInv'
<1> DEFINE b == Block(i, size)
<1>1. /\ size \in 1 .. NumBlocks /\ size \in Nat \ {0} /\ NumBlocks \in Nat /\ Base \in Nat
    BY PoolAssumption
<1>2. /\ PoolTypeOK /\ image[t] = NoBlock
      /\ job[t] = <<"allocate", size>> /\ job' = [job EXCEPT ![t] = Job("unlock")]
    BY DEF PoolInv, PoolNotShared, JobsMatch, JobGoto
<1>3. i \in Nat /\ (Base + i) % size = 0
    <2> DEFINE st == (size - (Base % size)) % size
    <2>1. i \in st .. NumBlocks /\ (i - st) % size = 0
        BY DEF Positions
    <2>2. st \in Nat
        BY <1>1
    <2>3. i \in Nat /\ i >= st /\ i <= NumBlocks
        BY <1>1, <2>1, <2>2
    <2> HIDE DEF st
    <2>4. (Base + i) % size = 0
        BY <1>1, <2>1, <2>3, ModAligned DEF st
    <2> QED BY <1>1, <2>3, <2>4
<1>4. /\ b \in [start : Nat, size : Sizes]
      /\ b.start = i /\ b.size = size
      /\ BitsOf(b) \cap bitmap = {}
    BY <1>3 DEF Block, LooksFree
<1>5. /\ b.start \in BitsOf(b) /\ b # NoBlock
      /\ b.start \notin Pool => BitsOf(b) \cap Pool = {}
    BY <1>4, BlockNotEmpty
<1>6. /\ bitmap' = bitmap \cup (BitsOf(b) \cap Pool) /\ image' = [image EXCEPT ![t] = b]
      /\ allocatedBlocks' = {c \in allocatedBlocks : c.start # i} \cup {b}
    BY BitsInUse
<1> HIDE DEF b
<1>7. \A u \in Threads : image'[u] = IF u = t THEN b ELSE image[u]
    BY <1>2, <1>6 DEF PoolTypeOK
<1>8. PoolTypeOK'
    BY <1>2, <1>4, <1>6, JobsDistinct, BitsInUse DEF PoolTypeOK
<1>9. \A u \in Threads : InUse(u)' = IF u = t THEN BitsOf(b) ELSE InUse(u)
    BY <1>5, <1>7 DEF InUse
<1>10. InUse(t) = {} /\ \A u \in Threads : InUse(u) \cap BitsOf(b) \cap Pool = {}
    BY <1>2, <1>4, BitsInUse DEF InUse
<1>11. \A u, v \in Threads : u # v => InUse(u)' \cap InUse(v)' \cap Pool = {}
    BY <1>9, <1>10 DEF PoolInv, PoolNotShared
<1>12. \A u \in Threads : image'[u] # NoBlock => (Base + image'[u].start) % image'[u].size = 0
    BY <1>3, <1>4, <1>7 DEF PoolInv, PoolNotShared
<1>13. \A k \in Pool : k \in bitmap' <=> \E u \in Threads : k \in InUse(u)'
    BY <1>6, <1>9, <1>10, BitsInUse
<1>14. PoolNotShared'
    <2>1. Pool' = Pool
        BY DEF Pool
    <2> QED BY <1>8, <1>11, <1>12, <1>13, <2>1 DEF PoolNotShared
<1>15. BlocksMatch'
    <2>1. Pool' = Pool
        BY DEF Pool
    <2>2. ASSUME NEW u \in Threads, image'[u] # NoBlock, image'[u].start \in Pool
          PROVE  image'[u] \in allocatedBlocks'
        <3>1. CASE u = t
            BY <1>6, <1>7, <3>1
        <3>2. CASE u # t
            <4>1. image'[u] = image[u] /\ image[u] \in allocatedBlocks
                BY <1>7, <2>2, <3>2 DEF PoolInv, BlocksMatch
            <4>2. image[u].start \in InUse(u)
                BY <1>2, <2>2, <4>1, BlockNotEmpty DEF PoolTypeOK, InUse
            <4>3. image[u].start # i
                BY <1>4, <1>5, <1>10, <2>2, <4>1, <4>2
            <4> QED BY <1>6, <4>1, <4>3
        <3> QED BY <3>1, <3>2
    <2>3. ASSUME NEW c \in allocatedBlocks', c.start \in Pool
          PROVE  \E u \in Threads : image'[u] = c
        <3>1. CASE c = b
            BY <1>7, <3>1
        <3>2. CASE c # b
            <4>1. c \in allocatedBlocks
                BY <1>6, <2>3, <3>2
            <4>2. PICK u \in Threads : image[u] = c
                BY <2>3, <4>1 DEF PoolInv, BlocksMatch
            <4>3. c # NoBlock
                BY <1>2, <4>1, BlockNotEmpty DEF PoolTypeOK
            <4> QED BY <1>2, <1>7, <4>2, <4>3
        <3> QED BY <3>1, <3>2
    <2> QED BY <2>1, <2>2, <2>3 DEF BlocksMatch
<1>16. JobsMatch'
    <2>1. \A u \in Threads : job'[u] = IF u = t THEN Job("unlock") ELSE job[u]
        BY <1>2 DEF PoolTypeOK
    <2> QED BY <1>7, <2>1, JobsDistinct DEF PoolInv, JobsMatch
<1> QED BY <1>14, <1>15, <1>16 DEF PoolInv

\* deallocate() clears the bits of the pool that its own block has, and no
\* other: the block found under its start is its own, if it is in the pool.
LEMMA DeallocateKeepsPool ==
    ASSUME PoolInv, WholeWords, NEW t \in Threads,
           JobGoto(t, Job("deallocate"), Job("unlock")),
           \/ \E b \in allocatedBlocks :
                 /\ b.start = image[t].start
                 /\ bitmap' = bitmap \ BitsOf(b)
                 /\ allocatedBlocks' = allocatedBlocks \ {b}
           \/ /\ \A b \in allocatedBlocks : b.start # image[t].start
              /\ UNCHANGED <<bitmap, allocatedBlocks>>,
           image' = [image EXCEPT ![t] = NoBlock]
    PROVE  PoolInv'
<1>1. /\ PoolTypeOK /\ image[t] # NoBlock
      /\ job' = [job EXCEPT ![t] = Job("unlock")]
    BY DEF PoolInv, PoolNotShared, JobsMatch, JobGoto
<1>2. \A u \in Threads : image'[u] = IF u = t THEN NoBlock ELSE image[u]
    BY <1>1 DEF PoolTypeOK
<1>3. PICK m : m = image[t]
    OBVIOUS
<1>4. /\ m \in [start : Nat, size : Sizes] /\ m.start \in BitsOf(m) /\ InUse(t) = BitsOf(m)
      /\ m.start \notin Pool => BitsOf(m) \cap Pool = {}
    BY <1>1, <1>3, BlockNotEmpty DEF PoolTypeOK, InUse
<1>5. \A b \in allocatedBlocks : b.start = m.start /\ m.start \in Pool => b = m
    <2> SUFFICES ASSUME NEW b \in allocatedBlocks, b.start = m.start, m.start \in Pool
                 PROVE  b = m
        OBVIOUS
    <2>1. PICK u \in Threads : image[u] = b
        BY DEF PoolInv, BlocksMatch
    <2>2. b.start \in InUse(u)
        BY <1>1, <2>1, BlockNotEmpty DEF PoolTypeOK, InUse
    <2>3. u = t
        BY <1>4, <2>2 DEF PoolInv, PoolNotShared
    <2> QED BY <1>3, <2>1, <2>3
<1>6. /\ bitmap' \subseteq bitmap
      /\ \A k \in Pool : k \in bitmap' <=> k \in bitmap /\ k \notin BitsOf(m)
      /\ allocatedBlocks' \subseteq allocatedBlocks
      /\ \A c \in allocatedBlocks : c.start \in Pool => (c \in allocatedBlocks' <=> c # m)
    <2>1. ASSUME NEW b \in allocatedBlocks, b.start = m.start, bitmap' = bitmap \ BitsOf(b),
                 allocatedBlocks' = allocatedBlocks \ {b}
          PROVE  /\ bitmap' \subseteq bitmap
                 /\ \A k \in Pool : k \in bitmap' <=> k \in bitmap /\ k \notin BitsOf(m)
                 /\ allocatedBlocks' \subseteq allocatedBlocks
                 /\ \A c \in allocatedBlocks : c.start \in Pool => (c \in allocatedBlocks' <=> c # m)
        <3>1. CASE m.start \in Pool
            BY <1>5, <2>1, <3>1
        <3>2. CASE m.start \notin Pool
            <4>1. BitsOf(b) \cap Pool = {}
                BY <1>1, <2>1, <3>2, BlockNotEmpty DEF PoolTypeOK
            <4> QED BY <1>4, <2>1, <3>2, <4>1
        <3> QED BY <3>1, <3>2
    <2>2. CASE /\ \A b \in allocatedBlocks : b.start # m.start
               /\ UNCHANGED <<bitmap, allocatedBlocks>>
        <3>1. m.start \notin Pool
            BY <1>1, <1>3, <2>2 DEF PoolInv, BlocksMatch
        <3> QED BY <1>4, <2>2, <3>1
    <2> QED BY <1>3, <2>1, <2>2
<1>7. PoolTypeOK'
    <2>1. image' \in [Threads -> [start : Nat, size : Sizes] \cup {NoBlock}]
        BY <1>1 DEF PoolTypeOK
    <2>2. job' \in [Threads -> Jobs]
        BY <1>1, JobsDistinct DEF PoolTypeOK
    <2> QED BY <1>1, <1>6, <2>1, <2>2 DEF PoolTypeOK
<1>8. \A u \in Threads : InUse(u)' = IF u = t THEN {} ELSE InUse(u)
    BY <1>2 DEF InUse
<1>9. \A k \in Pool : k \in bitmap' <=> \E u \in Threads : k \in InUse(u)'
    <2>1. \A u \in Threads : u # t => InUse(u) \cap BitsOf(m) \cap Pool = {}
        BY <1>4 DEF PoolInv, PoolNotShared
    <2> QED BY <1>4, <1>6, <1>8, <2>1, BitsInUse
<1>10. PoolNotShared'
    <2>1. Pool' = Pool
        BY DEF Pool
    <2>3. \A u, v \in Threads : u # v => InUse(u)' \cap InUse(v)' \cap Pool = {}
        BY <1>8 DEF PoolInv, PoolNotShared
    <2>4. \A u \in Threads : image'[u] # NoBlock => (Base + image'[u].start) % image'[u].size = 0
        BY <1>2 DEF PoolInv, PoolNotShared
    <2> QED BY <1>7, <1>9, <2>1, <2>3, <2>4 DEF PoolNotShared
<1>11. BlocksMatch'
    <2>1. Pool' = Pool
        BY DEF Pool
    <2>2. ASSUME NEW u \in Threads, image'[u] # NoBlock, image'[u].start \in Pool
          PROVE  image'[u] \in allocatedBlocks'
        <3>1. u # t /\ image'[u] = image[u] /\ image[u] \in allocatedBlocks
            BY <1>2, <2>2 DEF PoolInv, BlocksMatch
        <3>2. image[u].start \in InUse(u)
            BY <1>1, <2>2, <3>1, BlockNotEmpty DEF PoolTypeOK, InUse
        <3>3. image[u] # m
            BY <1>4, <2>2, <3>1, <3>2 DEF PoolInv, PoolNotShared
        <3> QED BY <1>6, <2>2, <3>1, <3>3
    <2>3. ASSUME NEW c \in allocatedBlocks', c.start \in Pool
          PROVE  \E u \in Threads : image'[u] = c
        <3>1. c \in allocatedBlocks /\ c # m
            BY <1>6, <2>3
        <3>2. PICK u \in Threads : image[u] = c
            BY <2>3, <3>1 DEF PoolInv, BlocksMatch
        <3> QED BY <1>2, <1>3, <3>1, <3>2
    <2> QED BY <2>1, <2>2, <2>3 DEF BlocksMatch
<1>12. JobsMatch'
    <2>1. \A u \in Threads : job'[u] = IF u = t THEN Job("unlock") ELSE job[u]
        BY <1>1 DEF PoolTypeOK
    <2> QED BY <1>2, <2>1, JobsDistinct DEF PoolInv, JobsMatch
<1> QED BY <1>10, <1>11, <1>12 DEF PoolInv

\* Every section of allocate() and deallocate().
LEMMA PoolStepKeepsPool ==
    ASSUME PoolInv, WholeWords, NEW t \in Threads, PoolStep(t)
    PROVE  PoolInv'
<1>1. ASSUME NEW size \in Sizes, allocate(t, size) PROVE PoolInv'
    <2>1. CASE image[t] = NoBlock /\ JobGoto(t, Job("idle"), <<"allocate", size>>)
               /\ UNCHANGED <<bitmap, allocatedBlocks, image>>
        BY <2>1, JobsDistinct, JobGotoKeepsPool
    <2>2. ASSUME JobGoto(t, <<"allocate", size>>, Job("unlock")),
                 NEW i \in Positions(size), LooksFree(Block(i, size)),
                 bitmap' = bitmap \cup (BitsOf(Block(i, size)) \cap Bitmap),
                 allocatedBlocks' = {b \in allocatedBlocks : b.start # i}
                                    \cup {Block(i, size)},
                 image' = [image EXCEPT ![t] = Block(i, size)]
          PROVE  PoolInv'
        BY <2>2, AllocateKeepsPool
    <2>3. CASE JobGoto(t, <<"allocate", size>>, Job("unlock"))
               /\ UNCHANGED <<bitmap, allocatedBlocks, image>>
        BY <2>3, JobsDistinct, JobGotoKeepsPool
    <2> QED BY <1>1, <2>1, <2>2, <2>3 DEF allocate
<1>2. CASE deallocate(t)
    <2>1. CASE image[t] # NoBlock /\ JobGoto(t, Job("idle"), Job("deallocate"))
               /\ UNCHANGED <<bitmap, allocatedBlocks, image>>
        BY <2>1, JobsDistinct, JobGotoKeepsPool
    <2> QED BY <1>2, <2>1, DeallocateKeepsPool DEF deallocate
<1>3. CASE JobGoto(t, Job("unlock"), Job("idle"))
           /\ UNCHANGED <<bitmap, allocatedBlocks, image>>
    BY <1>3, JobsDistinct, JobGotoKeepsPool
<1>4. CASE UNCHANGED poolVars
    BY <1>4 DEF poolVars, PoolInv, PoolNotShared, PoolTypeOK, JobsMatch, BlocksMatch, InUse
<1> QED BY <1>1, <1>2, <1>3, <1>4 DEF PoolStep

-----------------------------------------------------------------------------
(* The applications *)

\* All the invariants together.  The event queue is used by its own
\* application only.
PthreadInv ==
    /\ app \in Apps
    /\ MutexInv
    /\ OnceInv
    /\ RunnersNotForgotten
    /\ app = "events" => SleepersLoop
    /\ app # "events" => events = <<>>
    /\ WholeWords => PoolInv

LEMMA PthreadInit == Init => PthreadInv
<1> SUFFICES ASSUME Init PROVE PthreadInv
    OBVIOUS
<1> USE FastMutexAssumption, PoolAssumption, EventQueueAssumption
<1>0. PICK type \in {-1, 0} : MutexInit(type)
    BY DEF Init
<1>1. MutexInv
    <2>1. /\ owner = NoThread /\ recursive = type /\ first = <<>> /\ cond = <<>>
          /\ \A t \in Threads : /\ ~wait[t] /\ ~condWait[t] /\ pc[t] = "free"
                                /\ depth[t] = 0 /\ held[t] = 0
        BY <1>0 DEF MutexInit
    <2>2. MutexTypeOK
        BY <1>0 DEF MutexInit, MutexTypeOK
    <2>3. DOMAIN <<>> = {}
        OBVIOUS
    <2>4. ListsConsistent
        BY <2>1, <2>2, <2>3 DEF ListsConsistent, In
    <2>5. CallsMatchOwnership
        BY <2>1 DEF CallsMatchOwnership, Holds
    <2>6. MutexAux
        BY <2>1 DEF MutexAux
    <2> QED BY <2>4, <2>5, <2>6 DEF MutexInv
<1>2. OnceInv
    BY DEF Init, OnceInv, OnceCompleted, OnceTypeOK
<1>3. RunnersNotForgotten
    <2>1. QueueTypeOK
        BY DEF Init, QueueInit, QueueTypeOK, Places
    <2>2. cond = <<>>
        BY <1>0 DEF MutexInit
    <2> QED BY <2>1, <2>2 DEF RunnersNotForgotten
<1>4. SleepersLoop
    BY <1>0 DEF MutexInit, SleepersLoop
<1>5. PoolInv
    <2>1. /\ bitmap = {} /\ allocatedBlocks = {}
          /\ \A t \in Threads : image[t] = NoBlock /\ job[t] = Job("idle")
        BY DEF Init, PoolInit
    <2>2. PoolTypeOK
        BY <2>1, JobsDistinct DEF Init, PoolInit, PoolTypeOK
    <2>3. PoolNotShared
        BY <2>1, <2>2 DEF PoolNotShared, InUse
    <2>4. JobsMatch /\ BlocksMatch
        BY <2>1, JobsDistinct DEF JobsMatch, BlocksMatch
    <2> QED BY <2>3, <2>4 DEF PoolInv
<1> QED BY <1>1, <1>2, <1>3, <1>4, <1>5 DEF PthreadInv, Init, QueueInit

\* Without an event there is nothing for a runner to miss, whatever happens
\* to the condition variable.
LEMMA NoEventsKept ==
    ASSUME RunnersNotForgotten, events = <<>>, UNCHANGED queueVars
    PROVE  RunnersNotForgotten'
<1>1. QueueTypeOK' /\ events' = <<>>
    BY DEF RunnersNotForgotten, QueueTypeOK, queueVars
<1>2. Coming' \cup {t \in Posters : at'[t] = "signal"} \in SUBSET Threads
    BY EventQueueAssumption DEF Coming
<1>3. Cardinality(Coming' \cup {t \in Posters : at'[t] = "signal"}) \in Nat
    BY <1>2, CountThreads
<1>4. Len(events') = 0
    BY <1>1
<1> QED BY <1>1, <1>3, <1>4 DEF RunnersNotForgotten

LEMMA PthreadStep == PthreadInv /\ [Next]_vars => PthreadInv'
<1> SUFFICES ASSUME PthreadInv, [Next]_vars PROVE PthreadInv'
    OBVIOUS
<1> USE DEF PthreadInv
<1>a. ASSUME UNCHANGED onceVars PROVE OnceInv'
    BY <1>a DEF onceVars, OnceInv, OnceCompleted, OnceTypeOK
<1>b. ASSUME UNCHANGED poolVars PROVE WholeWords => PoolInv'
    BY <1>b DEF poolVars, PoolInv, PoolNotShared, PoolTypeOK, JobsMatch, BlocksMatch, InUse
<1>c. ASSUME NEW t \in Threads, MutexStep(t) PROVE MutexInv'
    BY <1>c, MutexStepKeepsInv
<1>d. ASSUME app # "events", UNCHANGED <<app, queueVars>>
      PROVE  RunnersNotForgotten' /\ app' # "events" /\ events' = <<>> /\ app' \in Apps
    BY <1>d, NoEventsKept DEF queueVars
<1>1. ASSUME NEW t \in Threads, MutexApp(UserStep(t)) \/ MutexApp(SpuriousWakeup(t))
      PROVE  PthreadInv'
    <2>1. /\ MutexStep(t) /\ UNCHANGED <<app, queueVars, poolVars, onceVars>> /\ app # "events"
        BY <1>1 DEF MutexApp, UserStep, MutexStep
    <2> QED BY <1>a, <1>b, <1>c, <1>d, <2>1
<1>2. ASSUME NEW t \in Threads, EventsApp(QueueStep(t))
                                \/ EventsApp(SpuriousWakeup(t) /\ UNCHANGED queueVars)
      PROVE  PthreadInv'
    <2>1. /\ QueueStep(t) \/ (SpuriousWakeup(t) /\ UNCHANGED queueVars)
          /\ UNCHANGED <<app, poolVars, onceVars>> /\ app = "events"
        BY <1>2 DEF EventsApp
    <2>2. MutexStep(t)
        BY <2>1 DEF QueueStep, post, run, runOne, PopFront, MutexStep
    <2>3. RunnersNotForgotten' /\ SleepersLoop'
        BY <2>1, QueueStepKeepsQueue
    <2> QED BY <1>a, <1>b, <1>c, <2>1, <2>2, <2>3
<1>3. ASSUME NEW t \in Threads, PoolApp(t \in Users /\ PoolStep(t)) PROVE PthreadInv'
    <2>1. PoolStep(t) /\ UNCHANGED <<app, queueVars, onceVars>> /\ app # "events"
        BY <1>3 DEF PoolApp
    <2>2. MutexStep(t)
        BY <2>1 DEF PoolStep, allocate, deallocate, MutexStep
    <2>3. WholeWords => PoolInv'
        BY <2>1, PoolStepKeepsPool
    <2> QED BY <1>a, <1>c, <1>d, <2>1, <2>2, <2>3
<1>4. ASSUME NEW t \in Threads,
             \/ OnceApp(t \in Users /\ pthread_once(t))
             \/ OnceApp(FuncThrows(t)) \/ OnceApp(FuncReturns(t))
      PROVE  PthreadInv'
    <2>1. /\ pthread_once(t) \/ FuncThrows(t) \/ FuncReturns(t)
          /\ UNCHANGED <<app, mutexVars, queueVars, poolVars>> /\ app # "events"
        BY <1>4 DEF OnceApp
    <2>2. OnceInv'
        BY <2>1, OnceStep
    <2>3. MutexStep(t)
        BY <2>1 DEF MutexStep
    <2> QED BY <1>b, <1>c, <1>d, <2>1, <2>2, <2>3
<1>5. CASE UNCHANGED vars
    <2>1. UNCHANGED <<app, mutexVars, queueVars, poolVars, onceVars>>
        BY <1>5 DEF vars
    <2>2. MutexInv'
        BY <2>1 DEF mutexVars, MutexInv, ListsConsistent, MutexTypeOK, CallsMatchOwnership,
                    MutexAux, Holds, In
    <2>3. RunnersNotForgotten' /\ (SleepersLoop => SleepersLoop') /\ events' = events
        BY <2>1 DEF queueVars, mutexVars, RunnersNotForgotten, QueueTypeOK, Coming, SleepersLoop
    <2> QED BY <1>a, <1>b, <2>1, <2>2, <2>3
<1> QED BY <1>1, <1>2, <1>3, <1>4, <1>5 DEF Next

\* The invariant of the composition, from which the theorems below follow.
THEOREM PthreadInvariant == Spec => []PthreadInv
<1> QED BY PthreadInit, PthreadStep, PTL DEF Spec

\* The lists of the mutex and of the condition variable hold, once each, the
\* threads blocked in their loops, whose stack frames the nodes are; a free
\* mutex has nobody waiting and a new owner is awake, for any number of
\* threads, whatever they call and whenever the kernel wakes them.
THEOREM PthreadLists == Spec => []ListsConsistent
<1>1. PthreadInv => ListsConsistent
    BY DEF PthreadInv, MutexInv
<1> QED BY <1>1, PthreadInvariant, PTL

\* Mutual exclusion: a thread that has locked the mutex more often than it
\* has unlocked it is its only owner, at the depth its calls say, also after
\* pthread_cond_wait() has given the mutex up and taken it back.
THEOREM PthreadOwnership == Spec => []CallsMatchOwnership
<1>1. PthreadInv => CallsMatchOwnership
    BY DEF PthreadInv, MutexInv
<1> QED BY <1>1, PthreadInvariant, PTL

\* As long as a runner of the event queue sleeps, every posted event has a
\* thread that will deal with it: post() never signals too few.
THEOREM EventQueueNotForgotten == Spec => []RunnersNotForgotten
<1>1. PthreadInv => RunnersNotForgotten
    BY DEF PthreadInv
<1> QED BY <1>1, PthreadInvariant, PTL

\* Where the bitmap has a bit for every block of the pool, as in the pools of
\* the linker scripts, no part of the pool is given to two processes, images
\* are aligned to their size, and no bit leaks, for every such pool, although
\* allocate() can return blocks that reach beyond its end.
THEOREM ProcessPoolNotShared ==
    ASSUME WholeWords
    PROVE  Spec => []PoolNotShared
<1>1. PthreadInv => PoolNotShared
    BY DEF PthreadInv, PoolInv
<1> QED BY <1>1, PthreadInvariant, PTL

\* pthread_once() returns only after func() has completed, which happens once.
THEOREM PthreadOnce == Spec => []OnceCompleted
<1>1. PthreadInv => OnceCompleted
    BY DEF PthreadInv, OnceInv
<1> QED BY <1>1, PthreadInvariant, PTL
=============================================================================
