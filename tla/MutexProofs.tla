----------------------------- MODULE MutexProofs -----------------------------
(***************************************************************************)
(* Proofs about Mutex, for every set of threads, mutexes and priorities.   *)
(*                                                                         *)
(* The inductive invariant has one part for each group of variables:       *)
(* LinksInv for who owns and who waits, with the heaps; PlacesInv for      *)
(* where each thread is and the condition variable's list; DepthsInv for   *)
(* the depth of recursive locking; SavedInv for the saved priorities.      *)
(***************************************************************************)
EXTENDS Mutex, SequenceTheorems, FiniteSetTheorems, TLAPS

\* The wait of a thread: mutexWaiting is null once the mutex is handed over,
\* until the thread leaves its loop.
LinksInv ==
    /\ owner \in [Mutexes -> Threads \cup {NoThread}]
    /\ waiting \in [Mutexes -> SUBSET Threads]
    /\ front \in [Mutexes -> Threads \cup {NoThread}]
    /\ prio \in [Threads -> Priorities]
    /\ mutexLocked \in [Threads -> SUBSET Mutexes]
    /\ mutexWaiting \in [Threads -> Mutexes \cup {NoMutex}]
    /\ wait \in [Threads -> BOOLEAN]
    /\ target \in [Threads -> Mutexes \cup {NoMutex}]
    /\ \A m \in Mutexes :
         /\ \A t \in Threads : owner[m] = t <=> m \in mutexLocked[t]
         /\ \A t \in Threads : t \in waiting[m] <=> mutexWaiting[t] = m
         /\ waiting[m] # {} => owner[m] \in Threads \ waiting[m]
    /\ \A t \in Threads :
         /\ wait[t] => target[t] # NoMutex /\ mutexWaiting[t] = target[t]
         /\ mutexWaiting[t] # NoMutex => mutexWaiting[t] = target[t]
         /\ target[t] # NoMutex => mutexWaiting[t] = target[t] \/ owner[target[t]] = t
    /\ FrontIsHighest

In(list, t) == \E i \in DOMAIN list : list[i] = t
Once(list) == \A i, j \in DOMAIN list : list[i] = list[j] => i = j

PlacesInv ==
    /\ pc \in [Threads -> Places]
    /\ condWait \in [Threads -> BOOLEAN]
    /\ cond \in Seq(Threads) /\ Once(cond)
    /\ \A t \in Threads :
         /\ condWait[t] <=> In(cond, t)
         /\ condWait[t] => pc[t] = "cond"
         /\ target[t] # NoMutex <=> pc[t] \in {"lock", "relock"}
         /\ pc[t] = "relock" => target[t] = CondMutex

\* How often t has locked m, as the mutex records it.
Recorded(t, m) ==
    IF owner[m] # t THEN 0 ELSE IF recursiveDepth[m] < 0 THEN 1 ELSE recursiveDepth[m] + 1

\* ... and as t's calls say: a call of lock() that has not returned does not
\* count, and wait() counts as if it had never released the mutex.
Counted(t, m) ==
    IF pc[t] = "lock" /\ m = target[t] THEN 0
    ELSE IF pc[t] \in {"cond", "relock"} /\ m = CondMutex THEN depth[t] + 1
    ELSE Recorded(t, m)

DepthsInv ==
    /\ recursiveDepth \in [Mutexes -> -1 .. MaxDepth]
    /\ depth \in [Threads -> 0 .. MaxDepth]
    /\ held \in [Threads -> [Mutexes -> 0 .. MaxDepth + 1]]
    /\ \A m \in Mutexes :
         /\ recursiveDepth[m] < 0 <=> m \notin RecursiveMutexes
         /\ owner[m] = NoThread => recursiveDepth[m] <= 0
         /\ \A t \in Threads : owner[m] = t /\ target[t] = m => recursiveDepth[m] <= 0
    /\ \A t \in Threads :
         /\ pc[t] = "cond" => owner[CondMutex] # t
         /\ CondMutex \notin RecursiveMutexes => depth[t] = 0
         /\ \A m \in Mutexes : held[t][m] = Counted(t, m)

SavedInv ==
    /\ savedPriority \in [Threads -> Priorities]
    /\ base \in [Threads -> Priorities]
    /\ NoPriorityLeak

MutexInv == LinksInv /\ PlacesInv /\ DepthsInv /\ SavedInv

-----------------------------------------------------------------------------
(* The heaps *)

LEMMA TopOf ==
    ASSUME NEW S, NEW pr, NEW f
    PROVE  /\ f \in HeapTops(S, pr) <=>
                 IF S = {} THEN f = NoThread ELSE f \in S /\ \A u \in S : pr[u] <= pr[f]
BY DEF HeapTops

\* Priorities of threads outside a heap do not matter to it.
LEMMA TopKept ==
    ASSUME NEW S, NEW p, NEW q, NEW f \in HeapTops(S, p), \A u \in S : q[u] = p[u]
    PROVE  f \in HeapTops(S, q)
BY TopOf

-----------------------------------------------------------------------------
(* Taking a free mutex *)

LEMMA TakeFreeKeepsLinks ==
    ASSUME LinksInv, NEW t \in Threads, NEW m \in Mutexes, TakeFree(t, m),
           UNCHANGED target
    PROVE  LinksInv'
<1> USE MutexAssumption
<1>1. /\ owner[m] = NoThread /\ owner' = [owner EXCEPT ![m] = t]
      /\ mutexLocked' = [mutexLocked EXCEPT ![t] = @ \cup {m}]
      /\ UNCHANGED <<prio, mutexWaiting, wait, waiting, front>>
    BY DEF TakeFree
<1>2. /\ \A k \in Mutexes : owner'[k] = IF k = m THEN t ELSE owner[k]
      /\ \A u \in Threads : mutexLocked'[u] = IF u = t THEN mutexLocked[t] \cup {m}
                                              ELSE mutexLocked[u]
      /\ owner' \in [Mutexes -> Threads \cup {NoThread}]
      /\ mutexLocked' \in [Threads -> SUBSET Mutexes]
    BY <1>1 DEF LinksInv
<1>3. waiting[m] = {}
    BY <1>1 DEF LinksInv
<1>4. \A k \in Mutexes : /\ \A u \in Threads : owner'[k] = u <=> k \in mutexLocked'[u]
                         /\ waiting'[k] # {} => owner'[k] \in Threads \ waiting'[k]
    BY <1>1, <1>2, <1>3 DEF LinksInv
<1>5. \A u \in Threads : /\ target'[u] # NoMutex => mutexWaiting'[u] = target'[u]
                                                     \/ owner'[target'[u]] = u
    BY <1>1, <1>2 DEF LinksInv
<1>6. FrontIsHighest'
    BY <1>1 DEF LinksInv, FrontIsHighest, HeapTops
<1> QED BY <1>1, <1>2, <1>4, <1>5, <1>6 DEF LinksInv

LEMMA TakeFreeKeepsSaved ==
    ASSUME LinksInv, SavedInv, NEW t \in Threads, NEW m \in Mutexes, TakeFree(t, m),
           UNCHANGED base
    PROVE  SavedInv'
<1>1. /\ \A u \in Threads : mutexLocked'[u] = IF u = t THEN mutexLocked[t] \cup {m}
                                              ELSE mutexLocked[u]
      /\ prio' = prio
    BY DEF TakeFree, LinksInv
<1>2. /\ savedPriority' \in [Threads -> Priorities]
      /\ \A u \in Threads : savedPriority'[u] = IF u = t /\ mutexLocked[t] = {} THEN prio[t]
                                                ELSE savedPriority[u]
    BY DEF TakeFree, LinksInv, SavedInv
<1> QED BY <1>1, <1>2 DEF SavedInv, NoPriorityLeak

-----------------------------------------------------------------------------
(* Waiting for a mutex *)

\* The inheritance loop visits owners of mutexes only.
LEMMA WalkFromOwners ==
    ASSUME LinksInv, NEW m \in Mutexes, owner[m] \in Threads
    PROVE  \A u \in WalkFrom(owner[m]) : u \in Threads /\ mutexLocked[u] # {}
<1> USE MutexAssumption
<1> DEFINE S == {u \in Threads : mutexLocked[u] # {}}
<1>1. owner[m] \in S
    BY DEF LinksInv
<1>2. ASSUME NEW u \in S, mutexWaiting[u] # NoMutex PROVE owner[mutexWaiting[u]] \in S
    <2>0. u \in Threads /\ mutexWaiting[u] \in Mutexes
        BY <1>2 DEF LinksInv
    <2>1. mutexWaiting[u] \in Mutexes /\ u \in waiting[mutexWaiting[u]]
        BY <2>0 DEF LinksInv
    <2>2. owner[mutexWaiting[u]] \in Threads
        BY <2>1 DEF LinksInv
    <2> QED BY <2>1, <2>2 DEF LinksInv
<1>3. S \in SUBSET Threads
    OBVIOUS
<1> HIDE DEF S
<1>4. \A u \in WalkFrom(owner[m]) : u \in S
    BY <1>1, <1>2, <1>3 DEF WalkFrom
<1> QED BY <1>4 DEF S

\* What Enqueue does, thread by thread and mutex by mutex.
LEMMA EnqueueEffect ==
    ASSUME LinksInv, NEW t \in Threads, NEW m \in Mutexes,
           owner[m] \notin {NoThread, t}, target[t] = NoMutex, Enqueue(t, m)
    PROVE  /\ owner' = owner /\ mutexLocked' = mutexLocked
           /\ savedPriority' = savedPriority
           /\ waiting' \in [Mutexes -> SUBSET Threads]
           /\ \A k \in Mutexes, u \in Threads :
                 u \in waiting'[k] <=> u \in waiting[k] \/ (k = m /\ u = t)
           /\ mutexWaiting' \in [Threads -> Mutexes \cup {NoMutex}]
           /\ \A u \in Threads : mutexWaiting'[u] = IF u = t THEN m ELSE mutexWaiting[u]
           /\ wait' \in [Threads -> BOOLEAN]
           /\ \A u \in Threads : wait'[u] <=> wait[u] \/ u = t
           /\ prio' \in [Threads -> Priorities]
           /\ \A u \in Threads : prio'[u] # prio[u] => prio'[u] = prio[t] /\ mutexLocked[u] # {}
           /\ front' \in [Mutexes -> Threads \cup {NoThread}]
           /\ FrontIsHighest'
<1> USE MutexAssumption
<1> DEFINE boosted == IF prio[owner[m]] < prio[t] THEN WalkFrom(owner[m]) ELSE {}
           top     == IF waiting[m] = {} \/ prio[front[m]] < prio[t] THEN t ELSE front[m]
<1>1. /\ owner' = owner /\ mutexLocked' = mutexLocked /\ savedPriority' = savedPriority
      /\ waiting' = [waiting EXCEPT ![m] = @ \cup {t}]
      /\ mutexWaiting' = [mutexWaiting EXCEPT ![t] = m]
      /\ wait' = [wait EXCEPT ![t] = TRUE]
    BY DEF Enqueue, listVars
<1>2. prio' = [u \in Threads |-> IF u \in boosted THEN prio[t] ELSE prio[u]]
    BY DEF Enqueue
<1>3. /\ front' \in [Mutexes -> Threads \cup {NoThread}]
      /\ \A k \in Mutexes :
            IF \E u \in boosted : mutexWaiting[u] = k
            THEN front'[k] \in HeapTops(waiting'[k], prio')
            ELSE front'[k] = IF k = m THEN top ELSE front[k]
    BY DEF Enqueue
<1>4. \A u \in boosted : u \in Threads /\ mutexLocked[u] # {}
    <2>1. owner[m] \in Threads
        BY DEF LinksInv
    <2> QED BY <2>1, WalkFromOwners
<1> HIDE DEF boosted
<1>5. /\ prio' \in [Threads -> Priorities]
      /\ \A u \in Threads : prio'[u] = IF u \in boosted THEN prio[t] ELSE prio[u]
    BY <1>2 DEF LinksInv
<1>6. \A k \in Mutexes : waiting'[k] = IF k = m THEN waiting[m] \cup {t} ELSE waiting[k]
    BY <1>1 DEF LinksInv
<1>7. waiting' \in [Mutexes -> SUBSET Threads]
    BY <1>1 DEF LinksInv
<1>8. /\ mutexWaiting' \in [Threads -> Mutexes \cup {NoMutex}]
      /\ \A u \in Threads : mutexWaiting'[u] = IF u = t THEN m ELSE mutexWaiting[u]
      /\ wait' \in [Threads -> BOOLEAN]
      /\ \A u \in Threads : wait'[u] <=> wait[u] \/ u = t
    BY <1>1 DEF LinksInv
<1>9. ASSUME NEW k \in Mutexes PROVE front'[k] \in HeapTops(waiting'[k], prio')
    <2>1. CASE \E u \in boosted : mutexWaiting[u] = k
        BY <1>3, <2>1
    <2>2. CASE ~ \E u \in boosted : mutexWaiting[u] = k
        <3>1. \A u \in waiting[k] : u \in Threads /\ prio'[u] = prio[u]
            BY <1>5, <2>2 DEF LinksInv
        <3>2. front[k] \in HeapTops(waiting[k], prio)
            BY DEF LinksInv, FrontIsHighest
        <3>3. CASE k # m
            <4>1. front'[k] = front[k] /\ waiting'[k] = waiting[k]
                BY <1>3, <1>6, <2>2, <3>3
            <4> QED BY <3>1, <3>2, <4>1, TopKept
        <3>4. CASE k = m
            <4>1. front'[m] = top /\ waiting'[m] = waiting[m] \cup {t}
                BY <1>3, <1>6, <2>2, <3>4
            <4>2. prio'[t] = prio[t]
                BY <1>5
            <4>3. \A u \in Threads : prio[u] \in Int
                BY DEF LinksInv
            <4>4. CASE waiting[m] = {}
                BY <3>4, <4>1, <4>2, <4>3, <4>4, TopOf
            <4>5. CASE waiting[m] # {}
                <5>1. /\ front[m] \in waiting[m] /\ front[m] \in Threads
                      /\ \A u \in waiting[m] : prio[u] <= prio[front[m]]
                    BY <3>1, <3>2, <3>4, <4>5, TopOf
                <5>2. top \in waiting[m] \cup {t} /\ top \in Threads
                    BY <5>1
                <5>3. \A u \in waiting[m] \cup {t} : prio[u] <= prio[top]
                    BY <3>1, <3>4, <4>3, <4>5, <5>1
                <5>4. \A u \in waiting[m] \cup {t} : prio'[u] = prio[u]
                    BY <3>1, <3>4, <4>2
                <5> HIDE DEF top
                <5>5. \A u \in waiting[m] \cup {t} : prio'[u] <= prio'[top]
                    BY <5>2, <5>3, <5>4
                <5>6. waiting[m] \cup {t} # {}
                    OBVIOUS
                <5> QED BY <3>4, <4>1, <5>2, <5>5, <5>6, TopOf
            <4> QED BY <4>4, <4>5
        <3> QED BY <3>3, <3>4
    <2> QED BY <2>1, <2>2
<1>10. FrontIsHighest'
    BY <1>9 DEF FrontIsHighest, HeapTops
<1>11. \A u \in Threads : prio'[u] # prio[u] => prio'[u] = prio[t] /\ mutexLocked[u] # {}
    BY <1>4, <1>5
<1>12. \A k \in Mutexes, u \in Threads :
          u \in waiting'[k] <=> u \in waiting[k] \/ (k = m /\ u = t)
    BY <1>6
<1> QED BY <1>1, <1>3, <1>5, <1>7, <1>8, <1>10, <1>11, <1>12

LEMMA EnqueueKeepsLinks ==
    ASSUME LinksInv, NEW t \in Threads, NEW m \in Mutexes,
           owner[m] \notin {NoThread, t}, target[t] = NoMutex, Enqueue(t, m),
           target' = [target EXCEPT ![t] = m]
    PROVE  LinksInv'
<1> USE MutexAssumption
<1>1. /\ owner' = owner /\ mutexLocked' = mutexLocked
      /\ waiting' \in [Mutexes -> SUBSET Threads]
      /\ \A k \in Mutexes, u \in Threads :
            u \in waiting'[k] <=> u \in waiting[k] \/ (k = m /\ u = t)
      /\ mutexWaiting' \in [Threads -> Mutexes \cup {NoMutex}]
      /\ \A u \in Threads : mutexWaiting'[u] = IF u = t THEN m ELSE mutexWaiting[u]
      /\ wait' \in [Threads -> BOOLEAN]
      /\ \A u \in Threads : wait'[u] <=> wait[u] \/ u = t
      /\ prio' \in [Threads -> Priorities]
      /\ front' \in [Mutexes -> Threads \cup {NoThread}]
      /\ FrontIsHighest'
    BY EnqueueEffect
<1>2. /\ target' \in [Threads -> Mutexes \cup {NoMutex}]
      /\ \A u \in Threads : target'[u] = IF u = t THEN m ELSE target[u]
    BY DEF LinksInv
<1>3. mutexWaiting[t] = NoMutex
    BY DEF LinksInv
<1>4. ASSUME NEW k \in Mutexes
      PROVE  /\ \A u \in Threads : owner'[k] = u <=> k \in mutexLocked'[u]
             /\ \A u \in Threads : u \in waiting'[k] <=> mutexWaiting'[u] = k
             /\ waiting'[k] # {} => owner'[k] \in Threads \ waiting'[k]
    <2>1. \A u \in Threads : owner'[k] = u <=> k \in mutexLocked'[u]
        BY <1>1 DEF LinksInv
    <2>2. \A u \in Threads : u \in waiting'[k] <=> mutexWaiting'[u] = k
        BY <1>1, <1>3 DEF LinksInv
    <2>3. CASE k = m
        <3>1. owner[m] \in Threads /\ owner[m] \notin waiting[m]
            BY DEF LinksInv
        <3> QED BY <1>1, <2>1, <2>2, <2>3, <3>1
    <2>4. CASE k # m
        <3>0. waiting'[k] \subseteq Threads /\ waiting[k] \subseteq Threads
            BY <1>1 DEF LinksInv
        <3>1. waiting'[k] = waiting[k]
            BY <1>1, <2>4, <3>0
        <3> QED BY <1>1, <2>1, <2>2, <3>1 DEF LinksInv
    <2> QED BY <2>3, <2>4
<1>5. \A u \in Threads :
         /\ wait'[u] => target'[u] # NoMutex /\ mutexWaiting'[u] = target'[u]
         /\ mutexWaiting'[u] # NoMutex => mutexWaiting'[u] = target'[u]
         /\ target'[u] # NoMutex => mutexWaiting'[u] = target'[u] \/ owner'[target'[u]] = u
    BY <1>1, <1>2 DEF LinksInv
<1> QED BY <1>1, <1>2, <1>4, <1>5 DEF LinksInv

LEMMA EnqueueKeepsSaved ==
    ASSUME LinksInv, SavedInv, NEW t \in Threads, NEW m \in Mutexes,
           owner[m] \notin {NoThread, t}, target[t] = NoMutex, Enqueue(t, m),
           UNCHANGED base
    PROVE  SavedInv'
<1>1. /\ mutexLocked' = mutexLocked /\ savedPriority' = savedPriority
      /\ \A u \in Threads : prio'[u] # prio[u] => prio'[u] = prio[t] /\ mutexLocked[u] # {}
    BY EnqueueEffect
<1> QED BY <1>1 DEF SavedInv, NoPriorityLeak

-----------------------------------------------------------------------------
(* Handing a mutex off *)

\* Who gets m: the front of the heap, or nobody.
NextOwner(m) == IF waiting[m] = {} THEN NoThread ELSE front[m]

\* What HandOff does, thread by thread.
HandedOff(m, w, pn, ln) ==
    /\ w \in waiting[m] \cup {NoThread} /\ (w = NoThread <=> waiting[m] = {})
    /\ w \in Threads \cup {NoThread}
    /\ owner' = [owner EXCEPT ![m] = w]
    /\ waiting' = [waiting EXCEPT ![m] = waiting[m] \ {w}]
    /\ mutexWaiting' \in [Threads -> Mutexes \cup {NoMutex}]
    /\ \A u \in Threads : mutexWaiting'[u] = IF u = w THEN NoMutex ELSE mutexWaiting[u]
    /\ wait' \in [Threads -> BOOLEAN]
    /\ \A u \in Threads : wait'[u] <=> wait[u] /\ u # w
    /\ mutexLocked' \in [Threads -> SUBSET Mutexes]
    /\ \A u \in Threads : mutexLocked'[u] = IF u = w THEN ln[u] \cup {m} ELSE ln[u]
    /\ savedPriority' \in [Threads -> Priorities]
    /\ \A u \in Threads : savedPriority'[u] = IF u = w /\ ln[u] = {} THEN pn[u]
                                              ELSE savedPriority[u]
    /\ prio' \in [Threads -> Priorities]
    /\ \A u \in Threads : u # w => prio'[u] = pn[u]
    /\ w # NoThread => /\ prio'[w] = pn[w] \/ \E u \in waiting[m] \ {w} : prio'[w] = pn[u]
                       /\ pn[w] <= prio'[w]
                       /\ \A u \in waiting[m] \ {w} : pn[u] <= prio'[w]
    /\ front' \in [Mutexes -> Threads \cup {NoThread}]
    /\ \A k \in Mutexes : k # m => front'[k] = front[k]
    /\ front'[m] \in HeapTops(waiting[m] \ {w}, pn)

LEMMA HandOffEffect ==
    ASSUME LinksInv, SavedInv, NEW m \in Mutexes,
           NEW pn \in [Threads -> Priorities], NEW ln \in [Threads -> SUBSET Mutexes],
           HandOff(m, pn, ln), NEW w, w = NextOwner(m)
    PROVE  HandedOff(m, w, pn, ln)
<1> USE MutexAssumption
<1>0. /\ front[m] \in HeapTops(waiting[m], prio) /\ waiting[m] \subseteq Threads
      /\ \A u \in Threads : pn[u] \in Priorities /\ pn[u] \in Int
    BY DEF LinksInv, FrontIsHighest
<1>1. CASE waiting[m] = {}
    <2>1. w = NoThread /\ front[m] = NoThread
        BY <1>0, <1>1, TopOf DEF NextOwner
    <2>2. /\ owner' = [owner EXCEPT ![m] = NoThread] /\ prio' = pn /\ mutexLocked' = ln
          /\ UNCHANGED <<savedPriority, mutexWaiting, wait, waiting, front>>
        BY <1>1 DEF HandOff
    <2>3. waiting = [waiting EXCEPT ![m] = waiting[m] \ {w}]
        BY <1>1 DEF LinksInv
    <2>4. front'[m] \in HeapTops(waiting[m] \ {w}, pn)
        BY <1>1, <2>1, <2>2, TopOf
    <2> QED BY <1>1, <2>1, <2>2, <2>3, <2>4 DEF LinksInv, SavedInv, HandedOff
<1>2. CASE waiting[m] # {}
    <2>1. w = front[m] /\ w \in waiting[m] /\ w \in Threads
        BY <1>0, <1>2, TopOf DEF NextOwner
    <2> DEFINE rest == waiting[m] \ {w}
    <2>2. /\ owner' = [owner EXCEPT ![m] = w]
          /\ waiting' = [waiting EXCEPT ![m] = rest]
          /\ mutexWaiting' = [mutexWaiting EXCEPT ![w] = NoMutex]
          /\ wait' = [wait EXCEPT ![w] = FALSE]
          /\ savedPriority' = IF ln[w] = {} THEN [savedPriority EXCEPT ![w] = pn[w]]
                              ELSE savedPriority
          /\ mutexLocked' = [ln EXCEPT ![w] = @ \cup {m}]
        BY <1>2, <2>1 DEF HandOff
    <2>3. PICK f \in HeapTops(rest, pn) :
             /\ front' = [front EXCEPT ![m] = f]
             /\ prio' = IF rest # {} /\ pn[w] < pn[f] THEN [pn EXCEPT ![w] = pn[f]] ELSE pn
        BY <1>2, <2>1 DEF HandOff
    <2> HIDE DEF rest
    <2>4. /\ mutexWaiting' \in [Threads -> Mutexes \cup {NoMutex}]
          /\ \A u \in Threads : mutexWaiting'[u] = IF u = w THEN NoMutex ELSE mutexWaiting[u]
          /\ wait' \in [Threads -> BOOLEAN]
          /\ \A u \in Threads : wait'[u] <=> wait[u] /\ u # w
        BY <2>1, <2>2 DEF LinksInv
    <2>5. /\ mutexLocked' \in [Threads -> SUBSET Mutexes]
          /\ \A u \in Threads : mutexLocked'[u] = IF u = w THEN ln[u] \cup {m} ELSE ln[u]
        BY <2>1, <2>2
    <2>6. /\ savedPriority' \in [Threads -> Priorities]
          /\ \A u \in Threads : savedPriority'[u] = IF u = w /\ ln[u] = {} THEN pn[u]
                                                    ELSE savedPriority[u]
        BY <2>1, <2>2 DEF SavedInv
    <2>7. IF rest = {} THEN f = NoThread
          ELSE f \in rest /\ f \in Threads /\ \A u \in rest : pn[u] <= pn[f]
        BY <1>0, <2>3, TopOf DEF rest
    <2>8. /\ front' \in [Mutexes -> Threads \cup {NoThread}] /\ front'[m] = f
          /\ \A k \in Mutexes : k # m => front'[k] = front[k]
        BY <2>3, <2>7 DEF LinksInv
    <2>9. /\ prio' \in [Threads -> Priorities]
          /\ \A u \in Threads : u # w => prio'[u] = pn[u]
          /\ prio'[w] = IF rest # {} /\ pn[w] < pn[f] THEN pn[f] ELSE pn[w]
        BY <2>1, <2>3, <2>7
    <2>10. /\ prio'[w] = pn[w] \/ \E u \in rest : prio'[w] = pn[u]
           /\ pn[w] <= prio'[w]
           /\ \A u \in rest : pn[u] <= prio'[w]
        <3>1. \A u \in rest : u \in Threads
            BY <1>0 DEF rest
        <3> QED BY <1>0, <2>1, <2>7, <2>9, <3>1
    <2> QED BY <1>2, <2>1, <2>2, <2>3, <2>4, <2>5, <2>6, <2>8, <2>9, <2>10
            DEF rest, HandedOff
<1> QED BY <1>1, <1>2

\* The priorities and the lists of mutexes at the call of HandOff.
LEMMA ReleaseCallsHandOff ==
    ASSUME LinksInv, SavedInv, NEW t \in Threads, NEW m \in Mutexes, Release(t, m)
    PROVE  \E pr \in Priorities :
              /\ IsRecomputed(pr, savedPriority[t], mutexLocked[t] \ {m})
              /\ \E pn \in [Threads -> Priorities], ln \in [Threads -> SUBSET Mutexes] :
                    /\ \A u \in Threads : pn[u] = IF u = t THEN pr ELSE prio[u]
                    /\ \A u \in Threads : ln[u] = IF u = t THEN mutexLocked[t] \ {m}
                                                  ELSE mutexLocked[u]
                    /\ HandOff(m, pn, ln)
<1>1. PICK pr \in Priorities :
         /\ IsRecomputed(pr, savedPriority[t], mutexLocked[t] \ {m})
         /\ HandOff(m, [prio EXCEPT ![t] = pr], [mutexLocked EXCEPT ![t] = mutexLocked[t] \ {m}])
    BY DEF Release
<1> DEFINE pn == [prio EXCEPT ![t] = pr]
           ln == [mutexLocked EXCEPT ![t] = mutexLocked[t] \ {m}]
<1>2. /\ pn \in [Threads -> Priorities]
      /\ \A u \in Threads : pn[u] = IF u = t THEN pr ELSE prio[u]
    BY DEF LinksInv
<1>3. /\ ln \in [Threads -> SUBSET Mutexes]
      /\ \A u \in Threads : ln[u] = IF u = t THEN mutexLocked[t] \ {m} ELSE mutexLocked[u]
    BY DEF LinksInv
<1>4. HandOff(m, pn, ln)
    BY <1>1
<1> HIDE DEF pn, ln
<1> QED BY <1>1, <1>2, <1>3, <1>4

\* With no mutex left the saved priority is restored.
LEMMA RecomputedWithout ==
    ASSUME NEW pr, NEW saved, NEW S, S = {}, IsRecomputed(pr, saved, S)
    PROVE  pr = saved
BY DEF IsRecomputed

LEMMA ReleaseKeepsLinks ==
    ASSUME LinksInv, SavedInv, NEW t \in Threads, NEW m \in Mutexes, owner[m] = t,
           target[t] = NoMutex, Release(t, m), UNCHANGED <<target, base>>
    PROVE  /\ LinksInv' /\ SavedInv'
           /\ \A k \in Mutexes : k # m => owner'[k] = owner[k]
           /\ owner'[m] = NoThread \/ (owner'[m] \in Threads \ {t} /\ target[owner'[m]] = m)
<1> USE MutexAssumption
<1>0. PICK pr \in Priorities :
         /\ IsRecomputed(pr, savedPriority[t], mutexLocked[t] \ {m})
         /\ \E pn \in [Threads -> Priorities], ln \in [Threads -> SUBSET Mutexes] :
               /\ \A u \in Threads : pn[u] = IF u = t THEN pr ELSE prio[u]
               /\ \A u \in Threads : ln[u] = IF u = t THEN mutexLocked[t] \ {m}
                                             ELSE mutexLocked[u]
               /\ HandOff(m, pn, ln)
    BY ReleaseCallsHandOff
<1>1. PICK pn \in [Threads -> Priorities], ln \in [Threads -> SUBSET Mutexes] :
         /\ \A u \in Threads : pn[u] = IF u = t THEN pr ELSE prio[u]
         /\ \A u \in Threads : ln[u] = IF u = t THEN mutexLocked[t] \ {m} ELSE mutexLocked[u]
         /\ HandOff(m, pn, ln)
    BY <1>0
<1>w. PICK w : w = NextOwner(m)
    OBVIOUS
<1>h. HandedOff(m, w, pn, ln)
    BY <1>1, <1>w, HandOffEffect
<1>2. /\ w \in waiting[m] \cup {NoThread} /\ (w = NoThread <=> waiting[m] = {})
      /\ w \in Threads \cup {NoThread}
      /\ owner' = [owner EXCEPT ![m] = w]
      /\ waiting' = [waiting EXCEPT ![m] = waiting[m] \ {w}]
    BY <1>h DEF HandedOff
<1>3. /\ mutexWaiting' \in [Threads -> Mutexes \cup {NoMutex}]
      /\ \A u \in Threads : mutexWaiting'[u] = IF u = w THEN NoMutex ELSE mutexWaiting[u]
      /\ wait' \in [Threads -> BOOLEAN]
      /\ \A u \in Threads : wait'[u] <=> wait[u] /\ u # w
    BY <1>h DEF HandedOff
<1>4. /\ mutexLocked' \in [Threads -> SUBSET Mutexes]
      /\ \A u \in Threads : mutexLocked'[u] = IF u = w THEN ln[u] \cup {m} ELSE ln[u]
      /\ savedPriority' \in [Threads -> Priorities]
      /\ \A u \in Threads : savedPriority'[u] = IF u = w /\ ln[u] = {} THEN pn[u]
                                                ELSE savedPriority[u]
    BY <1>h DEF HandedOff
<1>5. /\ prio' \in [Threads -> Priorities]
      /\ \A u \in Threads : u # w => prio'[u] = pn[u]
      /\ front' \in [Mutexes -> Threads \cup {NoThread}]
      /\ \A k \in Mutexes : k # m => front'[k] = front[k]
      /\ front'[m] \in HeapTops(waiting[m] \ {w}, pn)
    BY <1>h DEF HandedOff
<1>6. /\ w # t /\ (w # NoThread => w \in Threads /\ mutexWaiting[w] = m /\ target[w] = m)
      /\ mutexWaiting[t] = NoMutex
    BY <1>2 DEF LinksInv
<1>7. /\ owner' \in [Mutexes -> Threads \cup {NoThread}]
      /\ \A k \in Mutexes : owner'[k] = IF k = m THEN w ELSE owner[k]
      /\ waiting' \in [Mutexes -> SUBSET Threads]
      /\ \A k \in Mutexes : waiting'[k] = IF k = m THEN waiting[m] \ {w} ELSE waiting[k]
    BY <1>2 DEF LinksInv
<1>8. ASSUME NEW k \in Mutexes
      PROVE  /\ \A u \in Threads : owner'[k] = u <=> k \in mutexLocked'[u]
             /\ \A u \in Threads : u \in waiting'[k] <=> mutexWaiting'[u] = k
             /\ waiting'[k] # {} => owner'[k] \in Threads \ waiting'[k]
    <2>1. \A u \in Threads : owner'[k] = u <=> k \in mutexLocked'[u]
        <3> SUFFICES ASSUME NEW u \in Threads PROVE owner'[k] = u <=> k \in mutexLocked'[u]
            OBVIOUS
        <3>1. owner[k] = u <=> k \in mutexLocked[u]
            BY DEF LinksInv
        <3> QED BY <1>1, <1>4, <1>6, <1>7, <3>1
    <2>2. \A u \in Threads : u \in waiting'[k] <=> mutexWaiting'[u] = k
        <3> SUFFICES ASSUME NEW u \in Threads PROVE u \in waiting'[k] <=> mutexWaiting'[u] = k
            OBVIOUS
        <3>1. u \in waiting[k] <=> mutexWaiting[u] = k
            BY DEF LinksInv
        <3> QED BY <1>3, <1>6, <1>7, <3>1
    <2>3. waiting'[k] # {} => owner'[k] \in Threads \ waiting'[k]
        <3>1. CASE k = m
            BY <1>2, <1>6, <1>7, <3>1
        <3>2. CASE k # m
            BY <1>7, <3>2 DEF LinksInv
        <3> QED BY <3>1, <3>2
    <2> QED BY <2>1, <2>2, <2>3
<1>9. ASSUME NEW u \in Threads
      PROVE  /\ wait'[u] => target'[u] # NoMutex /\ mutexWaiting'[u] = target'[u]
             /\ mutexWaiting'[u] # NoMutex => mutexWaiting'[u] = target'[u]
             /\ target'[u] # NoMutex => mutexWaiting'[u] = target'[u] \/ owner'[target'[u]] = u
    <2>1. /\ wait[u] => target[u] # NoMutex /\ mutexWaiting[u] = target[u]
          /\ mutexWaiting[u] # NoMutex => mutexWaiting[u] = target[u]
          /\ target[u] # NoMutex => mutexWaiting[u] = target[u] \/ owner[target[u]] = u
          /\ target[u] \in Mutexes \cup {NoMutex}
        BY DEF LinksInv
    <2>2. CASE u = w
        BY <1>3, <1>6, <1>7, <2>1, <2>2
    <2>3. CASE u # w
        <3>1. target[u] # NoMutex /\ owner[target[u]] = u => target[u] # m
            BY <2>3
        <3> QED BY <1>3, <1>6, <1>7, <2>1, <2>3
    <2> QED BY <2>2, <2>3
<1>10. ASSUME NEW k \in Mutexes PROVE front'[k] \in HeapTops(waiting'[k], prio')
    <2>1. \A u \in waiting'[k] : u \in Threads /\ u # w /\ u # t
        BY <1>3, <1>6, <1>7, <1>8
    <2>2. \A u \in waiting'[k] : prio'[u] = pn[u] /\ prio'[u] = prio[u]
        BY <1>1, <1>5, <2>1
    <2>3. CASE k = m
        <3>1. front'[k] \in HeapTops(waiting'[k], pn)
            BY <1>5, <1>7, <2>3
        <3> QED BY <2>2, <3>1, TopKept
    <2>4. CASE k # m
        <3>1. front'[k] = front[k] /\ waiting'[k] = waiting[k]
            BY <1>5, <1>7, <2>4
        <3>2. front[k] \in HeapTops(waiting[k], prio)
            BY DEF LinksInv, FrontIsHighest
        <3> QED BY <2>2, <3>1, <3>2, TopKept
    <2> QED BY <2>3, <2>4
<1>11. FrontIsHighest'
    BY <1>10 DEF FrontIsHighest, HeapTops
<1>12. target' \in [Threads -> Mutexes \cup {NoMutex}]
    BY DEF LinksInv
<1>13. LinksInv'
    BY <1>3, <1>4, <1>5, <1>7, <1>8, <1>9, <1>11, <1>12 DEF LinksInv
<1>14. ASSUME NEW u \in Threads
       PROVE  base'[u] = IF mutexLocked'[u] = {} THEN prio'[u] ELSE savedPriority'[u]
    <2>1. base[u] = IF mutexLocked[u] = {} THEN prio[u] ELSE savedPriority[u]
        BY DEF SavedInv, NoPriorityLeak
    <2>2. CASE u = t
        <3>1. mutexLocked'[u] = mutexLocked[t] \ {m} /\ prio'[u] = pr
              /\ savedPriority'[u] = savedPriority[t]
            BY <1>1, <1>4, <1>5, <1>6, <2>2
        <3>2. m \in mutexLocked[t]
            BY DEF LinksInv
        <3>3. mutexLocked[t] \ {m} = {} => pr = savedPriority[t]
            BY <1>0, RecomputedWithout
        <3> QED BY <2>1, <2>2, <3>1, <3>2, <3>3
    <2>3. CASE u = w
        <3>1. mutexLocked'[u] # {} /\ ln[u] = mutexLocked[u] /\ pn[u] = prio[u]
            BY <1>1, <1>4, <1>6, <2>3
        <3> QED BY <1>4, <2>1, <2>3, <3>1
    <2>4. CASE u \notin {t, w}
        BY <1>1, <1>4, <1>5, <2>1, <2>4
    <2> QED BY <2>2, <2>3, <2>4
<1>15. SavedInv'
    BY <1>4, <1>14 DEF SavedInv, NoPriorityLeak
<1>16. owner'[m] = NoThread \/ (owner'[m] \in Threads \ {t} /\ target[owner'[m]] = m)
    BY <1>2, <1>6, <1>7
<1> QED BY <1>7, <1>13, <1>15, <1>16

\* The steps that leave owners, heaps and priorities alone.
LEMMA QuietKeepsLinks ==
    ASSUME LinksInv, UNCHANGED <<listVars, heapVars, prio, mutexWaiting>>,
           wait' \in [Threads -> BOOLEAN],
           target' \in [Threads -> Mutexes \cup {NoMutex}],
           \A u \in Threads :
              /\ wait'[u] => target'[u] # NoMutex /\ mutexWaiting[u] = target'[u]
              /\ mutexWaiting[u] # NoMutex => mutexWaiting[u] = target'[u]
              /\ target'[u] # NoMutex => mutexWaiting[u] = target'[u] \/ owner[target'[u]] = u
    PROVE  LinksInv'
<1>1. FrontIsHighest'
    BY DEF heapVars, LinksInv, FrontIsHighest, HeapTops
<1> QED BY <1>1 DEF listVars, heapVars, LinksInv

\* A thread that runs its own code, or is about to take back the condition
\* variable's mutex, waits for nothing.
LEMMA RunsFree ==
    ASSUME LinksInv, PlacesInv, NEW t \in Threads, pc[t] \notin {"lock", "relock"}
    PROVE  target[t] = NoMutex /\ mutexWaiting[t] = NoMutex /\ ~wait[t]
BY MutexAssumption DEF LinksInv, PlacesInv

\* One thread's step.
Step(t) ==
    \/ \E m \in Mutexes : PKlock(t, m) \/ PKtryLock(t, m) \/ PKunlock(t, m)
    \/ LockLoop(t)
    \/ \E pr \in Priorities : setPriority(t, pr)
    \/ cwait(t) \/ PKlockToDepth(t) \/ signal(t) \/ broadcast(t)
    \/ sleep(t) \/ IRQwakeThreads(t) \/ SpuriousWakeup(t)

LEMMA StepKeepsLinks ==
    ASSUME LinksInv, PlacesInv, SavedInv, NEW t \in Threads, Step(t)
    PROVE  LinksInv' /\ SavedInv'
<1> USE MutexAssumption
<1>a. ASSUME UNCHANGED <<prio, mutexLocked, savedPriority, base>> PROVE SavedInv'
    BY <1>a DEF SavedInv, NoPriorityLeak
<1>b. ASSUME UNCHANGED <<listVars, heapVars, prio, mutexWaiting, base>>,
             UNCHANGED target, wait' = wait \/ wait' = [wait EXCEPT ![t] = FALSE]
      PROVE  LinksInv' /\ SavedInv'
    <2>1. wait' \in [Threads -> BOOLEAN] /\ \A u \in Threads : wait'[u] => wait[u]
        <3>1. CASE wait' = wait
            BY <3>1 DEF LinksInv
        <3>2. CASE wait' = [wait EXCEPT ![t] = FALSE]
            BY <3>2 DEF LinksInv
        <3> QED BY <1>b, <3>1, <3>2
    <2>2. LinksInv'
        BY <1>b, <2>1, QuietKeepsLinks DEF LinksInv
    <2> QED BY <1>a, <1>b, <2>2 DEF listVars
<1>1. ASSUME NEW m \in Mutexes, PKlock(t, m) PROVE LinksInv' /\ SavedInv'
    <2>0. target[t] = NoMutex /\ base' = base
        BY <1>1, RunsFree DEF PKlock, Calls, Runs
    <2>1. CASE TakeFree(t, m) /\ UNCHANGED target
        BY <2>0, <2>1, TakeFreeKeepsLinks, TakeFreeKeepsSaved
    <2>2. CASE UNCHANGED <<listVars, heapVars, prio, mutexWaiting, wait, pc, target>>
        BY <1>b, <2>0, <2>2
    <2>3. CASE /\ owner[m] \notin {NoThread, t} /\ Enqueue(t, m)
               /\ target' = [target EXCEPT ![t] = m]
        BY <2>0, <2>3, EnqueueKeepsLinks, EnqueueKeepsSaved
    <2> QED BY <1>1, <2>1, <2>2, <2>3 DEF PKlock
<1>2. ASSUME NEW m \in Mutexes, PKtryLock(t, m) PROVE LinksInv' /\ SavedInv'
    <2>0. UNCHANGED <<base, target>>
        BY <1>2 DEF PKtryLock
    <2>1. CASE TakeFree(t, m)
        BY <2>0, <2>1, TakeFreeKeepsLinks, TakeFreeKeepsSaved
    <2>2. CASE UNCHANGED <<listVars, heapVars, prio, mutexWaiting, wait>>
        BY <1>b, <2>0, <2>2
    <2> QED BY <1>2, <2>1, <2>2 DEF PKtryLock
<1>3. ASSUME NEW m \in Mutexes, PKunlock(t, m) PROVE LinksInv' /\ SavedInv'
    <2>0. target[t] = NoMutex /\ UNCHANGED <<base, target>> /\ owner[m] = t
        BY <1>3, RunsFree DEF PKunlock, Runs
    <2>1. CASE Release(t, m)
        BY <2>0, <2>1, ReleaseKeepsLinks
    <2>2. CASE UNCHANGED <<listVars, heapVars, prio, mutexWaiting, wait>>
        BY <1>b, <2>0, <2>2
    <2> QED BY <1>3, <2>1, <2>2 DEF PKunlock
<1>4. CASE LockLoop(t)
    <2>0. /\ UNCHANGED <<listVars, heapVars, prio, mutexWaiting, base>>
          /\ target[t] # NoMutex /\ target[t] \in Mutexes
        BY <1>4 DEF LockLoop, PlacesInv, LinksInv
    <2>1. SavedInv'
        BY <1>a, <2>0 DEF listVars
    <2>2. CASE owner[target[t]] # t /\ wait' = [wait EXCEPT ![t] = TRUE] /\ target' = target
        <3>1. wait' \in [Threads -> BOOLEAN] /\ \A u \in Threads : wait'[u] <=> wait[u] \/ u = t
            BY <2>2 DEF LinksInv
        <3>2. mutexWaiting[t] = target[t]
            BY <2>0, <2>2 DEF LinksInv
        <3> QED BY <2>0, <2>1, <2>2, <3>1, <3>2, QuietKeepsLinks DEF LinksInv
    <2>3. CASE /\ owner[target[t]] = t /\ target' = [target EXCEPT ![t] = NoMutex]
               /\ wait' = wait
        <3>1. /\ target' \in [Threads -> Mutexes \cup {NoMutex}]
              /\ \A u \in Threads : target'[u] = IF u = t THEN NoMutex ELSE target[u]
            BY <2>3 DEF LinksInv
        <3>2. mutexWaiting[t] = NoMutex /\ ~wait[t]
            <4>1. mutexWaiting[t] # target[t]
                <5>1. t \notin waiting[target[t]]
                    BY <2>0, <2>3 DEF LinksInv
                <5> QED BY <2>0, <5>1 DEF LinksInv
            <4> QED BY <4>1 DEF LinksInv
        <3> QED BY <2>0, <2>1, <2>3, <3>1, <3>2, QuietKeepsLinks DEF LinksInv
    <2> QED BY <1>4, <2>2, <2>3 DEF LockLoop
<1>5. ASSUME NEW new \in Priorities, setPriority(t, new) PROVE LinksInv' /\ SavedInv'
    <2>1. PICK pr \in Priorities :
             /\ mutexLocked[t] = {} => pr = new
             /\ prio' = [prio EXCEPT ![t] = pr]
        BY <1>5 DEF setPriority
    <2>2. /\ savedPriority' = IF mutexLocked[t] = {} THEN savedPriority
                              ELSE [savedPriority EXCEPT ![t] = new]
          /\ base' = [base EXCEPT ![t] = new]
          /\ UNCHANGED <<owner, mutexLocked, waiting, front, mutexWaiting, wait, target>>
          /\ mutexWaiting[t] = NoMutex
        BY <1>5, RunsFree DEF setPriority, heapVars, Calls, Runs
    <2>3. /\ prio' \in [Threads -> Priorities]
          /\ \A u \in Threads : prio'[u] = IF u = t THEN pr ELSE prio[u]
        BY <2>1 DEF LinksInv
    <2>4. ASSUME NEW k \in Mutexes PROVE front'[k] \in HeapTops(waiting'[k], prio')
        <3>1. \A u \in waiting[k] : prio'[u] = prio[u]
            BY <2>2, <2>3 DEF LinksInv
        <3>2. front[k] \in HeapTops(waiting[k], prio)
            BY DEF LinksInv, FrontIsHighest
        <3> QED BY <2>2, <3>1, <3>2, TopKept
    <2>5. FrontIsHighest'
        BY <2>4 DEF FrontIsHighest, HeapTops
    <2>6. LinksInv'
        BY <2>2, <2>3, <2>5 DEF LinksInv
    <2>7. /\ savedPriority' \in [Threads -> Priorities] /\ base' \in [Threads -> Priorities]
          /\ \A u \in Threads : /\ base'[u] = IF u = t THEN new ELSE base[u]
                                /\ savedPriority'[u] = IF u = t /\ mutexLocked[t] # {} THEN new
                                                       ELSE savedPriority[u]
        BY <2>2 DEF SavedInv
    <2>8. NoPriorityLeak'
        BY <2>1, <2>2, <2>3, <2>7 DEF SavedInv, NoPriorityLeak
    <2> QED BY <2>6, <2>7, <2>8 DEF SavedInv
<1>6. CASE cwait(t)
    <2>0. /\ target[t] = NoMutex /\ UNCHANGED <<base, target>> /\ owner[CondMutex] = t
          /\ Release(t, CondMutex)
        BY <1>6, RunsFree DEF cwait, Calls, Runs
    <2> QED BY <2>0, ReleaseKeepsLinks
<1>7. CASE PKlockToDepth(t)
    <2>0. target[t] = NoMutex /\ base' = base
        BY <1>7, RunsFree DEF PKlockToDepth
    <2>1. CASE TakeFree(t, CondMutex) /\ UNCHANGED target
        BY <2>0, <2>1, TakeFreeKeepsLinks, TakeFreeKeepsSaved
    <2>2. CASE /\ owner[CondMutex] \notin {NoThread, t} /\ Enqueue(t, CondMutex)
               /\ target' = [target EXCEPT ![t] = CondMutex]
        BY <2>0, <2>2, EnqueueKeepsLinks, EnqueueKeepsSaved
    <2> QED BY <1>7, <2>1, <2>2 DEF PKlockToDepth
<1>8. CASE signal(t) \/ broadcast(t)
    BY <1>8, <1>b DEF signal, broadcast
<1>9. CASE sleep(t) \/ IRQwakeThreads(t)
    BY <1>9, <1>b DEF sleep, IRQwakeThreads
<1>10. CASE SpuriousWakeup(t)
    BY <1>10, <1>b DEF SpuriousWakeup
<1> QED BY <1>1, <1>2, <1>3, <1>4, <1>5, <1>6, <1>7, <1>8, <1>9, <1>10 DEF Step

-----------------------------------------------------------------------------
(* The condition variable's list *)

\* A thread that is not in a list is linked at its end.
LEMMA LinkLast ==
    ASSUME NEW S, NEW s \in Seq(S), Once(s), NEW x \in S, ~In(s, x)
    PROVE  /\ Append(s, x) \in Seq(S) /\ Append(s, x) # <<>> /\ Once(Append(s, x))
           /\ \A y : In(Append(s, x), y) <=> In(s, y) \/ y = x
<1> DEFINE r == Append(s, x)
<1>1. /\ Len(s) \in Nat /\ DOMAIN s = 1 .. Len(s)
      /\ r \in Seq(S) /\ r # <<>> /\ DOMAIN r = 1 .. Len(s) + 1
      /\ \A i \in 1 .. Len(s) : r[i] = s[i]
      /\ r[Len(s) + 1] = x
    BY AppendProperties, LenProperties
<1> HIDE DEF r
<1>2. \A i \in 1 .. Len(s) + 1 : i = Len(s) + 1 \/ i \in 1 .. Len(s)
    BY <1>1
<1>3. Once(r)
    <2>1. \A i \in 1 .. Len(s) : r[i] # x
        BY <1>1 DEF In
    <2>2. \A i, j \in 1 .. Len(s) : r[i] = r[j] => i = j
        BY <1>1 DEF Once
    <2> QED BY <1>1, <1>2, <2>1, <2>2 DEF Once
<1>4. ASSUME NEW y PROVE In(r, y) <=> In(s, y) \/ y = x
    <2>1. In(r, y) => In(s, y) \/ y = x
        BY <1>1, <1>2 DEF In
    <2>2. In(s, y) => In(r, y)
        BY <1>1 DEF In
    <2>3. In(r, x)
        BY <1>1 DEF In
    <2> QED BY <2>1, <2>2, <2>3
<1> QED BY <1>1, <1>3, <1>4 DEF r

\* The first n threads of a list are unlinked.
LEMMA UnlinkFirsts ==
    ASSUME NEW S, NEW s \in Seq(S), Once(s), NEW n \in 0 .. Len(s),
           NEW r, r = SubSeq(s, n + 1, Len(s))
    PROVE  /\ r \in Seq(S) /\ Once(r)
           /\ \A y : In(r, y) <=> In(s, y) /\ \A i \in 1 .. n : y # s[i]
           /\ n = Len(s) => r = <<>>
<1>1. Len(s) \in Nat /\ n \in Nat /\ DOMAIN s = 1 .. Len(s)
    BY LenProperties
<1>2. /\ r \in Seq(S) /\ DOMAIN r = 1 .. Len(s) - n
      /\ \A i \in 1 .. Len(s) - n : r[i] = s[n + i]
    <2>1. \A i \in n + 1 .. Len(s) : s[i] \in S
        BY <1>1, ElementOfSeq
    <2>2. /\ r \in Seq(S) /\ Len(r) = IF n + 1 <= Len(s) THEN Len(s) - (n + 1) + 1 ELSE 0
          /\ \A i \in 1 .. Len(s) - (n + 1) + 1 : r[i] = s[(n + 1) + i - 1]
        BY <1>1, <2>1, SubSeqProperties
    <2>3. Len(r) = Len(s) - n
        <3>1. \A k \in Nat : \A m \in 0 .. k : m + 1 <= k \/ m = k
            OBVIOUS
        <3>2. n + 1 <= Len(s) => Len(r) = Len(s) - n
            BY <1>1, <2>2
        <3>3. n = Len(s) => Len(r) = Len(s) - n
            BY <1>1, <2>2
        <3> QED BY <1>1, <3>1, <3>2, <3>3
    <2>4. DOMAIN r = 1 .. Len(r)
        BY <2>2, LenProperties
    <2>5. \A i \in 1 .. Len(s) - n : i \in 1 .. Len(s) - (n + 1) + 1 /\ (n + 1) + i - 1 = n + i
        BY <1>1
    <2> QED BY <2>2, <2>3, <2>4, <2>5
<1>3. Once(r)
    <2> SUFFICES ASSUME NEW i \in 1 .. Len(s) - n, NEW j \in 1 .. Len(s) - n,
                        r[i] = r[j]
                 PROVE  i = j
        BY <1>2 DEF Once
    <2>1. n + i \in DOMAIN s /\ n + j \in DOMAIN s /\ s[n + i] = s[n + j]
        BY <1>1, <1>2
    <2>2. n + i = n + j
        BY <2>1 DEF Once
    <2> QED BY <1>1, <2>2
<1>4. ASSUME NEW y, In(r, y) PROVE In(s, y) /\ \A i \in 1 .. n : y # s[i]
    <2>1. PICK k \in 1 .. Len(s) - n : y = s[n + k]
        BY <1>2, <1>4 DEF In
    <2>2. n + k \in DOMAIN s
        BY <1>1, <2>1
    <2>3. \A i \in 1 .. n : i \in DOMAIN s /\ i # n + k
        BY <1>1
    <2> QED BY <2>1, <2>2, <2>3 DEF In, Once
<1>5. ASSUME NEW y, In(s, y), \A i \in 1 .. n : y # s[i] PROVE In(r, y)
    <2>1. PICK k \in 1 .. Len(s) : y = s[k]
        BY <1>1, <1>5 DEF In
    <2>2. k - n \in 1 .. Len(s) - n /\ r[k - n] = y
        BY <1>1, <1>2, <1>5, <2>1
    <2> QED BY <1>2, <2>2 DEF In
<1>6. n = Len(s) => r = <<>>
    BY <1>1, <1>2, EmptySeq
<1> QED BY <1>2, <1>3, <1>4, <1>5, <1>6

\* The first thread of a list is unlinked.
LEMMA UnlinkFirst ==
    ASSUME NEW S, NEW s \in Seq(S), s # <<>>, Once(s)
    PROVE  /\ Tail(s) \in Seq(S) /\ Once(Tail(s))
           /\ Head(s) \in S /\ In(s, Head(s))
           /\ \A y : In(Tail(s), y) <=> In(s, y) /\ y # Head(s)
<1>1. Len(s) \in Nat \ {0} /\ DOMAIN s = 1 .. Len(s) /\ Head(s) = s[1] /\ Head(s) \in S
    BY EmptySeq, LenProperties, HeadTailProperties
<1>2. Tail(s) = SubSeq(s, 1 + 1, Len(s))
    BY TailIsSubSeq
<1>3. 1 \in 0 .. Len(s) /\ \A i : i \in 1 .. 1 <=> i = 1
    BY <1>1
<1>4. /\ Tail(s) \in Seq(S) /\ Once(Tail(s))
      /\ \A y : In(Tail(s), y) <=> In(s, y) /\ \A i \in 1 .. 1 : y # s[i]
    BY <1>2, <1>3, UnlinkFirsts
<1>5. In(s, Head(s))
    BY <1>1 DEF In
<1> QED BY <1>1, <1>3, <1>4, <1>5

\* A thread that is not asleep on the condition variable moves.
LEMMA MoveKeepsPlaces ==
    ASSUME PlacesInv, LinksInv, NEW t \in Threads, ~condWait[t], NEW place \in Places,
           NEW m \in Mutexes \cup {NoMutex},
           pc' = [pc EXCEPT ![t] = place], target' = [target EXCEPT ![t] = m],
           m # NoMutex <=> place \in {"lock", "relock"},
           place = "relock" => m = CondMutex,
           UNCHANGED <<cond, condWait>>
    PROVE  PlacesInv'
<1>1. /\ pc' \in [Threads -> Places]
      /\ \A u \in Threads : pc'[u] = IF u = t THEN place ELSE pc[u]
      /\ \A u \in Threads : target'[u] = IF u = t THEN m ELSE target[u]
    BY DEF PlacesInv, LinksInv
<1> QED BY <1>1 DEF PlacesInv, In

LEMMA StepKeepsPlaces ==
    ASSUME LinksInv, PlacesInv, NEW t \in Threads, Step(t)
    PROVE  PlacesInv'
<1> USE MutexAssumption
<1>0. /\ pc \in [Threads -> Places] /\ target \in [Threads -> Mutexes \cup {NoMutex}]
      /\ {"run", "sleep", "cond", "lock", "relock"} \subseteq Places
    BY DEF PlacesInv, LinksInv, Places
<1>a. ASSUME UNCHANGED <<pc, target, cond, condWait>> PROVE PlacesInv'
    BY <1>a DEF PlacesInv, In, Once
<1>b. ASSUME NEW place \in Places \ {"lock", "relock"}, ~condWait[t], target[t] = NoMutex,
             pc' = [pc EXCEPT ![t] = place], UNCHANGED <<target, cond, condWait>>
      PROVE  PlacesInv'
    <2>1. target' = [target EXCEPT ![t] = NoMutex]
        BY <1>0, <1>b
    <2> QED BY <1>b, <2>1, MoveKeepsPlaces
<1>c. pc[t] # "cond" => ~condWait[t]
    BY DEF PlacesInv
<1>d. pc[t] \notin {"lock", "relock"} => target[t] = NoMutex
    BY DEF PlacesInv
<1>1. ASSUME NEW m \in Mutexes, PKlock(t, m) PROVE PlacesInv'
    <2>1. CASE UNCHANGED <<pc, target>>
        BY <1>1, <1>a, <2>1 DEF PKlock, condVars
    <2>2. CASE pc' = [pc EXCEPT ![t] = "lock"] /\ target' = [target EXCEPT ![t] = m]
        BY <1>0, <1>1, <1>c, <2>2, MoveKeepsPlaces DEF PKlock, condVars, Calls, Runs
    <2> QED BY <1>1, <2>1, <2>2 DEF PKlock
<1>2. ASSUME NEW m \in Mutexes, PKtryLock(t, m) \/ PKunlock(t, m) PROVE PlacesInv'
    BY <1>2, <1>a DEF PKtryLock, PKunlock, condVars
<1>3. CASE LockLoop(t)
    <2>1. CASE UNCHANGED <<pc, target>>
        BY <1>3, <1>a, <2>1 DEF LockLoop, condVars
    <2>2. CASE pc' = [pc EXCEPT ![t] = "run"] /\ target' = [target EXCEPT ![t] = NoMutex]
        BY <1>0, <1>3, <1>c, <2>2, MoveKeepsPlaces DEF LockLoop, condVars
    <2> QED BY <1>3, <2>1, <2>2 DEF LockLoop
<1>4. CASE \E pr \in Priorities : setPriority(t, pr)
    BY <1>4, <1>a DEF setPriority, condVars
<1>5. CASE cwait(t)
    <2>1. /\ cond' = Append(cond, t) /\ condWait' = [condWait EXCEPT ![t] = TRUE]
          /\ pc' = [pc EXCEPT ![t] = "cond"] /\ target' = target /\ pc[t] = "run"
        BY <1>5 DEF cwait, Calls, Runs
    <2>2. cond \in Seq(Threads) /\ Once(cond) /\ ~In(cond, t)
        BY <2>1, <1>c DEF PlacesInv
    <2>3. /\ cond' \in Seq(Threads) /\ Once(cond')
          /\ \A u : In(cond', u) <=> In(cond, u) \/ u = t
        BY <2>1, <2>2, LinkLast
    <2>4. /\ pc' \in [Threads -> Places]
          /\ \A u \in Threads : pc'[u] = IF u = t THEN "cond" ELSE pc[u]
          /\ condWait' \in [Threads -> BOOLEAN]
          /\ \A u \in Threads : condWait'[u] <=> condWait[u] \/ u = t
        BY <1>0, <2>1 DEF PlacesInv
    <2> QED BY <2>1, <2>3, <2>4, <1>d DEF PlacesInv
<1>6. CASE PKlockToDepth(t)
    <2>1. pc[t] = "cond" /\ ~condWait[t] /\ target[t] = NoMutex /\ UNCHANGED <<cond, condWait>>
        BY <1>6, <1>d DEF PKlockToDepth, Scheduled, Ready, condVars
    <2>2. CASE pc' = [pc EXCEPT ![t] = "run"] /\ target' = target
        BY <1>0, <1>b, <2>1, <2>2
    <2>3. CASE pc' = [pc EXCEPT ![t] = "relock"] /\ target' = [target EXCEPT ![t] = CondMutex]
        BY <1>0, <2>1, <2>3, MoveKeepsPlaces
    <2> QED BY <1>6, <2>2, <2>3 DEF PKlockToDepth
<1>7. CASE signal(t)
    <2>1. /\ cond # <<>> /\ cond' = Tail(cond) /\ UNCHANGED <<pc, target>>
          /\ condWait' = [condWait EXCEPT ![Head(cond)] = FALSE]
        BY <1>7 DEF signal
    <2>2. /\ cond' \in Seq(Threads) /\ Once(cond') /\ Head(cond) \in Threads
          /\ \A u : In(cond', u) <=> In(cond, u) /\ u # Head(cond)
        BY <2>1, UnlinkFirst DEF PlacesInv
    <2>3. /\ condWait' \in [Threads -> BOOLEAN]
          /\ \A u \in Threads : condWait'[u] <=> condWait[u] /\ u # Head(cond)
        BY <2>1, <2>2 DEF PlacesInv
    <2> QED BY <2>1, <2>2, <2>3 DEF PlacesInv
<1>8. CASE broadcast(t)
    <2>1. /\ cond' = <<>> /\ UNCHANGED <<pc, target>>
          /\ condWait' = [u \in Threads |-> condWait[u] /\ ~In(cond, u)]
        BY <1>8 DEF broadcast, In
    <2>2. cond' \in Seq(Threads) /\ Once(cond') /\ \A u : ~In(cond', u)
        BY <2>1 DEF In, Once
    <2>3. condWait' \in [Threads -> BOOLEAN] /\ \A u \in Threads : ~condWait'[u]
        BY <2>1 DEF PlacesInv
    <2> QED BY <2>1, <2>2, <2>3 DEF PlacesInv
<1>9. CASE sleep(t)
    BY <1>0, <1>9, <1>b, <1>c, <1>d DEF sleep, Calls, Runs, condVars
<1>10. CASE IRQwakeThreads(t)
    BY <1>0, <1>10, <1>b, <1>c, <1>d DEF IRQwakeThreads, condVars
<1>11. CASE SpuriousWakeup(t)
    BY <1>11, <1>a DEF SpuriousWakeup, condVars
<1> QED BY <1>1, <1>2, <1>3, <1>4, <1>5, <1>6, <1>7, <1>8, <1>9, <1>10, <1>11 DEF Step

-----------------------------------------------------------------------------
(* The depth of recursive locking *)

\* What another thread counts does not change, unless it is handed the mutex
\* it waits for, which counts when its call returns.
LEMMA OthersCounted ==
    ASSUME PlacesInv, NEW u \in Threads, NEW k \in Mutexes,
           pc'[u] = pc[u], target'[u] = target[u], depth'[u] = depth[u],
           \/ target[u] = k
           \/ (owner'[k] = u <=> owner[k] = u) /\ (owner[k] = u => recursiveDepth'[k] = recursiveDepth[k])
    PROVE  Counted(u, k)' = Counted(u, k)
<1>1. CASE target[u] = k
    <2>1. pc[u] = "lock" \/ (pc[u] = "relock" /\ k = CondMutex)
        BY <1>1, MutexAssumption DEF PlacesInv
    <2> QED BY <1>1, <2>1 DEF Counted
<1>2. CASE (owner'[k] = u <=> owner[k] = u) /\ (owner[k] = u => recursiveDepth'[k] = recursiveDepth[k])
    <2>1. Recorded(u, k)' = Recorded(u, k)
        BY <1>2 DEF Recorded
    <2> QED BY <2>1 DEF Counted
<1> QED BY <1>1, <1>2

\* What a step of t has to show: it changes the owner and the depth of its
\* own and of free mutexes only, and a new owner other than t is a thread
\* that waits for the mutex.
LEMMA StepOfOwner ==
    ASSUME DepthsInv, PlacesInv, NEW t \in Threads,
           recursiveDepth' \in [Mutexes -> -1 .. MaxDepth],
           depth' \in [Threads -> 0 .. MaxDepth],
           held' \in [Threads -> [Mutexes -> 0 .. MaxDepth + 1]],
           \A u \in Threads : u # t => /\ pc'[u] = pc[u] /\ target'[u] = target[u]
                                       /\ depth'[u] = depth[u] /\ held'[u] = held[u],
           \A k \in Mutexes :
              /\ owner[k] \notin {t, NoThread} => owner'[k] = owner[k]
                                                  /\ recursiveDepth'[k] = recursiveDepth[k]
              /\ owner'[k] \in {owner[k], t, NoThread}
                 \/ (target[owner'[k]] = k /\ recursiveDepth'[k] <= 0)
              /\ recursiveDepth'[k] < 0 <=> recursiveDepth[k] < 0
              /\ owner'[k] = NoThread => recursiveDepth'[k] <= 0
              /\ owner'[k] = t /\ target'[t] = k => recursiveDepth'[k] <= 0
              /\ held'[t][k] = Counted(t, k)',
           pc'[t] = "cond" => owner'[CondMutex] # t,
           CondMutex \notin RecursiveMutexes => depth'[t] = 0
    PROVE  DepthsInv'
<1> USE MutexAssumption
<1>1. ASSUME NEW k \in Mutexes
      PROVE  /\ recursiveDepth'[k] < 0 <=> k \notin RecursiveMutexes
             /\ owner'[k] = NoThread => recursiveDepth'[k] <= 0
             /\ \A u \in Threads : owner'[k] = u /\ target'[u] = k => recursiveDepth'[k] <= 0
    <2>1. /\ recursiveDepth'[k] < 0 <=> k \notin RecursiveMutexes
          /\ owner'[k] = NoThread => recursiveDepth'[k] <= 0
        BY DEF DepthsInv
    <2>2. ASSUME NEW u \in Threads, owner'[k] = u, target'[u] = k PROVE recursiveDepth'[k] <= 0
        <3>1. CASE u = t
            BY <2>2, <3>1
        <3>2. CASE u # t /\ owner[k] = u
            BY <2>2, <3>2 DEF DepthsInv
        <3>3. CASE u # t /\ owner[k] # u
            BY <2>2, <3>3
        <3> QED BY <3>1, <3>2, <3>3
    <2> QED BY <2>1, <2>2
<1>2. ASSUME NEW u \in Threads
      PROVE  /\ pc'[u] = "cond" => owner'[CondMutex] # u
             /\ CondMutex \notin RecursiveMutexes => depth'[u] = 0
             /\ \A k \in Mutexes : held'[u][k] = Counted(u, k)'
    <2>1. CASE u = t
        BY <2>1
    <2>2. CASE u # t
        <3>1. pc'[u] = "cond" => owner'[CondMutex] # u
            <4>1. pc[u] = "cond" => target[u] = NoMutex /\ owner[CondMutex] # u
                BY DEF PlacesInv, DepthsInv
            <4>2. owner'[CondMutex] \in {owner[CondMutex], t, NoThread}
                  \/ target[owner'[CondMutex]] = CondMutex
                OBVIOUS
            <4> QED BY <2>2, <4>1, <4>2
        <3>2. ASSUME NEW k \in Mutexes PROVE Counted(u, k)' = Counted(u, k)
            <4>1. \/ target[u] = k
                  \/ /\ owner'[k] = u <=> owner[k] = u
                     /\ owner[k] = u => recursiveDepth'[k] = recursiveDepth[k]
                BY <2>2
            <4> QED BY <2>2, <4>1, OthersCounted
        <3> QED BY <2>2, <3>1, <3>2 DEF DepthsInv
    <2> QED BY <2>1, <2>2
<1> QED BY <1>1, <1>2 DEF DepthsInv

\* The history of calls.
LEMMA HeldEffect ==
    ASSUME DepthsInv, NEW t \in Threads, NEW m \in Mutexes,
           NEW d \in 0 .. MaxDepth + 1, held' = [held EXCEPT ![t][m] = d]
    PROVE  /\ held' \in [Threads -> [Mutexes -> 0 .. MaxDepth + 1]]
           /\ \A u \in Threads : u # t => held'[u] = held[u]
           /\ \A k \in Mutexes : held'[t][k] = IF k = m THEN d ELSE held[t][k]
BY DEF DepthsInv

\* t takes the free mutex m, from its own code.
LEMMA TakeFreeKeepsDepths ==
    ASSUME LinksInv, PlacesInv, DepthsInv, NEW t \in Threads, NEW m \in Mutexes,
           pc[t] = "run", TakeFree(t, m), HeldMore(t, m),
           UNCHANGED <<recursiveDepth, pc, target, depth>>
    PROVE  DepthsInv'
<1> USE MutexAssumption
<1>1. /\ \A k \in Mutexes : owner'[k] = IF k = m THEN t ELSE owner[k]
      /\ owner[m] = NoThread /\ target[t] = NoMutex
    BY RunsFree DEF TakeFree, LinksInv
<1>2. \A k \in Mutexes : held[t][k] = Recorded(t, k)
    BY DEF DepthsInv, Counted
<1>3. held[t][m] = 0 /\ recursiveDepth[m] <= 0 /\ recursiveDepth[m] \in -1 .. MaxDepth
    BY <1>1, <1>2 DEF Recorded, DepthsInv
<1>4. held' = [held EXCEPT ![t][m] = 1]
    BY <1>3 DEF HeldMore, DepthsInv
<1>5. /\ held' \in [Threads -> [Mutexes -> 0 .. MaxDepth + 1]]
      /\ \A u \in Threads : u # t => held'[u] = held[u]
      /\ \A k \in Mutexes : held'[t][k] = IF k = m THEN 1 ELSE held[t][k]
    <2>1. 1 \in 0 .. MaxDepth + 1
        OBVIOUS
    <2> QED BY <1>4, <2>1, HeldEffect
<1>6. ASSUME NEW k \in Mutexes PROVE held'[t][k] = Counted(t, k)'
    <2>1. Counted(t, k)' = Recorded(t, k)'
        BY DEF Counted
    <2>2. Recorded(t, k)' = IF k = m THEN 1 ELSE Recorded(t, k)
        BY <1>1, <1>3 DEF Recorded
    <2> QED BY <1>2, <1>5, <2>1, <2>2
<1>7. \A k \in Mutexes :
         /\ owner[k] \notin {t, NoThread} => owner'[k] = owner[k]
         /\ owner'[k] \in {owner[k], t, NoThread}
         /\ owner'[k] = NoThread => recursiveDepth'[k] <= 0
         /\ target'[t] # k
    BY <1>1 DEF DepthsInv
<1> QED BY <1>5, <1>6, <1>7, StepOfOwner DEF DepthsInv

\* t locks a mutex it owns once more, or unlocks it but not for the last time.
LEMMA DepthChangeKeepsDepths ==
    ASSUME LinksInv, PlacesInv, DepthsInv, NEW t \in Threads, NEW m \in Mutexes,
           pc[t] = "run", owner[m] = t, NEW d \in 0 .. MaxDepth,
           recursiveDepth[m] >= 0, recursiveDepth' = [recursiveDepth EXCEPT ![m] = d],
           NEW h, h = d + 1, held' = [held EXCEPT ![t][m] = h],
           UNCHANGED <<owner, pc, target, depth>>
    PROVE  DepthsInv'
<1> USE MutexAssumption
<1>1. /\ recursiveDepth' \in [Mutexes -> -1 .. MaxDepth]
      /\ \A k \in Mutexes : recursiveDepth'[k] = IF k = m THEN d ELSE recursiveDepth[k]
      /\ target[t] = NoMutex
    BY RunsFree DEF DepthsInv
<1>2. \A k \in Mutexes : held[t][k] = Recorded(t, k)
    BY DEF DepthsInv, Counted
<1>3. h \in 0 .. MaxDepth + 1
    OBVIOUS
<1>4. /\ held' \in [Threads -> [Mutexes -> 0 .. MaxDepth + 1]]
      /\ \A u \in Threads : u # t => held'[u] = held[u]
      /\ \A k \in Mutexes : held'[t][k] = IF k = m THEN h ELSE held[t][k]
    BY <1>3 DEF DepthsInv
<1>5. ASSUME NEW k \in Mutexes PROVE held'[t][k] = Counted(t, k)'
    <2>1. Counted(t, k)' = Recorded(t, k)'
        BY DEF Counted
    <2>2. Recorded(t, k)' = IF k = m THEN h ELSE Recorded(t, k)
        BY <1>1 DEF Recorded
    <2> QED BY <1>2, <1>4, <2>1, <2>2
<1>6. \A k \in Mutexes :
         /\ owner[k] \notin {t, NoThread} => recursiveDepth'[k] = recursiveDepth[k]
         /\ recursiveDepth'[k] < 0 <=> recursiveDepth[k] < 0
         /\ owner'[k] = NoThread => recursiveDepth'[k] <= 0
         /\ target'[t] # k
    BY <1>1 DEF DepthsInv
<1> QED BY <1>1, <1>4, <1>5, <1>6, StepOfOwner DEF DepthsInv

\* t starts to wait for a mutex, in lock() or at the end of wait().
LEMMA EnqueueKeepsDepths ==
    ASSUME LinksInv, PlacesInv, DepthsInv, NEW t \in Threads, NEW m \in Mutexes,
           owner[m] \notin {NoThread, t},
           \/ pc[t] = "run" /\ pc' = [pc EXCEPT ![t] = "lock"]
           \/ pc[t] = "cond" /\ m = CondMutex /\ pc' = [pc EXCEPT ![t] = "relock"],
           target' = [target EXCEPT ![t] = m],
           UNCHANGED <<owner, recursiveDepth, held, depth>>
    PROVE  DepthsInv'
<1> USE MutexAssumption
<1>1. /\ \A u \in Threads : target'[u] = IF u = t THEN m ELSE target[u]
      /\ \A u \in Threads : u # t => pc'[u] = pc[u]
      /\ \/ pc[t] = "run" /\ pc'[t] = "lock"
         \/ pc[t] = "cond" /\ m = CondMutex /\ pc'[t] = "relock"
    BY DEF PlacesInv, LinksInv
<1>2. ASSUME NEW k \in Mutexes PROVE held'[t][k] = Counted(t, k)'
    <2>1. held[t][k] = Counted(t, k) /\ Recorded(t, k)' = Recorded(t, k)
        BY DEF DepthsInv, Recorded
    <2>2. Recorded(t, m) = 0
        BY DEF Recorded
    <2> QED BY <1>1, <2>1, <2>2 DEF Counted
<1>3. \A k \in Mutexes :
         /\ owner'[k] = NoThread => recursiveDepth'[k] <= 0
         /\ owner'[k] = t => target'[t] # k
    BY <1>1 DEF DepthsInv
<1> QED BY <1>1, <1>2, <1>3, StepOfOwner DEF DepthsInv

\* t gives m up: the last unlock(), or wait(), which remembers the depth.
LEMMA ReleaseKeepsDepths ==
    ASSUME LinksInv, PlacesInv, DepthsInv, NEW t \in Threads, NEW m \in Mutexes,
           pc[t] = "run", owner[m] = t,
           \A k \in Mutexes : k # m => owner'[k] = owner[k],
           owner'[m] = NoThread \/ (owner'[m] \in Threads \ {t} /\ target[owner'[m]] = m),
           target' = target,
           \/ /\ recursiveDepth[m] <= 0 /\ HeldLess(t, m)
              /\ UNCHANGED <<recursiveDepth, pc, depth>>
           \/ /\ m = CondMutex /\ held' = held /\ pc' = [pc EXCEPT ![t] = "cond"]
              /\ depth' = [depth EXCEPT ![t] = IF recursiveDepth[m] < 0 THEN 0
                                               ELSE recursiveDepth[m]]
              /\ recursiveDepth' = IF recursiveDepth[m] < 0 THEN recursiveDepth
                                   ELSE [recursiveDepth EXCEPT ![m] = 0]
    PROVE  DepthsInv'
<1> USE MutexAssumption
<1>1. target[t] = NoMutex /\ recursiveDepth[m] \in -1 .. MaxDepth
    BY RunsFree DEF DepthsInv
<1>2. \A k \in Mutexes : held[t][k] = Recorded(t, k)
    BY DEF DepthsInv, Counted
<1>3. /\ recursiveDepth' \in [Mutexes -> -1 .. MaxDepth]
      /\ \A k \in Mutexes : k # m => recursiveDepth'[k] = recursiveDepth[k]
      /\ recursiveDepth'[m] <= 0
      /\ recursiveDepth'[m] < 0 <=> recursiveDepth[m] < 0
    <2>1. CASE recursiveDepth' = recursiveDepth /\ recursiveDepth[m] <= 0
        BY <2>1 DEF DepthsInv
    <2>2. CASE recursiveDepth' = IF recursiveDepth[m] < 0 THEN recursiveDepth
                                 ELSE [recursiveDepth EXCEPT ![m] = 0]
        BY <1>1, <2>2 DEF DepthsInv
    <2> QED BY <2>1, <2>2
<1>4. \A k \in Mutexes : Recorded(t, k)' = IF k = m THEN 0 ELSE Recorded(t, k)
    BY <1>3 DEF Recorded
<1>5. \A k \in Mutexes :
         /\ owner[k] \notin {t, NoThread} => owner'[k] = owner[k]
                                             /\ recursiveDepth'[k] = recursiveDepth[k]
         /\ owner'[k] \in {owner[k], t, NoThread}
            \/ (target[owner'[k]] = k /\ recursiveDepth'[k] <= 0)
         /\ recursiveDepth'[k] < 0 <=> recursiveDepth[k] < 0
         /\ owner'[k] = NoThread => recursiveDepth'[k] <= 0
         /\ target'[t] # k
    BY <1>1, <1>3 DEF DepthsInv
<1>6. CASE recursiveDepth[m] <= 0 /\ HeldLess(t, m) /\ UNCHANGED <<pc, depth>>
    <2>1. held[t][m] = 1
        BY <1>1, <1>2, <1>6 DEF Recorded
    <2>2. held' = [held EXCEPT ![t][m] = 0]
        BY <1>6, <2>1 DEF HeldLess, DepthsInv
    <2>3. /\ held' \in [Threads -> [Mutexes -> 0 .. MaxDepth + 1]]
          /\ \A u \in Threads : u # t => held'[u] = held[u]
          /\ \A k \in Mutexes : held'[t][k] = IF k = m THEN 0 ELSE held[t][k]
        <3>1. 0 \in 0 .. MaxDepth + 1
            OBVIOUS
        <3> QED BY <2>2, <3>1 DEF DepthsInv
    <2>4. \A k \in Mutexes : held'[t][k] = Counted(t, k)'
        BY <1>2, <1>4, <1>6, <2>3 DEF Counted
    <2>5. /\ depth' \in [Threads -> 0 .. MaxDepth]
          /\ \A u \in Threads : u # t => /\ pc'[u] = pc[u] /\ target'[u] = target[u]
                                         /\ depth'[u] = depth[u] /\ held'[u] = held[u]
          /\ CondMutex \notin RecursiveMutexes => depth'[t] = 0
          /\ pc'[t] # "cond"
        BY <1>6, <2>3 DEF DepthsInv
    <2> QED BY <1>3, <1>5, <2>3, <2>4, <2>5, StepOfOwner
<1>7. CASE /\ m = CondMutex /\ held' = held /\ pc' = [pc EXCEPT ![t] = "cond"]
           /\ depth' = [depth EXCEPT ![t] = IF recursiveDepth[m] < 0 THEN 0
                                            ELSE recursiveDepth[m]]
    <2> DEFINE d == IF recursiveDepth[m] < 0 THEN 0 ELSE recursiveDepth[m]
    <2>1. d \in 0 .. MaxDepth /\ held[t][m] = d + 1 /\ (m \notin RecursiveMutexes => d = 0)
        BY <1>1, <1>2 DEF Recorded, DepthsInv
    <2>2. depth' = [depth EXCEPT ![t] = d]
        BY <1>7
    <2> HIDE DEF d
    <2>3. /\ depth' \in [Threads -> 0 .. MaxDepth] /\ depth'[t] = d
          /\ \A u \in Threads : u # t => depth'[u] = depth[u] /\ pc'[u] = pc[u]
          /\ pc'[t] = "cond"
        BY <1>7, <2>1, <2>2 DEF DepthsInv, PlacesInv
    <2>4. \A k \in Mutexes : held'[t][k] = Counted(t, k)'
        BY <1>2, <1>4, <1>7, <2>1, <2>3 DEF Counted
    <2>5. owner'[CondMutex] # t
        BY <1>7
    <2>6. /\ held' \in [Threads -> [Mutexes -> 0 .. MaxDepth + 1]]
          /\ \A u \in Threads : u # t => /\ pc'[u] = pc[u] /\ target'[u] = target[u]
                                         /\ depth'[u] = depth[u] /\ held'[u] = held[u]
          /\ CondMutex \notin RecursiveMutexes => depth'[t] = 0
        BY <1>7, <2>1, <2>3 DEF DepthsInv
    <2> QED BY <1>3, <1>5, <2>3, <2>4, <2>5, <2>6, StepOfOwner
<1> QED BY <1>6, <1>7

\* The loop of lock() or of wait() ends with the mutex.
LEMMA LoopEndKeepsDepths ==
    ASSUME LinksInv, PlacesInv, DepthsInv, NEW t \in Threads, NEW m \in Mutexes,
           target[t] = m, owner[m] = t,
           pc' = [pc EXCEPT ![t] = "run"], target' = [target EXCEPT ![t] = NoMutex],
           \/ pc[t] = "lock" /\ HeldMore(t, m) /\ UNCHANGED recursiveDepth
           \/ /\ pc[t] = "relock" /\ held' = held
              /\ recursiveDepth' = IF recursiveDepth[m] >= 0
                                   THEN [recursiveDepth EXCEPT ![m] = depth[t]]
                                   ELSE recursiveDepth,
           UNCHANGED <<owner, depth>>
    PROVE  DepthsInv'
<1> USE MutexAssumption
<1>1. /\ \A u \in Threads : u # t => pc'[u] = pc[u] /\ target'[u] = target[u]
      /\ pc'[t] = "run" /\ target'[t] = NoMutex
      /\ recursiveDepth[m] \in -1 .. 0 /\ depth[t] \in 0 .. MaxDepth
    BY DEF PlacesInv, LinksInv, DepthsInv
<1>2. \A k \in Mutexes : Counted(t, k)' = Recorded(t, k)'
    BY <1>1 DEF Counted
<1>3. /\ depth' \in [Threads -> 0 .. MaxDepth] /\ \A u \in Threads : depth'[u] = depth[u]
      /\ CondMutex \notin RecursiveMutexes => depth'[t] = 0
    BY DEF DepthsInv
<1>4. CASE pc[t] = "lock" /\ HeldMore(t, m) /\ UNCHANGED recursiveDepth
    <2>1. held[t][m] = 0 /\ \A k \in Mutexes : k # m => held[t][k] = Recorded(t, k)
        BY <1>4 DEF DepthsInv, Counted
    <2>2. held' = [held EXCEPT ![t][m] = 1]
        BY <1>4, <2>1 DEF HeldMore, DepthsInv
    <2>3. 1 \in 0 .. MaxDepth + 1
        OBVIOUS
    <2>4. /\ held' \in [Threads -> [Mutexes -> 0 .. MaxDepth + 1]]
          /\ \A u \in Threads : u # t => held'[u] = held[u]
          /\ \A k \in Mutexes : held'[t][k] = IF k = m THEN 1 ELSE held[t][k]
        BY <2>2, <2>3 DEF DepthsInv
    <2>5. Recorded(t, m)' = 1 /\ \A k \in Mutexes : k # m => Recorded(t, k)' = Recorded(t, k)
        BY <1>1, <1>4 DEF Recorded
    <2>6. \A k \in Mutexes :
             /\ owner'[k] = owner[k] /\ recursiveDepth'[k] = recursiveDepth[k]
             /\ owner'[k] = NoThread => recursiveDepth'[k] <= 0
             /\ target'[t] # k
             /\ held'[t][k] = Counted(t, k)'
        BY <1>1, <1>2, <1>4, <2>1, <2>4, <2>5 DEF DepthsInv
    <2>7. recursiveDepth' \in [Mutexes -> -1 .. MaxDepth]
        BY <1>4 DEF DepthsInv
    <2> QED BY <1>1, <1>3, <2>4, <2>6, <2>7, StepOfOwner
<1>5. CASE /\ pc[t] = "relock" /\ held' = held
           /\ recursiveDepth' = IF recursiveDepth[m] >= 0
                                THEN [recursiveDepth EXCEPT ![m] = depth[t]]
                                ELSE recursiveDepth
    <2>1. m = CondMutex
        BY <1>5 DEF PlacesInv
    <2>2. /\ held[t][m] = depth[t] + 1
          /\ \A k \in Mutexes : k # m => held[t][k] = Recorded(t, k)
          /\ recursiveDepth[m] < 0 => depth[t] = 0
        BY <1>5, <2>1 DEF DepthsInv, Counted
    <2>3. /\ recursiveDepth' \in [Mutexes -> -1 .. MaxDepth]
          /\ \A k \in Mutexes : k # m => recursiveDepth'[k] = recursiveDepth[k]
          /\ recursiveDepth'[m] = IF recursiveDepth[m] >= 0 THEN depth[t] ELSE recursiveDepth[m]
        BY <1>1, <1>5 DEF DepthsInv
    <2>4. /\ Recorded(t, m)' = depth[t] + 1
          /\ \A k \in Mutexes : k # m => Recorded(t, k)' = Recorded(t, k)
        BY <1>1, <2>2, <2>3 DEF Recorded
    <2>5. \A k \in Mutexes :
             /\ owner'[k] = owner[k] /\ (k # m => recursiveDepth'[k] = recursiveDepth[k])
             /\ recursiveDepth'[k] < 0 <=> recursiveDepth[k] < 0
             /\ owner'[k] = NoThread => recursiveDepth'[k] <= 0
             /\ target'[t] # k
             /\ held'[t][k] = Counted(t, k)'
        BY <1>1, <1>2, <1>5, <2>2, <2>3, <2>4 DEF DepthsInv
    <2>6. held' \in [Threads -> [Mutexes -> 0 .. MaxDepth + 1]]
        BY <1>5 DEF DepthsInv
    <2> QED BY <1>1, <1>3, <1>5, <2>3, <2>5, <2>6, StepOfOwner
<1> QED BY <1>4, <1>5

\* wait() finds the mutex free.
LEMMA RetakeKeepsDepths ==
    ASSUME LinksInv, PlacesInv, DepthsInv, NEW t \in Threads, pc[t] = "cond",
           TakeFree(t, CondMutex), pc' = [pc EXCEPT ![t] = "run"],
           recursiveDepth' = IF recursiveDepth[CondMutex] < 0 THEN recursiveDepth
                             ELSE [recursiveDepth EXCEPT ![CondMutex] = depth[t]],
           UNCHANGED <<target, depth, held>>
    PROVE  DepthsInv'
<1> USE MutexAssumption
<1> DEFINE m == CondMutex
<1>1. /\ \A k \in Mutexes : owner'[k] = IF k = m THEN t ELSE owner[k]
      /\ owner[m] = NoThread /\ target[t] = NoMutex
      /\ \A u \in Threads : u # t => pc'[u] = pc[u]
      /\ pc'[t] = "run" /\ depth[t] \in 0 .. MaxDepth
      /\ recursiveDepth[m] \in -1 .. MaxDepth
    <2>1. owner[m] = NoThread /\ owner' = [owner EXCEPT ![m] = t]
        BY DEF TakeFree
    <2>2. \A k \in Mutexes : owner'[k] = IF k = m THEN t ELSE owner[k]
        BY <2>1 DEF LinksInv
    <2>3. target[t] = NoMutex
        BY RunsFree
    <2>4. pc'[t] = "run" /\ \A u \in Threads : u # t => pc'[u] = pc[u]
        BY DEF PlacesInv
    <2>5. depth[t] \in 0 .. MaxDepth /\ recursiveDepth[m] \in -1 .. MaxDepth
        BY DEF DepthsInv
    <2> QED BY <2>1, <2>2, <2>3, <2>4, <2>5
<1>2. /\ held[t][m] = depth[t] + 1
      /\ \A k \in Mutexes : k # m => held[t][k] = Recorded(t, k)
      /\ recursiveDepth[m] < 0 => depth[t] = 0
    BY DEF DepthsInv, Counted
<1>3. /\ recursiveDepth' \in [Mutexes -> -1 .. MaxDepth]
      /\ \A k \in Mutexes : k # m => recursiveDepth'[k] = recursiveDepth[k]
      /\ recursiveDepth'[m] = IF recursiveDepth[m] < 0 THEN recursiveDepth[m] ELSE depth[t]
    BY <1>1 DEF DepthsInv
<1> HIDE DEF m
<1>4. m \in Mutexes
    BY DEF m
<1>5. /\ Recorded(t, m)' = depth[t] + 1
      /\ \A k \in Mutexes : k # m => Recorded(t, k)' = Recorded(t, k)
    BY <1>1, <1>2, <1>3, <1>4 DEF Recorded
<1>6. \A k \in Mutexes : Counted(t, k)' = Recorded(t, k)'
    BY <1>1 DEF Counted
<1>7. \A k \in Mutexes :
         /\ owner[k] \notin {t, NoThread} => owner'[k] = owner[k]
                                             /\ recursiveDepth'[k] = recursiveDepth[k]
         /\ owner'[k] \in {owner[k], t, NoThread}
         /\ recursiveDepth'[k] < 0 <=> recursiveDepth[k] < 0
         /\ owner'[k] = NoThread => recursiveDepth'[k] <= 0
         /\ target'[t] # k
         /\ held'[t][k] = Counted(t, k)'
    BY <1>1, <1>2, <1>3, <1>4, <1>5, <1>6 DEF DepthsInv
<1>8. /\ depth' \in [Threads -> 0 .. MaxDepth]
      /\ held' \in [Threads -> [Mutexes -> 0 .. MaxDepth + 1]]
      /\ CondMutex \notin RecursiveMutexes => depth'[t] = 0
      /\ \A u \in Threads : u # t => /\ pc'[u] = pc[u] /\ target'[u] = target[u]
                                     /\ depth'[u] = depth[u] /\ held'[u] = held[u]
    BY <1>1 DEF DepthsInv
<1> QED BY <1>1, <1>3, <1>7, <1>8, StepOfOwner

LEMMA StepKeepsDepths ==
    ASSUME LinksInv, PlacesInv, DepthsInv, SavedInv, NEW t \in Threads, Step(t)
    PROVE  DepthsInv'
<1> USE MutexAssumption
<1>a. ASSUME UNCHANGED <<owner, recursiveDepth, held, depth, target>>,
             pc' = pc \/ \E from, to \in {"run", "sleep"} :
                            pc[t] = from /\ pc' = [pc EXCEPT ![t] = to]
      PROVE  DepthsInv'
    <2>1. \A u \in Threads : pc'[u] = pc[u] \/ {pc[u], pc'[u]} \subseteq {"run", "sleep"}
        BY <1>a DEF PlacesInv
    <2>2. \A u \in Threads, k \in Mutexes : Recorded(u, k)' = Recorded(u, k)
        BY <1>a DEF Recorded
    <2>3. \A u \in Threads, k \in Mutexes : Counted(u, k)' = Counted(u, k)
        BY <1>a, <2>1, <2>2 DEF Counted
    <2> QED BY <1>a, <2>1, <2>3 DEF DepthsInv
<1>b. ASSUME NEW m \in Mutexes, pc[t] = "run", owner[m] = t,
             recursiveDepth[m] \in 0 .. MaxDepth - 1,
             recursiveDepth' = [recursiveDepth EXCEPT ![m] = @ + 1], HeldMore(t, m),
             UNCHANGED <<owner, pc, target, depth>>
      PROVE  DepthsInv'
    <2> DEFINE d == recursiveDepth[m] + 1
               h == held[t][m] + 1
    <2>1. held[t][m] = recursiveDepth[m] + 1
        BY <1>b DEF DepthsInv, Counted, Recorded
    <2>2. /\ d \in 0 .. MaxDepth /\ h = d + 1 /\ recursiveDepth[m] >= 0
          /\ recursiveDepth' = [recursiveDepth EXCEPT ![m] = d]
        BY <1>b, <2>1
    <2>3. held' = [held EXCEPT ![t][m] = h]
        BY <1>b DEF HeldMore, DepthsInv
    <2> HIDE DEF d, h
    <2> QED BY <1>b, <2>2, <2>3, DepthChangeKeepsDepths
<1>1. ASSUME NEW m \in Mutexes, PKlock(t, m) PROVE DepthsInv'
    <2>0. pc[t] = "run" /\ depth' = depth
        BY <1>1 DEF PKlock, Calls, Runs, condVars
    <2>1. CASE TakeFree(t, m) /\ HeldMore(t, m) /\ UNCHANGED <<recursiveDepth, pc, target>>
        BY <2>0, <2>1, TakeFreeKeepsDepths
    <2>2. CASE /\ owner[m] = t /\ recursiveDepth[m] \in 0 .. MaxDepth - 1
               /\ recursiveDepth' = [recursiveDepth EXCEPT ![m] = @ + 1]
               /\ HeldMore(t, m) /\ UNCHANGED <<listVars, pc, target>>
        BY <1>b, <2>0, <2>2 DEF listVars
    <2>3. CASE /\ owner[m] \notin {NoThread, t} /\ Enqueue(t, m)
               /\ pc' = [pc EXCEPT ![t] = "lock"]
               /\ target' = [target EXCEPT ![t] = m]
               /\ UNCHANGED <<recursiveDepth, held>>
        BY <2>0, <2>3, EnqueueKeepsDepths DEF Enqueue, listVars
    <2> QED BY <1>1, <2>1, <2>2, <2>3 DEF PKlock
<1>2. ASSUME NEW m \in Mutexes, PKtryLock(t, m) PROVE DepthsInv'
    <2>0. pc[t] = "run" /\ UNCHANGED <<depth, pc, target>> /\ HeldMore(t, m)
        BY <1>2 DEF PKtryLock, Calls, Runs, condVars
    <2>1. CASE TakeFree(t, m) /\ UNCHANGED recursiveDepth
        BY <2>0, <2>1, TakeFreeKeepsDepths
    <2>2. CASE /\ owner[m] = t /\ recursiveDepth[m] \in 0 .. MaxDepth - 1
               /\ recursiveDepth' = [recursiveDepth EXCEPT ![m] = @ + 1]
               /\ UNCHANGED listVars
        BY <1>b, <2>0, <2>2 DEF listVars
    <2> QED BY <1>2, <2>1, <2>2 DEF PKtryLock
<1>3. ASSUME NEW m \in Mutexes, PKunlock(t, m) PROVE DepthsInv'
    <2>0. pc[t] = "run" /\ owner[m] = t /\ UNCHANGED <<depth, pc, target, base>> /\ HeldLess(t, m)
        BY <1>3 DEF PKunlock, Runs, condVars
    <2>1. CASE /\ recursiveDepth[m] > 0
               /\ recursiveDepth' = [recursiveDepth EXCEPT ![m] = @ - 1]
               /\ UNCHANGED listVars
        <3> DEFINE d == recursiveDepth[m] - 1
                   h == held[t][m] - 1
        <3>1. held[t][m] = recursiveDepth[m] + 1 /\ recursiveDepth[m] \in 1 .. MaxDepth
            BY <2>0, <2>1 DEF DepthsInv, Counted, Recorded
        <3>2. /\ d \in 0 .. MaxDepth /\ h = d + 1 /\ recursiveDepth[m] >= 0
              /\ recursiveDepth' = [recursiveDepth EXCEPT ![m] = d]
            BY <2>1, <3>1
        <3>3. held' = [held EXCEPT ![t][m] = h]
            BY <2>0 DEF HeldLess, DepthsInv
        <3> HIDE DEF d, h
        <3> QED BY <2>0, <2>1, <3>2, <3>3, DepthChangeKeepsDepths DEF listVars
    <2>2. CASE recursiveDepth[m] <= 0 /\ Release(t, m) /\ UNCHANGED recursiveDepth
        <3>1. target[t] = NoMutex
            BY <2>0, RunsFree
        <3>2. /\ \A k \in Mutexes : k # m => owner'[k] = owner[k]
              /\ owner'[m] = NoThread \/ (owner'[m] \in Threads \ {t} /\ target[owner'[m]] = m)
            BY <2>0, <2>2, <3>1, ReleaseKeepsLinks
        <3> QED BY <2>0, <2>2, <3>2, ReleaseKeepsDepths
    <2> QED BY <1>3, <2>1, <2>2 DEF PKunlock
<1>4. CASE LockLoop(t)
    <2>0. pc[t] \in {"lock", "relock"} /\ UNCHANGED <<owner, depth>> /\ target[t] \in Mutexes
        BY <1>4 DEF LockLoop, listVars, condVars, PlacesInv, LinksInv
    <2>1. CASE UNCHANGED <<pc, target, recursiveDepth, held>>
        BY <1>a, <2>0, <2>1
    <2>2. CASE /\ owner[target[t]] = t
               /\ pc' = [pc EXCEPT ![t] = "run"]
               /\ target' = [target EXCEPT ![t] = NoMutex]
               /\ IF pc[t] = "lock"
                  THEN HeldMore(t, target[t]) /\ UNCHANGED recursiveDepth
                  ELSE /\ recursiveDepth' = IF recursiveDepth[target[t]] >= 0
                             THEN [recursiveDepth EXCEPT ![target[t]] = depth[t]]
                             ELSE recursiveDepth
                       /\ UNCHANGED held
        <3>1. PICK m \in Mutexes : m = target[t]
            BY <2>0
        <3>2. CASE pc[t] = "lock"
            BY <2>0, <2>2, <3>1, <3>2, LoopEndKeepsDepths
        <3>3. CASE pc[t] = "relock"
            BY <2>0, <2>2, <3>1, <3>3, LoopEndKeepsDepths
        <3> QED BY <2>0, <3>2, <3>3
    <2> QED BY <1>4, <2>1, <2>2 DEF LockLoop
<1>5. CASE \E pr \in Priorities : setPriority(t, pr)
    BY <1>5, <1>a DEF setPriority, condVars
<1>6. CASE cwait(t)
    <2>0. /\ pc[t] = "run" /\ owner[CondMutex] = t /\ UNCHANGED <<target, base, held>>
          /\ Release(t, CondMutex)
          /\ pc' = [pc EXCEPT ![t] = "cond"]
          /\ depth' = [depth EXCEPT ![t] = IF recursiveDepth[CondMutex] < 0 THEN 0
                                           ELSE recursiveDepth[CondMutex]]
          /\ recursiveDepth' = IF recursiveDepth[CondMutex] < 0 THEN recursiveDepth
                               ELSE [recursiveDepth EXCEPT ![CondMutex] = 0]
        BY <1>6 DEF cwait, Calls, Runs
    <2>1. target[t] = NoMutex
        BY <2>0, RunsFree
    <2>2. /\ \A k \in Mutexes : k # CondMutex => owner'[k] = owner[k]
          /\ owner'[CondMutex] = NoThread
             \/ (owner'[CondMutex] \in Threads \ {t} /\ target[owner'[CondMutex]] = CondMutex)
        BY <2>0, <2>1, ReleaseKeepsLinks
    <2> QED BY <2>0, <2>2, ReleaseKeepsDepths
<1>7. CASE PKlockToDepth(t)
    <2>0. pc[t] = "cond" /\ UNCHANGED <<depth, held>>
        BY <1>7 DEF PKlockToDepth, condVars
    <2>1. CASE /\ TakeFree(t, CondMutex)
               /\ recursiveDepth' = IF recursiveDepth[CondMutex] < 0 THEN recursiveDepth
                                    ELSE [recursiveDepth EXCEPT ![CondMutex] = depth[t]]
               /\ pc' = [pc EXCEPT ![t] = "run"] /\ UNCHANGED target
        BY <2>0, <2>1, RetakeKeepsDepths
    <2>2. CASE /\ owner[CondMutex] \notin {NoThread, t} /\ Enqueue(t, CondMutex)
               /\ pc' = [pc EXCEPT ![t] = "relock"]
               /\ target' = [target EXCEPT ![t] = CondMutex]
               /\ UNCHANGED recursiveDepth
        BY <2>0, <2>2, EnqueueKeepsDepths DEF Enqueue, listVars
    <2> QED BY <1>7, <2>1, <2>2 DEF PKlockToDepth
<1>8. CASE signal(t) \/ broadcast(t)
    BY <1>8, <1>a DEF signal, broadcast, listVars
<1>9. CASE sleep(t) \/ IRQwakeThreads(t)
    <2>1. /\ UNCHANGED <<owner, recursiveDepth, held, depth, target>>
          /\ \/ pc[t] = "run" /\ pc' = [pc EXCEPT ![t] = "sleep"]
             \/ pc[t] = "sleep" /\ pc' = [pc EXCEPT ![t] = "run"]
        BY <1>9 DEF sleep, IRQwakeThreads, listVars, condVars, Calls, Runs
    <2> QED BY <1>a, <2>1
<1>10. CASE SpuriousWakeup(t)
    BY <1>10, <1>a DEF SpuriousWakeup, listVars, condVars
<1> QED BY <1>1, <1>2, <1>3, <1>4, <1>5, <1>6, <1>7, <1>8, <1>9, <1>10 DEF Step

-----------------------------------------------------------------------------
(* The invariant and what follows from it *)

LEMMA MutexInit == Init => MutexInv
<1> SUFFICES ASSUME Init PROVE MutexInv
    OBVIOUS
<1> USE MutexAssumption
<1>1. LinksInv
    <2>1. \A m \in Mutexes : waiting[m] = {} /\ front[m] = NoThread /\ owner[m] = NoThread
        BY DEF Init
    <2>2. FrontIsHighest
        BY <2>1 DEF FrontIsHighest, HeapTops
    <2> QED BY <2>1, <2>2 DEF Init, LinksInv
<1>2. PlacesInv
    <2>1. Once(cond) /\ \A t \in Threads : ~In(cond, t)
        BY DEF Init, Once, In
    <2> QED BY <2>1 DEF Init, PlacesInv, Places
<1>3. DepthsInv
    <2>1. \A t \in Threads, m \in Mutexes : Counted(t, m) = 0 /\ held[t][m] = 0
        BY DEF Init, Counted, Recorded
    <2> QED BY <2>1 DEF Init, DepthsInv
<1>4. SavedInv
    BY DEF Init, SavedInv, NoPriorityLeak
<1> QED BY <1>1, <1>2, <1>3, <1>4 DEF MutexInv

LEMMA MutexStutter == MutexInv /\ UNCHANGED vars => MutexInv'
<1> SUFFICES ASSUME MutexInv, UNCHANGED vars PROVE MutexInv'
    OBVIOUS
<1> USE DEF vars, MutexInv
<1>1. LinksInv'
    BY DEF LinksInv, FrontIsHighest, HeapTops
<1>2. PlacesInv'
    BY DEF PlacesInv, In, Once
<1>3. DepthsInv'
    <2>1. \A t \in Threads, m \in Mutexes : Counted(t, m)' = Counted(t, m)
        BY DEF Counted, Recorded
    <2> QED BY <2>1 DEF DepthsInv
<1>4. SavedInv'
    BY DEF SavedInv, NoPriorityLeak
<1> QED BY <1>1, <1>2, <1>3, <1>4

LEMMA MutexStep == MutexInv /\ [Next]_vars => MutexInv'
<1>1. ASSUME MutexInv, NEW t \in Threads, Step(t) PROVE MutexInv'
    BY <1>1, StepKeepsLinks, StepKeepsPlaces, StepKeepsDepths DEF MutexInv
<1> QED BY <1>1, MutexStutter DEF Next, Step

\* The invariant of the mutexes and the condition variable.
THEOREM MutexInvariant == Spec => []MutexInv
<1> QED BY MutexInit, MutexStep, PTL DEF Spec

\* Mutex::owner, Thread::mutexLocked, Mutex::waiting and Thread::mutexWaiting
\* always agree, a mutex with waiters has an owner, and a thread asleep in
\* lock() or wait() is in the list that will wake it: the UNEXPECTED errors of
\* sync.cpp cannot happen, for any number of threads and mutexes.
THEOREM MutexOwnership == Spec => []OwnershipConsistent
<1>1. MutexInv => OwnershipConsistent
    <2> SUFFICES ASSUME MutexInv PROVE OwnershipConsistent
        OBVIOUS
    <2>1. TypeOK
        BY DEF MutexInv, LinksInv, PlacesInv, DepthsInv, SavedInv, TypeOK
    <2>2. ASSUME NEW m \in Mutexes PROVE waiting[m] = {t \in Threads : mutexWaiting[t] = m}
        <3>1. waiting[m] \subseteq Threads
            BY DEF MutexInv, LinksInv
        <3> QED BY <3>1 DEF MutexInv, LinksInv
    <2>3. \A t \in Threads : /\ condWait[t] <=> \E i \in DOMAIN cond : cond[i] = t
                             /\ \A i, j \in DOMAIN cond : cond[i] = t /\ cond[j] = t => i = j
        BY DEF MutexInv, PlacesInv, In, Once
    <2> QED BY <2>1, <2>2, <2>3 DEF MutexInv, LinksInv, OwnershipConsistent
<1> QED BY <1>1, MutexInvariant, PTL

\* unlock() hands the mutex to a waiter of the highest priority, although
\* inheritance changes priorities of threads inside the heaps.
THEOREM MutexFront == Spec => []FrontIsHighest
<1>1. MutexInv => FrontIsHighest
    BY DEF MutexInv, LinksInv
<1> QED BY <1>1, MutexInvariant, PTL

\* A thread that has unlocked all its mutexes is back at the priority it asked
\* for, in whatever order they were locked, inherited through and unlocked.
THEOREM MutexNoLeak == Spec => []NoPriorityLeak
<1>1. MutexInv => NoPriorityLeak
    BY DEF MutexInv, SavedInv
<1> QED BY <1>1, MutexInvariant, PTL

\* lock() and unlock() calls that have returned and recursiveDepth agree,
\* also when ConditionVariable::wait() has released and taken back all levels.
THEOREM MutexCalls == Spec => []CallsMatchOwnership
<1>1. MutexInv => CallsMatchOwnership
    BY DEF MutexInv, DepthsInv, CallsMatchOwnership, Counted, Recorded
<1> QED BY <1>1, MutexInvariant, PTL

-----------------------------------------------------------------------------
(* Inheritance, when no thread holds two mutexes *)

\* InheritsHighest for one thread.
Inherits(t) ==
    /\ base[t] <= prio[t]
    /\ \A m \in mutexLocked[t] : \A u \in waiting[m] : prio[u] <= prio[t]
    /\ prio[t] = base[t] \/ \E m \in mutexLocked[t] : \E u \in waiting[m] : prio[t] = prio[u]

\* A thread holds one mutex at most, and none while it waits.
OneHeld ==
    \A t \in Threads :
        /\ mutexLocked[t] = {} \/ \E m \in Mutexes : mutexLocked[t] = {m}
        /\ mutexWaiting[t] # NoMutex \/ pc[t] = "cond" => mutexLocked[t] = {}

InheritsInv == OneHeld /\ \A t \in Threads : Inherits(t)

LEMMA InheritsIsHighest ==
    ASSUME \A t \in Threads : Inherits(t) PROVE InheritsHighest
<1> SUFFICES ASSUME NEW t \in Threads,
                    NEW candidates,
                    candidates = {base[t]} \cup
                       {prio[u] : u \in UNION {waiting[m] : m \in mutexLocked[t]}}
             PROVE  prio[t] \in candidates /\ \A c \in candidates : c <= prio[t]
    BY DEF InheritsHighest
<1>1. \A c \in candidates : c = base[t] \/ \E m \in mutexLocked[t] : \E u \in waiting[m] : c = prio[u]
    OBVIOUS
<1>2. \A m \in mutexLocked[t] : \A u \in waiting[m] : prio[u] \in candidates
    OBVIOUS
<1> QED BY <1>1, <1>2 DEF Inherits

\* A thread holding none runs at its own priority.
LEMMA InheritsNothing ==
    ASSUME MutexInv, NEW t \in Threads, mutexLocked[t] = {} PROVE Inherits(t)
<1>1. base[t] = prio[t] /\ prio[t] \in Int
    BY MutexAssumption DEF MutexInv, SavedInv, NoPriorityLeak, LinksInv
<1> QED BY <1>1 DEF Inherits

\* The owner of a mutex waits for nothing: the walk ends where it starts.
LEMMA WalkEnds ==
    ASSUME MutexInv, OneHeld, NEW m \in Mutexes, owner[m] \in Threads
    PROVE  WalkFrom(owner[m]) = {owner[m]} /\ mutexLocked[owner[m]] = {m}
<1> DEFINE o == owner[m]
<1>1. o \in Threads /\ m \in mutexLocked[o]
    BY DEF MutexInv, LinksInv
<1>2. mutexLocked[o] = {m} /\ mutexWaiting[o] = NoMutex
    BY <1>1 DEF OneHeld
<1> HIDE DEF o
<1>3. o \in WalkFrom(o)
    BY <1>1 DEF WalkFrom
<1>4. \A u \in WalkFrom(o) : u \in {o}
    <2>1. {o} \in SUBSET Threads
        BY <1>1
    <2>2. o \in {o} /\ \A u \in {o} : mutexWaiting[u] # NoMutex => owner[mutexWaiting[u]] \in {o}
        BY <1>2
    <2> QED BY <2>1, <2>2 DEF WalkFrom
<1> QED BY <1>2, <1>3, <1>4 DEF o

LEMMA FewerThanOne ==
    ASSUME MaxHeld <= 1, OneHeld, NEW t \in Threads, Cardinality(mutexLocked[t]) < MaxHeld
    PROVE  mutexLocked[t] = {}
<1>1. \A m : Cardinality({m}) = 1
    BY FS_Singleton
<1>2. MaxHeld \in Nat
    BY MutexAssumption
<1> QED BY <1>1, <1>2 DEF OneHeld

LEMMA TakeFreeInherits ==
    ASSUME MutexInv, MutexInv', InheritsInv, NEW t \in Threads, NEW m \in Mutexes,
           TakeFree(t, m), mutexLocked[t] = {}, pc'[t] # "cond",
           \A u \in Threads : u # t => pc'[u] = pc[u], mutexWaiting[t] = NoMutex,
           UNCHANGED base
    PROVE  InheritsInv'
<1>1. /\ \A u \in Threads : mutexLocked'[u] = IF u = t THEN {m} ELSE mutexLocked[u]
      /\ UNCHANGED <<prio, waiting, mutexWaiting>> /\ owner[m] = NoThread
    BY DEF TakeFree, MutexInv, LinksInv
<1>2. OneHeld'
    BY <1>1 DEF InheritsInv, OneHeld
<1>3. waiting[m] = {}
    BY <1>1, MutexAssumption DEF MutexInv, LinksInv
<1>4. prio[t] = base[t] /\ prio[t] \in Int
    BY MutexAssumption DEF MutexInv, SavedInv, NoPriorityLeak, LinksInv
<1>5. ASSUME NEW u \in Threads PROVE Inherits(u)'
    <2>1. CASE u = t
        BY <1>1, <1>3, <1>4, <2>1 DEF Inherits
    <2>2. CASE u # t
        BY <1>1, <2>2 DEF Inherits, InheritsInv
    <2> QED BY <2>1, <2>2
<1> QED BY <1>2, <1>5 DEF InheritsInv

LEMMA EnqueueInherits ==
    ASSUME MutexInv, MutexInv', InheritsInv, NEW t \in Threads, NEW m \in Mutexes,
           owner[m] \notin {NoThread, t}, Enqueue(t, m), target[t] = NoMutex,
           mutexLocked[t] = {}, pc'[t] # "cond",
           \A u \in Threads : u # t => pc'[u] = pc[u],
           UNCHANGED base
    PROVE  InheritsInv'
<1> USE MutexAssumption
<1> DEFINE o == owner[m]
<1>1. /\ owner' = owner /\ mutexLocked' = mutexLocked
      /\ \A k \in Mutexes, u \in Threads :
            u \in waiting'[k] <=> u \in waiting[k] \/ (k = m /\ u = t)
      /\ \A u \in Threads : mutexWaiting'[u] = IF u = t THEN m ELSE mutexWaiting[u]
    BY EnqueueEffect DEF MutexInv
<1>2. o \in Threads /\ o # t /\ WalkFrom(o) = {o} /\ mutexLocked[o] = {m}
    <2>1. o \in Threads
        BY DEF MutexInv, LinksInv
    <2> QED BY <2>1, WalkEnds DEF InheritsInv
<1> HIDE DEF o
<1>3. \A u \in Threads : prio'[u] = IF u = o /\ prio[o] < prio[t] THEN prio[t] ELSE prio[u]
    <2>1. prio' = [u \in Threads |->
                      IF u \in (IF prio[o] < prio[t] THEN WalkFrom(o) ELSE {})
                      THEN prio[t] ELSE prio[u]]
        BY DEF Enqueue, o
    <2> QED BY <1>2, <2>1
<1>4. OneHeld'
    BY <1>1 DEF InheritsInv, OneHeld
<1>5. \A k \in Mutexes : \A u \in waiting[k] : u \in Threads /\ u # o /\ prio'[u] = prio[u]
    <2>1. \A k \in Mutexes : \A u \in waiting[k] : u \in Threads /\ mutexLocked[u] = {}
        BY DEF MutexInv, LinksInv, InheritsInv, OneHeld
    <2> QED BY <1>2, <1>3, <2>1
<1>6. \A u \in Threads : prio[u] \in Int /\ base[u] \in Int
    <2>1. prio \in [Threads -> Priorities] /\ base \in [Threads -> Priorities]
        BY DEF MutexInv, LinksInv, SavedInv
    <2> QED BY <2>1
<1>7. \A u \in Threads : mutexLocked[u] \subseteq Mutexes
    BY DEF MutexInv, LinksInv
<1>8. \A k \in Mutexes : /\ waiting'[k] \subseteq Threads /\ waiting[k] \subseteq Threads
    BY DEF MutexInv, LinksInv
<1>9. ASSUME NEW u \in Threads PROVE Inherits(u)'
    <2>0. Inherits(u)
        BY DEF InheritsInv
    <2>1. CASE u = o
        <3>1. prio'[t] = prio[t] /\ t \in waiting'[m]
            BY <1>1, <1>2, <1>3
        <3>2. \A v \in waiting'[m] : v = t \/ v \in waiting[m]
            BY <1>1, <1>8
        <3>3. \A v \in waiting[m] : v \in waiting'[m]
            BY <1>1, <1>8
        <3>4. CASE prio[o] < prio[t]
            <4>1. prio'[o] = prio[t]
                BY <1>2, <1>3, <3>4
            <4>2. base[o] <= prio'[o]
                BY <1>2, <1>6, <2>0, <2>1, <3>4, <4>1 DEF Inherits
            <4>3. \A v \in waiting'[m] : prio'[v] <= prio'[o]
                BY <1>2, <1>5, <1>6, <2>0, <2>1, <3>1, <3>2, <3>4, <4>1 DEF Inherits
            <4> QED BY <1>1, <1>2, <2>1, <3>1, <4>1, <4>2, <4>3 DEF Inherits
        <3>5. CASE ~(prio[o] < prio[t])
            <4>1. prio'[o] = prio[o] /\ prio[t] <= prio[o]
                BY <1>2, <1>3, <1>6, <3>5
            <4>2. \A v \in waiting'[m] : prio'[v] <= prio'[o]
                BY <1>2, <1>5, <1>6, <2>0, <2>1, <3>1, <3>2, <4>1 DEF Inherits
            <4>3. prio'[o] = base'[o] \/ \E v \in waiting'[m] : prio'[o] = prio'[v]
                BY <1>2, <1>5, <2>0, <2>1, <3>3, <4>1 DEF Inherits
            <4> QED BY <1>1, <1>2, <2>0, <2>1, <4>1, <4>2, <4>3 DEF Inherits
        <3> QED BY <3>4, <3>5
    <2>2. CASE u # o
        <3>1. prio'[u] = prio[u] /\ mutexLocked'[u] = mutexLocked[u]
            BY <1>1, <1>3, <2>2
        <3>2. \A k \in mutexLocked[u] : waiting'[k] = waiting[k]
            <4>1. \A k \in mutexLocked[u] : k \in Mutexes /\ k # m
                BY <1>2, <1>7, <2>2 DEF MutexInv, LinksInv, o
            <4>2. \A k \in Mutexes, v \in Threads : k # m => (v \in waiting'[k] <=> v \in waiting[k])
                BY <1>1
            <4>3. ASSUME NEW k \in mutexLocked[u] PROVE waiting'[k] = waiting[k]
                <5>1. waiting'[k] \subseteq Threads /\ waiting[k] \subseteq Threads
                    BY <1>8, <4>1
                <5>2. \A v \in Threads : v \in waiting'[k] <=> v \in waiting[k]
                    BY <4>1, <4>2
                <5> QED BY <5>1, <5>2
            <4> QED BY <4>3
        <3> QED BY <1>5, <1>7, <2>0, <3>1, <3>2 DEF Inherits
    <2> QED BY <2>1, <2>2
<1> QED BY <1>4, <1>9 DEF InheritsInv

LEMMA ReleaseInherits ==
    ASSUME MutexInv, MutexInv', InheritsInv, NEW t \in Threads, NEW m \in Mutexes,
           owner[m] = t, target[t] = NoMutex, Release(t, m),
           \A u \in Threads : u # t => pc'[u] = pc[u], pc[t] = "run",
           \A u \in Threads : target[u] # NoMutex => pc'[u] # "cond",
           UNCHANGED base
    PROVE  InheritsInv'
<1> USE MutexAssumption
<1>0. PICK pr \in Priorities :
         /\ IsRecomputed(pr, savedPriority[t], mutexLocked[t] \ {m})
         /\ \E pn \in [Threads -> Priorities], ln \in [Threads -> SUBSET Mutexes] :
               /\ \A u \in Threads : pn[u] = IF u = t THEN pr ELSE prio[u]
               /\ \A u \in Threads : ln[u] = IF u = t THEN mutexLocked[t] \ {m}
                                             ELSE mutexLocked[u]
               /\ HandOff(m, pn, ln)
    BY ReleaseCallsHandOff DEF MutexInv
<1>1. PICK pn \in [Threads -> Priorities], ln \in [Threads -> SUBSET Mutexes] :
         /\ \A u \in Threads : pn[u] = IF u = t THEN pr ELSE prio[u]
         /\ \A u \in Threads : ln[u] = IF u = t THEN mutexLocked[t] \ {m} ELSE mutexLocked[u]
         /\ HandOff(m, pn, ln)
    BY <1>0
<1>w. PICK w : w = NextOwner(m)
    OBVIOUS
<1>h. HandedOff(m, w, pn, ln)
    BY <1>1, <1>w, HandOffEffect DEF MutexInv
<1>2. /\ w \in waiting[m] \cup {NoThread} /\ w \in Threads \cup {NoThread}
      /\ \A u \in Threads : mutexWaiting'[u] = IF u = w THEN NoMutex ELSE mutexWaiting[u]
      /\ \A u \in Threads : mutexLocked'[u] = IF u = w THEN ln[u] \cup {m} ELSE ln[u]
      /\ \A u \in Threads : u # w => prio'[u] = pn[u]
      /\ waiting' = [waiting EXCEPT ![m] = waiting[m] \ {w}]
    BY <1>h DEF HandedOff
<1>3. w # NoThread => /\ prio'[w] = pn[w] \/ \E u \in waiting[m] \ {w} : prio'[w] = pn[u]
                      /\ pn[w] <= prio'[w]
                      /\ \A u \in waiting[m] \ {w} : pn[u] <= prio'[w]
    BY <1>h DEF HandedOff
<1>4. /\ mutexLocked[t] = {m} /\ mutexWaiting[t] = NoMutex /\ t \notin waiting[m] /\ w # t
      /\ w # NoThread => w \in Threads /\ mutexLocked[w] = {} /\ mutexWaiting[w] = m
                         /\ target[w] = m
    BY <1>2 DEF MutexInv, LinksInv, InheritsInv, OneHeld
<1>5. \A u \in Threads : mutexLocked'[u] = IF u = w THEN {m} ELSE IF u = t THEN {}
                                           ELSE mutexLocked[u]
    <2>1. mutexLocked[t] \ {m} = {} /\ {} \cup {m} = {m}
        BY <1>4
    <2>2. w # NoThread => ln[w] = {}
        BY <1>1, <1>4
    <2>3. ASSUME NEW u \in Threads, u = w PROVE mutexLocked'[u] = {m}
        <3>1. w # NoThread
            BY <2>3
        <3> QED BY <1>2, <2>1, <2>2, <2>3, <3>1
    <2>4. ASSUME NEW u \in Threads, u # w PROVE mutexLocked'[u] = ln[u]
        BY <1>2, <2>4
    <2> QED BY <1>1, <1>4, <2>1, <2>3, <2>4
<1>6. OneHeld'
    BY <1>2, <1>4, <1>5 DEF InheritsInv, OneHeld
<1>7. /\ \A k \in Mutexes : waiting'[k] = IF k = m THEN waiting[m] \ {w} ELSE waiting[k]
      /\ \A k \in Mutexes : waiting[k] \subseteq Threads
    BY <1>2 DEF MutexInv, LinksInv
<1>8. \A k \in Mutexes : \A u \in waiting'[k] : u \in Threads /\ pn[u] = prio[u] /\ prio'[u] = prio[u]
    <2>1. \A k \in Mutexes : \A u \in waiting'[k] : u \in Threads /\ u # t /\ u # w
        BY <1>2, <1>4, <1>7 DEF MutexInv, LinksInv
    <2> QED BY <1>1, <1>2, <2>1
<1>9. ASSUME NEW u \in Threads PROVE Inherits(u)'
    <2>1. CASE u = t
        <3>1. mutexLocked'[t] = {}
            BY <1>4, <1>5
        <3>2. base'[t] = prio'[t] /\ prio'[t] \in Int
            BY <3>1 DEF MutexInv, SavedInv, NoPriorityLeak, LinksInv
        <3> QED BY <2>1, <3>1, <3>2 DEF Inherits
    <2>2. CASE u = w
        <3>1. pn[w] = prio[w] /\ base[w] = prio[w] /\ mutexLocked'[w] = {m}
            BY <1>1, <1>4, <1>5, <2>2 DEF MutexInv, SavedInv, NoPriorityLeak
        <3>2. \A v \in waiting'[m] : v \in waiting[m] \ {w} /\ prio'[v] = pn[v]
            BY <1>7, <1>8
        <3>3. \A v \in waiting[m] \ {w} : v \in waiting'[m] /\ prio'[v] = pn[v]
            BY <1>7, <1>8
        <3> QED BY <1>3, <2>2, <3>1, <3>2, <3>3 DEF Inherits
    <2>3. CASE u \notin {t, w}
        <3>1. prio'[u] = prio[u] /\ mutexLocked'[u] = mutexLocked[u] /\ Inherits(u)
            BY <1>1, <1>2, <1>5, <2>3 DEF InheritsInv
        <3>2. \A k \in mutexLocked[u] : k \in Mutexes /\ waiting'[k] = waiting[k]
            <4>1. \A k \in mutexLocked[u] : k \in Mutexes /\ k # m
                BY <2>3 DEF MutexInv, LinksInv
            <4> QED BY <1>7, <4>1
        <3> QED BY <1>8, <3>1, <3>2 DEF Inherits
    <2> QED BY <2>1, <2>2, <2>3
<1> QED BY <1>6, <1>9 DEF InheritsInv

LEMMA setPriorityInherits ==
    ASSUME MutexInv, MutexInv', InheritsInv, NEW t \in Threads, NEW new \in Priorities,
           setPriority(t, new)
    PROVE  InheritsInv'
<1> USE MutexAssumption
<1>1. PICK pr \in Priorities :
         /\ IF mutexLocked[t] = {} THEN pr = new ELSE IsRecomputed(pr, new, mutexLocked[t])
         /\ prio' = [prio EXCEPT ![t] = pr]
    BY DEF setPriority
<1>2. /\ base' = [base EXCEPT ![t] = new] /\ pc' = pc
      /\ UNCHANGED <<mutexLocked, waiting, mutexWaiting>>
      /\ mutexWaiting[t] = NoMutex
    BY RunsFree DEF setPriority, heapVars, Calls, Runs, MutexInv
<1>3. /\ \A u \in Threads : prio'[u] = IF u = t THEN pr ELSE prio[u]
      /\ \A u \in Threads : base'[u] = IF u = t THEN new ELSE base[u]
    BY <1>1, <1>2 DEF MutexInv, LinksInv, SavedInv
<1>4. OneHeld'
    BY <1>2 DEF InheritsInv, OneHeld
<1>5. \A k \in Mutexes : \A u \in waiting[k] : u \in Threads /\ prio'[u] = prio[u] /\ prio[u] \in Int
    <2>1. \A k \in Mutexes : \A u \in waiting[k] : u \in Threads /\ mutexWaiting[u] = k
        BY DEF MutexInv, LinksInv
    <2>2. \A u \in Threads : prio[u] \in Int
        BY DEF MutexInv, LinksInv
    <2> QED BY <1>2, <1>3, <2>1, <2>2
<1>6. ASSUME NEW u \in Threads PROVE Inherits(u)'
    <2>1. CASE u # t
        <3>1. mutexLocked[u] \subseteq Mutexes /\ Inherits(u)
            BY DEF MutexInv, LinksInv, InheritsInv
        <3> QED BY <1>2, <1>3, <1>5, <2>1, <3>1 DEF Inherits
    <2>2. CASE u = t /\ mutexLocked[t] = {}
        <3>1. pr = new /\ pr \in Int
            BY <1>1, <2>2
        <3> QED BY <1>2, <1>3, <2>2, <3>1 DEF Inherits
    <2>3. CASE u = t /\ mutexLocked[t] # {}
        <3>1. PICK m \in Mutexes : mutexLocked[t] = {m}
            BY <2>3 DEF InheritsInv, OneHeld
        <3>2. /\ pr = new \/ (waiting[m] # {} /\ pr = prio[front[m]])
              /\ new <= pr /\ (waiting[m] # {} => prio[front[m]] <= pr)
            BY <1>1, <2>3, <3>1 DEF IsRecomputed
        <3>3. front[m] \in HeapTops(waiting[m], prio)
            BY DEF MutexInv, LinksInv, FrontIsHighest
        <3>4. waiting[m] # {} => /\ front[m] \in waiting[m]
                                 /\ \A v \in waiting[m] : prio[v] <= prio[front[m]]
            BY <3>3, TopOf
        <3>5. pr \in Int
            OBVIOUS
        <3>6. \A v \in waiting[m] : prio'[v] <= pr
            BY <1>5, <3>2, <3>4, <3>5
        <3>7. pr = new \/ \E v \in waiting[m] : pr = prio'[v]
            BY <1>5, <3>2, <3>4
        <3> QED BY <1>2, <1>3, <2>3, <3>1, <3>2, <3>6, <3>7 DEF Inherits
    <2> QED BY <2>1, <2>2, <2>3
<1> QED BY <1>4, <1>6 DEF InheritsInv

LEMMA StepInherits ==
    ASSUME MaxHeld <= 1, MutexInv, MutexInv', InheritsInv, NEW t \in Threads, Step(t)
    PROVE  InheritsInv'
<1> USE MutexAssumption
<1>a. ASSUME UNCHANGED <<prio, base, waiting, mutexLocked, mutexWaiting>>,
             \A u \in Threads : pc'[u] = "cond" => pc[u] = "cond"
      PROVE  InheritsInv'
    BY <1>a DEF InheritsInv, Inherits, OneHeld
<1>b. pc \in [Threads -> Places]
    BY DEF MutexInv, PlacesInv
<1>c. pc[t] \notin {"lock", "relock"} => target[t] = NoMutex /\ mutexWaiting[t] = NoMutex
    BY RunsFree DEF MutexInv
<1>1. ASSUME NEW m \in Mutexes, PKlock(t, m) PROVE InheritsInv'
    <2>0. pc[t] = "run" /\ base' = base
        BY <1>1 DEF PKlock, Calls, Runs
    <2>1. owner[m] # t => mutexLocked[t] = {}
        BY <1>1, FewerThanOne DEF PKlock, InheritsInv
    <2>2. CASE TakeFree(t, m) /\ pc' = pc
        <3>1. owner[m] # t
            BY <2>2 DEF TakeFree
        <3> QED BY <1>c, <2>0, <2>1, <2>2, <3>1, TakeFreeInherits
    <2>3. CASE UNCHANGED <<listVars, heapVars, prio, mutexWaiting, pc>>
        BY <1>a, <2>0, <2>3 DEF listVars, heapVars
    <2>4. CASE /\ owner[m] \notin {NoThread, t} /\ Enqueue(t, m)
               /\ pc' = [pc EXCEPT ![t] = "lock"]
        <3>1. pc'[t] # "cond" /\ \A u \in Threads : u # t => pc'[u] = pc[u]
            BY <1>b, <2>4
        <3> QED BY <1>c, <2>0, <2>1, <2>4, <3>1, EnqueueInherits
    <2> QED BY <1>1, <2>2, <2>3, <2>4 DEF PKlock
<1>2. ASSUME NEW m \in Mutexes, PKtryLock(t, m) PROVE InheritsInv'
    <2>0. pc[t] = "run" /\ base' = base /\ pc' = pc
        BY <1>2 DEF PKtryLock, Calls, Runs
    <2>1. owner[m] # t => mutexLocked[t] = {}
        BY <1>2, FewerThanOne DEF PKtryLock, InheritsInv
    <2>2. CASE TakeFree(t, m)
        <3>1. owner[m] # t
            BY <2>2 DEF TakeFree
        <3> QED BY <1>c, <2>0, <2>1, <2>2, <3>1, TakeFreeInherits
    <2>3. CASE UNCHANGED <<listVars, heapVars, prio, mutexWaiting, wait>>
        BY <1>a, <2>0, <2>3 DEF listVars, heapVars
    <2> QED BY <1>2, <2>2, <2>3 DEF PKtryLock
<1>3. ASSUME NEW m \in Mutexes, PKunlock(t, m) PROVE InheritsInv'
    <2>0. pc[t] = "run" /\ base' = base /\ pc' = pc /\ owner[m] = t
        BY <1>3 DEF PKunlock, Runs
    <2>1. CASE UNCHANGED <<listVars, heapVars, prio, mutexWaiting, wait>>
        BY <1>a, <2>0, <2>1 DEF listVars, heapVars
    <2>2. CASE Release(t, m)
        <3>1. \A u \in Threads : target[u] # NoMutex => pc[u] # "cond"
            BY DEF MutexInv, PlacesInv
        <3> QED BY <1>c, <2>0, <2>2, <3>1, ReleaseInherits
    <2> QED BY <1>3, <2>1, <2>2 DEF PKunlock
<1>4. CASE LockLoop(t)
    <2>1. /\ UNCHANGED <<prio, base, waiting, mutexLocked, mutexWaiting>>
          /\ pc' = pc \/ pc' = [pc EXCEPT ![t] = "run"]
        BY <1>4 DEF LockLoop, listVars, heapVars
    <2>2. \A u \in Threads : pc'[u] = "cond" => pc[u] = "cond"
        BY <1>b, <2>1
    <2> QED BY <1>a, <2>1, <2>2
<1>5. CASE \E pr \in Priorities : setPriority(t, pr)
    BY <1>5, setPriorityInherits
<1>6. CASE cwait(t)
    <2>0. /\ pc[t] = "run" /\ base' = base /\ pc' = [pc EXCEPT ![t] = "cond"]
          /\ owner[CondMutex] = t /\ Release(t, CondMutex)
        BY <1>6 DEF cwait, Calls, Runs
    <2>1. \A u \in Threads : u # t => pc'[u] = pc[u]
        BY <1>b, <2>0
    <2>2. \A u \in Threads : target[u] # NoMutex => pc'[u] # "cond"
        BY <1>c, <2>0, <2>1 DEF MutexInv, PlacesInv
    <2> QED BY <1>c, <2>0, <2>1, <2>2, ReleaseInherits
<1>7. CASE PKlockToDepth(t)
    <2>0. pc[t] = "cond" /\ base' = base /\ mutexLocked[t] = {}
        BY <1>7 DEF PKlockToDepth, InheritsInv, OneHeld
    <2>1. pc' = [pc EXCEPT ![t] = "run"] \/ pc' = [pc EXCEPT ![t] = "relock"]
        BY <1>7 DEF PKlockToDepth
    <2>2. pc'[t] # "cond" /\ \A u \in Threads : u # t => pc'[u] = pc[u]
        BY <1>b, <2>1
    <2>3. CASE TakeFree(t, CondMutex)
        BY <1>c, <2>0, <2>2, <2>3, TakeFreeInherits
    <2>4. CASE owner[CondMutex] \notin {NoThread, t} /\ Enqueue(t, CondMutex)
        BY <1>c, <2>0, <2>2, <2>4, EnqueueInherits
    <2> QED BY <1>7, <2>3, <2>4 DEF PKlockToDepth
<1>8. CASE signal(t) \/ broadcast(t)
    BY <1>8, <1>a DEF signal, broadcast, listVars, heapVars
<1>9. CASE sleep(t) \/ IRQwakeThreads(t)
    <2>1. /\ UNCHANGED <<prio, base, waiting, mutexLocked, mutexWaiting>>
          /\ pc' = [pc EXCEPT ![t] = "run"] \/ pc' = [pc EXCEPT ![t] = "sleep"]
        BY <1>9 DEF sleep, IRQwakeThreads, listVars, heapVars
    <2>2. \A u \in Threads : pc'[u] = "cond" => pc[u] = "cond"
        BY <1>b, <2>1
    <2> QED BY <1>a, <2>1, <2>2
<1>10. CASE SpuriousWakeup(t)
    BY <1>10, <1>a DEF SpuriousWakeup, listVars, heapVars
<1> QED BY <1>1, <1>2, <1>3, <1>4, <1>5, <1>6, <1>7, <1>8, <1>9, <1>10 DEF Step

\* As long as no thread holds two mutexes at once, inheritance is exact: a
\* thread's priority is the highest of its own and of the threads that wait
\* for its mutex.  With two it is not: the priority a waiter inherits later is
\* missing from the owner's (run mutex_chain).
THEOREM MutexInheritance == ASSUME MaxHeld <= 1 PROVE Spec => []InheritsHighest
<1>1. Init => InheritsInv
    <2> SUFFICES ASSUME Init PROVE InheritsInv
        OBVIOUS
    <2>1. \A t \in Threads : mutexLocked[t] = {}
        BY DEF Init
    <2> QED BY <2>1, MutexInit, InheritsNothing DEF InheritsInv, OneHeld
<1>2. MutexInv /\ MutexInv' /\ InheritsInv /\ [Next]_vars => InheritsInv'
    <2>1. ASSUME MutexInv, MutexInv', InheritsInv, NEW t \in Threads, Step(t) PROVE InheritsInv'
        BY <2>1, StepInherits
    <2>2. ASSUME InheritsInv, UNCHANGED vars PROVE InheritsInv'
        BY <2>2 DEF vars, InheritsInv, Inherits, OneHeld
    <2> QED BY <2>1, <2>2 DEF Next, Step
<1>3. InheritsInv => InheritsHighest
    BY InheritsIsHighest DEF InheritsInv
<1> QED BY <1>1, <1>2, <1>3, MutexInvariant, PTL DEF Spec
=============================================================================
