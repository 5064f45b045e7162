---------------------------- MODULE KernelProofs ----------------------------
(***************************************************************************)
(* Proofs about Kernel for every set of threads, number of priorities,     *)
(* length of the time slice and of sleeps, nesting of pauseKernel() and    *)
(* choice of operations, with either scheduler.                            *)
(***************************************************************************)
EXTENDS Kernel, SequenceTheorems, FiniteSetTheorems, WellFoundedInduction, TLAPS

Once(s) == \A i, j \in DOMAIN s : s[i] = s[j] => i = j

\* The running thread makes up for a preemption that found the kernel paused.
MakingUp ==
    \/ pendingWakeup /\ (kernel_running # 0 \/ pc[cur] = "restart")
    \/ pc[cur] = "yield"

\* Where a thread can be: only the running thread has the kernel paused, in
\* its own code or, for the idle thread, around PKremoveDeadThreads().
ControlInv ==
    /\ \A t \in Threads : pc[t] \in ThreadPlaces
    /\ pc[Idle] \in IdlePlaces
    /\ pc[Idle] \in {"reap", "unpause"} => cur = Idle /\ kernel_running = 1
    /\ kernel_running # 0 => IF cur = Idle THEN pc[Idle] \in {"reap", "unpause"}
                             ELSE pc[cur] = "run"
    /\ \A t \in Threads : deleted[t] => ~sleep[t]

\* The thread lists and the sleeping list, without the types.
ThreadLists ==
    \A p \in Prios : /\ Once(thread_list[p])
                     /\ \A t \in Elements(thread_list[p]) : prio[t] = p

SleepListOf(list, asleep, alloc) ==
    /\ \A t \in Threads : asleep[t] <=> \E d \in Elements(list) : d.p = t
    /\ \A i, j \in DOMAIN list : i < j => /\ list[i].time <= list[j].time
                                         /\ list[i].p # list[j].p
    /\ \A d \in Elements(list) : d.p \in alloc

SleepList == SleepListOf(sleepingList, sleep, Allocated)

\* The timer does not come after the first sleeper is due.
SleepersCovered ==
    \A d \in Elements(sleepingList) : (armed /\ nextPreemption <= d.time) \/ MakingUp

Overdue == {t \in Allocated : Ready(t) /\ prio[t] > Priority(cur)}

\* A thread that should run instead of the idle thread, or, by its deadline,
\* instead of the running one, gets its switch or was missed.
SwitchesCovered ==
    cur = Idle \/ policy = "edf" => Overdue \subseteq missed \/ MakingUp

KernelInv ==
    /\ TypeOK /\ ControlInv /\ ThreadLists /\ SleepList
    /\ CurrentIsRunnable
    /\ armed \/ MakingUp
    /\ SleepersCovered
    /\ SwitchesCovered

-----------------------------------------------------------------------------
(* Lists *)

\* A nonempty set of natural numbers has a least element.
LEMMA NatMin ==
    ASSUME NEW T \in SUBSET Nat, T # {}
    PROVE  \E x \in T : \A y \in T : x <= y
<1> DEFINE R == OpToRel(<, Nat)
<1>1. IsWellFoundedOn(R, Nat)
    BY NatLessThanWellFounded
<1>2. R = {ss \in Nat \X Nat : ss[1] < ss[2]}
    BY DEF OpToRel
<1> HIDE DEF R
<1>3. PICK x \in T : \A y \in T : ~(<<y, x>> \in R)
    BY <1>1, WFMin
<1>4. \A y \in T : x <= y
    <2> TAKE y \in T
    <2>1. <<y, x>> \in Nat \X Nat /\ <<y, x>>[1] = y /\ <<y, x>>[2] = x
        OBVIOUS
    <2>2. ~(y < x)
        BY <1>2, <1>3, <2>1
    <2> QED BY <2>2
<1> QED BY <1>4

\* A list with the same elements at other places.
LEMMA Rearranged ==
    ASSUME NEW S, NEW s \in Seq(S), NEW r \in Seq(S), Len(r) = Len(s),
           NEW g \in [1 .. Len(s) -> 1 .. Len(s)],
           \A k \in 1 .. Len(s) : r[k] = s[g[k]],
           \A k, l \in 1 .. Len(s) : g[k] = g[l] => k = l,
           \A j \in 1 .. Len(s) : \E k \in 1 .. Len(s) : g[k] = j
    PROVE  Elements(r) = Elements(s) /\ (Once(s) => Once(r))
<1>1. DOMAIN s = 1 .. Len(s) /\ DOMAIN r = 1 .. Len(s)
    BY LenProperties
<1>2. ASSUME Once(s), NEW k \in 1 .. Len(s), NEW l \in 1 .. Len(s), r[k] = r[l]
      PROVE  k = l
    <2>1. g[k] \in DOMAIN s /\ g[l] \in DOMAIN s /\ s[g[k]] = s[g[l]]
        BY <1>1, <1>2
    <2>2. g[k] = g[l]
        BY <1>2, <2>1 DEF Once
    <2> QED BY <2>2
<1>3. ASSUME NEW x \in Elements(r) PROVE x \in Elements(s)
    <2>1. PICK k \in 1 .. Len(s) : x = s[g[k]]
        BY <1>1 DEF Elements
    <2>2. g[k] \in DOMAIN s
        BY <1>1
    <2> QED BY <2>1, <2>2 DEF Elements
<1>4. ASSUME NEW x \in Elements(s) PROVE x \in Elements(r)
    <2>1. PICK j \in 1 .. Len(s) : x = s[j]
        BY <1>1 DEF Elements
    <2>2. PICK k \in 1 .. Len(s) : g[k] = j
        OBVIOUS
    <2>3. k \in DOMAIN r /\ x = r[k]
        BY <1>1, <2>1, <2>2
    <2> QED BY <2>3 DEF Elements
<1> QED BY <1>1, <1>2, <1>3, <1>4 DEF Once

\* The list from its i-th element, round to the one before.
LEMMA Rotated ==
    ASSUME NEW S, NEW s \in Seq(S), NEW i \in 1 .. Len(s)
    PROVE  LET r == SubSeq(s, i, Len(s)) \o SubSeq(s, 1, i - 1)
           IN  /\ r \in Seq(S) /\ Len(r) = Len(s)
               /\ Elements(r) = Elements(s) /\ (Once(s) => Once(r))
<1> DEFINE a == SubSeq(s, i, Len(s))
           b == SubSeq(s, 1, i - 1)
           r == a \o b
<1>1. Len(s) \in Nat /\ DOMAIN s = 1 .. Len(s) /\ \A k \in 1 .. Len(s) : s[k] \in S
    BY LenProperties, ElementOfSeq
<1>2. /\ a \in Seq(S) /\ Len(a) = Len(s) - i + 1
      /\ \A k \in 1 .. Len(s) - i + 1 : a[k] = s[i + k - 1]
    BY <1>1, SubSeqProperties
<1>3. /\ b \in Seq(S) /\ Len(b) = i - 1 /\ \A k \in 1 .. i - 1 : b[k] = s[k]
    <2>1. \A k \in 1 .. i - 1 : s[k] \in S
        BY <1>1
    <2>2. /\ b \in Seq(S) /\ Len(b) = IF 1 <= i - 1 THEN i - 1 - 1 + 1 ELSE 0
          /\ \A k \in 1 .. i - 1 - 1 + 1 : b[k] = s[1 + k - 1]
        BY <2>1, SubSeqProperties
    <2> QED BY <2>2
<1> HIDE DEF a, b
<1>4. /\ r \in Seq(S) /\ Len(r) = Len(s)
      /\ \A k \in 1 .. Len(s) : r[k] = IF k <= Len(a) THEN a[k] ELSE b[k - Len(a)]
    <2>1. Len(a) + Len(b) = Len(s)
        BY <1>1, <1>2, <1>3
    <2>2. /\ r \in Seq(S) /\ Len(r) = Len(a) + Len(b)
          /\ \A k \in 1 .. Len(a) + Len(b) : r[k] = IF k <= Len(a) THEN a[k] ELSE b[k - Len(a)]
        BY <1>2, <1>3, ConcatProperties
    <2> QED BY <2>1, <2>2
<1> HIDE DEF r
<1>5. PICK g : g = [k \in 1 .. Len(s) |-> IF k <= Len(s) - i + 1 THEN i + k - 1
                                          ELSE k - (Len(s) - i + 1)]
    OBVIOUS
<1>6. /\ g \in [1 .. Len(s) -> 1 .. Len(s)]
      /\ \A k \in 1 .. Len(s) : r[k] = s[g[k]]
      /\ \A k, l \in 1 .. Len(s) : g[k] = g[l] => k = l
    <2>1. \A k \in 1 .. Len(s) :
             g[k] = IF k <= Len(s) - i + 1 THEN i + k - 1 ELSE k - (Len(s) - i + 1)
        BY <1>5
    <2>2. g \in [1 .. Len(s) -> 1 .. Len(s)]
        BY <1>1, <1>5
    <2>3. \A k, l \in 1 .. Len(s) : g[k] = g[l] => k = l
        BY <1>1, <2>1
    <2>4. ASSUME NEW k \in 1 .. Len(s) PROVE r[k] = s[g[k]]
        <3>1. CASE k <= Len(s) - i + 1
            BY <1>1, <1>2, <1>4, <2>1, <3>1
        <3>2. CASE ~(k <= Len(s) - i + 1)
            <4>1. k - (Len(s) - i + 1) \in 1 .. i - 1
                BY <1>1, <3>2
            <4> QED BY <1>2, <1>3, <1>4, <2>1, <3>2, <4>1
        <3> QED BY <3>1, <3>2
    <2> QED BY <2>2, <2>3, <2>4
<1>7. ASSUME NEW j \in 1 .. Len(s) PROVE \E k \in 1 .. Len(s) : g[k] = j
    <2>1. CASE j >= i
        <3>1. j - i + 1 \in 1 .. Len(s) /\ g[j - i + 1] = j
            BY <1>1, <1>5, <2>1
        <3> QED BY <3>1
    <2>2. CASE j < i
        <3>1. j + (Len(s) - i + 1) \in 1 .. Len(s) /\ g[j + (Len(s) - i + 1)] = j
            BY <1>1, <1>5, <2>2
        <3> QED BY <3>1
    <2> QED BY <1>1, <2>1, <2>2
<1>8. Elements(r) = Elements(s) /\ (Once(s) => Once(r))
    BY <1>4, <1>6, <1>7, Rearranged
<1> QED BY <1>4, <1>8 DEF r, a, b

\* A record linked after the first n.
Inserted(s, n, x) == SubSeq(s, 1, n) \o <<x>> \o SubSeq(s, n + 1, Len(s))

LinkedAt(r, s, n, x) ==
    /\ Len(r) = Len(s) + 1
    /\ \A k \in 1 .. Len(s) + 1 :
          r[k] = IF k <= n THEN s[k] ELSE IF k = n + 1 THEN x ELSE s[k - 1]

LEMMA Linked ==
    ASSUME NEW S, NEW s \in Seq(S), NEW n \in 0 .. Len(s), NEW x \in S
    PROVE  Inserted(s, n, x) \in Seq(S) /\ LinkedAt(Inserted(s, n, x), s, n, x)
<1> DEFINE a == SubSeq(s, 1, n)
           b == SubSeq(s, n + 1, Len(s))
           c == a \o <<x>>
           r == c \o b
<1>1. Len(s) \in Nat /\ \A k \in 1 .. Len(s) : s[k] \in S
    BY LenProperties, ElementOfSeq
<1>2. a \in Seq(S) /\ Len(a) = n /\ \A k \in 1 .. n : a[k] = s[k]
    <2>1. \A k \in 1 .. n : s[k] \in S
        BY <1>1
    <2>2. /\ a \in Seq(S) /\ Len(a) = IF 1 <= n THEN n - 1 + 1 ELSE 0
          /\ \A k \in 1 .. n - 1 + 1 : a[k] = s[1 + k - 1]
        BY <2>1, SubSeqProperties
    <2> QED BY <2>2
<1>3. /\ b \in Seq(S) /\ Len(b) = Len(s) - n
      /\ \A k \in 1 .. Len(s) - n : b[k] = s[n + k]
    <2>1. \A k \in n + 1 .. Len(s) : s[k] \in S
        BY <1>1
    <2>2. /\ b \in Seq(S) /\ Len(b) = IF n + 1 <= Len(s) THEN Len(s) - (n + 1) + 1 ELSE 0
          /\ \A k \in 1 .. Len(s) - (n + 1) + 1 : b[k] = s[n + 1 + k - 1]
        BY <1>1, <2>1, SubSeqProperties
    <2> QED BY <1>1, <2>2
<1> HIDE DEF a, b
<1>4. <<x>> \in Seq(S) /\ Len(<<x>>) = 1 /\ <<x>>[1] = x
    OBVIOUS
<1>5. /\ c \in Seq(S) /\ Len(c) = n + 1
      /\ \A k \in 1 .. n + 1 : c[k] = IF k <= n THEN s[k] ELSE x
    <2>1. /\ c \in Seq(S) /\ Len(c) = n + 1
          /\ \A k \in 1 .. n + 1 : c[k] = IF k <= n THEN a[k] ELSE <<x>>[k - n]
        BY <1>2, <1>4, ConcatProperties
    <2>2. \A k \in 1 .. n + 1 : ~(k <= n) => k - n = 1
        OBVIOUS
    <2> QED BY <1>2, <1>4, <2>1, <2>2
<1> HIDE DEF c
<1>6. /\ r \in Seq(S) /\ Len(r) = Len(s) + 1
      /\ \A k \in 1 .. Len(s) + 1 : r[k] = IF k <= n + 1 THEN c[k] ELSE b[k - (n + 1)]
    <2>1. Len(c) + Len(b) = Len(s) + 1
        BY <1>1, <1>3, <1>5
    <2>2. /\ r \in Seq(S) /\ Len(r) = Len(c) + Len(b)
          /\ \A k \in 1 .. Len(c) + Len(b) : r[k] = IF k <= Len(c) THEN c[k] ELSE b[k - Len(c)]
        BY <1>3, <1>5, ConcatProperties
    <2> QED BY <1>5, <2>1, <2>2
<1> HIDE DEF r
<1>7. \A k \in 1 .. Len(s) + 1 :
         r[k] = IF k <= n THEN s[k] ELSE IF k = n + 1 THEN x ELSE s[k - 1]
    <2> TAKE k \in 1 .. Len(s) + 1
    <2>1. CASE k <= n + 1
        BY <1>5, <1>6, <2>1
    <2>2. CASE ~(k <= n + 1)
        <3>1. k - (n + 1) \in 1 .. Len(s) - n /\ n + (k - (n + 1)) = k - 1
            BY <1>1, <2>2
        <3>2. r[k] = b[k - (n + 1)]
            BY <1>6, <2>2
        <3>3. b[k - (n + 1)] = s[k - 1]
            BY <1>3, <3>1
        <3>4. ~(k <= n) /\ k # n + 1
            BY <2>2
        <3> QED BY <3>2, <3>3, <3>4
    <2> QED BY <2>1, <2>2
<1> QED BY <1>6, <1>7 DEF r, c, a, b, Inserted, LinkedAt

\* Its elements, and that it still has none twice.
LEMMA LinkedElements ==
    ASSUME NEW S, NEW s \in Seq(S), NEW n \in 0 .. Len(s), NEW x \in S,
           NEW r \in Seq(S), LinkedAt(r, s, n, x)
    PROVE  /\ Elements(r) = Elements(s) \cup {x}
           /\ Once(s) /\ x \notin Elements(s) => Once(r)
<1>0. /\ Len(r) = Len(s) + 1
      /\ \A k \in 1 .. Len(s) + 1 :
            r[k] = IF k <= n THEN s[k] ELSE IF k = n + 1 THEN x ELSE s[k - 1]
    BY DEF LinkedAt
<1>1. Len(s) \in Nat /\ DOMAIN s = 1 .. Len(s) /\ DOMAIN r = 1 .. Len(s) + 1
    BY <1>0, LenProperties
<1>2. ASSUME NEW y \in Elements(r) PROVE y \in Elements(s) \cup {x}
    <2>1. PICK k \in 1 .. Len(s) + 1 : y = r[k]
        BY <1>1 DEF Elements
    <2>2. y = x \/ (k \in DOMAIN s /\ y = s[k]) \/ (k - 1 \in DOMAIN s /\ y = s[k - 1])
        BY <1>0, <1>1, <2>1
    <2> QED BY <2>2 DEF Elements
<1>3. ASSUME NEW y \in Elements(s) \cup {x} PROVE y \in Elements(r)
    <2>1. CASE y = x
        <3>1. n + 1 \in DOMAIN r /\ r[n + 1] = x
            BY <1>0, <1>1
        <3> QED BY <2>1, <3>1 DEF Elements
    <2>2. CASE y \in Elements(s)
        <3>1. PICK k \in 1 .. Len(s) : y = s[k]
            BY <1>1, <2>2 DEF Elements
        <3>2. k \in DOMAIN r /\ k + 1 \in DOMAIN r /\ (y = r[k] \/ y = r[k + 1])
            BY <1>0, <1>1, <3>1
        <3> QED BY <3>2 DEF Elements
    <2> QED BY <1>3, <2>1, <2>2
<1>4. ASSUME Once(s), x \notin Elements(s), NEW i \in 1 .. Len(s) + 1,
             NEW j \in 1 .. Len(s) + 1, r[i] = r[j]
      PROVE  i = j
    <2>1. \A k \in 1 .. Len(s) : s[k] # x
        BY <1>1, <1>4 DEF Elements
    <2>2. \A k, l \in 1 .. Len(s) : s[k] = s[l] => k = l
        BY <1>1, <1>4 DEF Once
    <2> QED BY <1>0, <1>1, <1>4, <2>1, <2>2
<1> QED BY <1>1, <1>2, <1>3, <1>4 DEF Once

\* The ranks of the elements of a finite set of indices are 1, 2, ... up to
\* their number.
UpTo(I, i) == {j \in I : j <= i}

LEMMA Ranks ==
    ASSUME NEW n \in Nat, NEW I \in SUBSET (1 .. n)
    PROVE  /\ Cardinality(I) \in Nat
           /\ \A i, j \in I : Cardinality(UpTo(I, i)) = Cardinality(UpTo(I, j)) => i = j
           /\ \A k \in 1 .. Cardinality(I) : \E i \in I : Cardinality(UpTo(I, i)) = k
<1>1. IsFiniteSet(I) /\ Cardinality(I) \in Nat
    <2>1. IsFiniteSet(1 .. n)
        BY FS_Interval
    <2> QED BY <2>1, FS_Subset, FS_CardinalityType
<1>2. ASSUME NEW i \in I
      PROVE  /\ IsFiniteSet(UpTo(I, i)) /\ Cardinality(UpTo(I, i)) \in Nat
             /\ Cardinality(UpTo(I, i)) \in 1 .. Cardinality(I)
    <2>1. UpTo(I, i) \in SUBSET I /\ i \in UpTo(I, i)
        BY DEF UpTo
    <2>2. /\ IsFiniteSet(UpTo(I, i)) /\ Cardinality(UpTo(I, i)) <= Cardinality(I)
          /\ Cardinality(UpTo(I, i)) \in Nat
        BY <1>1, <2>1, FS_Subset, FS_CardinalityType
    <2>3. Cardinality(UpTo(I, i)) # 0
        BY <2>1, <2>2, FS_EmptySet
    <2> QED BY <1>1, <2>2, <2>3
<1>3. ASSUME NEW i \in I, NEW j \in I, i < j
      PROVE  Cardinality(UpTo(I, i)) < Cardinality(UpTo(I, j))
    <2>1. UpTo(I, i) \cup {j} \in SUBSET UpTo(I, j) /\ j \notin UpTo(I, i)
        <3>1. i \in Int /\ j \in Int /\ \A k \in I : k \in Int
            OBVIOUS
        <3>2. \A k \in UpTo(I, i) : k \in UpTo(I, j) /\ k # j
            BY <1>3, <3>1 DEF UpTo
        <3>3. j \in UpTo(I, j)
            BY <3>1 DEF UpTo
        <3> QED BY <3>2, <3>3
    <2>2. Cardinality(UpTo(I, i) \cup {j}) = Cardinality(UpTo(I, i)) + 1
        BY <1>2, <2>1, FS_AddElement
    <2>3. Cardinality(UpTo(I, i) \cup {j}) <= Cardinality(UpTo(I, j))
        BY <1>2, <2>1, FS_Subset
    <2> QED BY <1>2, <2>2, <2>3
<1>4. ASSUME NEW i \in I, NEW j \in I, Cardinality(UpTo(I, i)) = Cardinality(UpTo(I, j))
      PROVE  i = j
    <2>1. Cardinality(UpTo(I, i)) \in Nat /\ Cardinality(UpTo(I, j)) \in Nat
        BY <1>2
    <2>2. ~(i < j) /\ ~(j < i)
        BY <1>3, <1>4, <2>1
    <2> QED BY <2>2
<1>5. PICK f : f = [i \in I |-> Cardinality(UpTo(I, i))]
    OBVIOUS
<1>6. f \in Injection(I, 1 .. Cardinality(I))
    BY <1>2, <1>4, <1>5 DEF Injection, IsInjective
<1>7. IsFiniteSet(1 .. Cardinality(I)) /\ Cardinality(1 .. Cardinality(I)) = Cardinality(I)
    BY <1>1, FS_Interval
<1>8. f \in Surjection(I, 1 .. Cardinality(I))
    BY <1>6, <1>7, FS_Injection
<1>9. ASSUME NEW k \in 1 .. Cardinality(I) PROVE \E i \in I : Cardinality(UpTo(I, i)) = k
    <2>1. PICK i \in I : f[i] = k
        BY <1>8 DEF Surjection
    <2> QED BY <1>5, <2>1
<1> QED BY <1>1, <1>4, <1>9

\* Unlinking keeps the other elements, each once.
LEMMA Unlinked ==
    ASSUME NEW S, NEW s \in Seq(S), NEW out
    PROVE  /\ Without(s, out) \in Seq(S)
           /\ Elements(Without(s, out)) = Elements(s) \ out
           /\ Once(s) => Once(Without(s, out))
<1>1. Len(s) \in Nat /\ DOMAIN s = 1 .. Len(s) /\ \A k \in 1 .. Len(s) : s[k] \in S
    BY LenProperties, ElementOfSeq
<1>2. PICK I : I = {i \in DOMAIN s : s[i] \notin out}
    OBVIOUS
<1>3. I \in SUBSET (1 .. Len(s))
    BY <1>1, <1>2
<1>4. PICK c : c = Cardinality(I)
    OBVIOUS
<1>5. PICK h : h = [n \in 1 .. c |-> CHOOSE i \in I : Cardinality(UpTo(I, i)) = n]
    OBVIOUS
<1>6. /\ c \in Nat
      /\ \A n \in 1 .. c : h[n] \in I /\ Cardinality(UpTo(I, h[n])) = n
      /\ \A i, j \in I : Cardinality(UpTo(I, i)) = Cardinality(UpTo(I, j)) => i = j
    <2>1. /\ c \in Nat
          /\ \A i, j \in I : Cardinality(UpTo(I, i)) = Cardinality(UpTo(I, j)) => i = j
          /\ \A n \in 1 .. c : \E i \in I : Cardinality(UpTo(I, i)) = n
        BY <1>1, <1>3, <1>4, Ranks
    <2>2. ASSUME NEW n \in 1 .. c PROVE h[n] \in I /\ Cardinality(UpTo(I, h[n])) = n
        <3>1. h[n] = CHOOSE i \in I : Cardinality(UpTo(I, i)) = n
            BY <1>5
        <3>2. \E i \in I : Cardinality(UpTo(I, i)) = n
            BY <2>1
        <3> QED BY <3>1, <3>2
    <2> QED BY <2>1, <2>2
<1>7. PICK w : w = Without(s, out)
    OBVIOUS
<1>8. w = [n \in 1 .. c |-> s[h[n]]]
    BY <1>2, <1>4, <1>5, <1>7 DEF Without, UpTo
<1>9. w \in Seq(S) /\ DOMAIN w = 1 .. c
    <2>1. \A n \in 1 .. c : s[h[n]] \in S
        BY <1>1, <1>3, <1>6
    <2> QED BY <1>6, <1>8, <2>1
<1>10. \A n \in 1 .. c : w[n] = s[h[n]] /\ h[n] \in DOMAIN s /\ s[h[n]] \notin out
    BY <1>2, <1>6, <1>8
<1>11. ASSUME NEW x \in Elements(w) PROVE x \in Elements(s) \ out
    BY <1>9, <1>10 DEF Elements
<1>12. ASSUME NEW x \in Elements(s) \ out PROVE x \in Elements(w)
    <2>1. PICK i \in I : x = s[i]
        BY <1>2 DEF Elements
    <2>2. Cardinality(UpTo(I, i)) \in 1 .. c
        <3>1. IsFiniteSet(I)
            <4>1. IsFiniteSet(1 .. Len(s))
                BY <1>1, FS_Interval
            <4> QED BY <1>3, <4>1, FS_Subset
        <3>2. UpTo(I, i) \in SUBSET I /\ i \in UpTo(I, i)
            BY <1>3 DEF UpTo
        <3>3. /\ IsFiniteSet(UpTo(I, i)) /\ Cardinality(UpTo(I, i)) <= Cardinality(I)
              /\ Cardinality(UpTo(I, i)) \in Nat
            BY <3>1, <3>2, FS_Subset, FS_CardinalityType
        <3>4. Cardinality(UpTo(I, i)) # 0
            BY <3>2, <3>3, FS_EmptySet
        <3> QED BY <1>4, <1>6, <3>3, <3>4
    <2>3. PICK n \in 1 .. c : n = Cardinality(UpTo(I, i))
        BY <2>2
    <2>4. h[n] = i
        BY <1>6, <2>3
    <2> QED BY <1>9, <1>10, <2>1, <2>4 DEF Elements
<1>13. ASSUME Once(s), NEW m \in 1 .. c, NEW n \in 1 .. c, w[m] = w[n] PROVE m = n
    <2>1. h[m] = h[n]
        BY <1>10, <1>13 DEF Once
    <2> QED BY <1>6, <2>1
<1> QED BY <1>7, <1>9, <1>11, <1>12, <1>13 DEF Once

-----------------------------------------------------------------------------
(* The schedulers *)

LEMMA AllocatedIs ==
    \A t : t \in Allocated <=> \E p \in Prios : t \in Elements(thread_list[p])
BY DEF Allocated

LEMMA ElementsTyped ==
    ASSUME NEW S, NEW s \in Seq(S)
    PROVE  Elements(s) \subseteq S
BY LenProperties, ElementOfSeq DEF Elements

\* A thread is linked in one of the lists, with either scheduler.
AddedTo(r, lists, t, p) ==
    /\ r \in [Prios -> Seq(Threads)]
    /\ \A q \in Prios : q # p => r[q] = lists[q]
    /\ Elements(r[p]) = Elements(lists[p]) \cup {t}
    /\ Once(lists[p]) => Once(r[p])

LEMMA ThreadAdded ==
    ASSUME NEW lists \in [Prios -> Seq(Threads)], NEW t \in Threads, NEW p \in Prios,
           t \notin Elements(lists[p])
    PROVE  AddedTo(PKaddThread(lists, t, p), lists, t, p)
<1> DEFINE l == lists[p]
           m == IF policy = "edf" THEN add(l, t)
                ELSE IF l = <<>> THEN <<t>> ELSE <<Head(l), t>> \o Tail(l)
<1>1. l \in Seq(Threads) /\ Len(l) \in Nat /\ DOMAIN l = 1 .. Len(l)
    BY LenProperties
<1>2. PKaddThread(lists, t, p) = [lists EXCEPT ![p] = m]
    BY DEF PKaddThread
<1> HIDE DEF l
<1>3. \E n \in 0 .. Len(l) :
         m \in Seq(Threads) /\ LinkedAt(m, l, n, t)
    <2>1. CASE policy = "edf"
        <3>1. m = <<t>> \o l
            BY <2>1 DEF add
        <3>2. <<t>> \in Seq(Threads) /\ Len(<<t>>) = 1 /\ <<t>>[1] = t
            OBVIOUS
        <3>3. /\ m \in Seq(Threads) /\ Len(m) = Len(l) + 1
              /\ \A k \in 1 .. 1 + Len(l) : m[k] = IF k <= 1 THEN <<t>>[k] ELSE l[k - 1]
            <4>1. PICK a : a = <<t>>
                OBVIOUS
            <4> HIDE DEF m
            <4>2. /\ a \o l \in Seq(Threads) /\ Len(a \o l) = Len(a) + Len(l)
                  /\ \A k \in 1 .. Len(a) + Len(l) :
                        (a \o l)[k] = IF k <= Len(a) THEN a[k] ELSE l[k - Len(a)]
                BY <1>1, <3>2, <4>1, ConcatProperties
            <4> QED BY <1>1, <3>1, <3>2, <4>1, <4>2
        <3> HIDE DEF m
        <3>4. \A k \in 1 .. Len(l) + 1 :
                 m[k] = IF k <= 0 THEN l[k] ELSE IF k = 0 + 1 THEN t ELSE l[k - 1]
            BY <1>1, <3>2, <3>3
        <3>5. 0 \in 0 .. Len(l)
            BY <1>1
        <3> QED BY <3>3, <3>4, <3>5 DEF LinkedAt
    <2>2. CASE policy # "edf" /\ l = <<>>
        <3>1. m = <<t>> /\ Len(l) = 0 /\ Len(<<t>>) = 1 /\ <<t>>[1] = t /\ <<t>> \in Seq(Threads)
            BY <2>2
        <3> HIDE DEF m
        <3>2. \A k \in 1 .. Len(l) + 1 : k = 1
            BY <3>1
        <3>3. 0 \in 0 .. Len(l) /\ 0 + 1 = 1 /\ ~(1 <= 0)
            BY <3>1
        <3> QED BY <3>1, <3>2, <3>3 DEF LinkedAt
    <2>3. CASE policy # "edf" /\ l # <<>>
        <3>1. m = <<Head(l), t>> \o Tail(l)
            BY <2>3
        <3>2. /\ Len(l) \in Nat \ {0} /\ Head(l) = l[1] /\ Head(l) \in Threads
              /\ Tail(l) \in Seq(Threads) /\ Len(Tail(l)) = Len(l) - 1
              /\ \A k \in 1 .. Len(l) - 1 : Tail(l)[k] = l[k + 1]
            BY <1>1, <2>3, EmptySeq, HeadTailProperties
        <3>3. PICK a : a = <<Head(l), t>>
            OBVIOUS
        <3>4. a \in Seq(Threads) /\ Len(a) = 2 /\ a[1] = l[1] /\ a[2] = t
            BY <3>2, <3>3
        <3>5. PICK b : b = Tail(l)
            OBVIOUS
        <3>6. /\ m \in Seq(Threads) /\ Len(m) = Len(a) + Len(b)
              /\ \A k \in 1 .. Len(a) + Len(b) : m[k] = IF k <= Len(a) THEN a[k] ELSE b[k - Len(a)]
            <4>1. m = a \o b /\ b \in Seq(Threads)
                BY <3>1, <3>2, <3>3, <3>5
            <4> HIDE DEF m
            <4> QED BY <3>4, <4>1, ConcatProperties
        <3> HIDE DEF m
        <3>7. Len(m) = Len(l) + 1 /\ 1 \in 0 .. Len(l)
            BY <3>2, <3>4, <3>5, <3>6
        <3>8. ASSUME NEW k \in 1 .. Len(l) + 1
              PROVE  m[k] = IF k <= 1 THEN l[k] ELSE IF k = 1 + 1 THEN t ELSE l[k - 1]
            <4>1. CASE k = 1
                BY <3>2, <3>4, <3>5, <3>6, <4>1
            <4>2. CASE k = 2
                BY <3>2, <3>4, <3>5, <3>6, <4>2
            <4>3. CASE k > 2
                <5>1. k - 2 \in 1 .. Len(l) - 1 /\ k - 2 + 1 = k - 1
                    BY <3>2, <4>3
                <5>2. m[k] = b[k - 2]
                    BY <3>2, <3>4, <3>5, <3>6, <4>3
                <5> QED BY <3>2, <3>5, <4>3, <5>1, <5>2
            <4> QED BY <3>2, <4>1, <4>2, <4>3
        <3> QED BY <3>6, <3>7, <3>8 DEF LinkedAt
    <2> QED BY <2>1, <2>2, <2>3
<1> HIDE DEF m
<1>4. m \in Seq(Threads) /\ Elements(m) = Elements(l) \cup {t} /\ (Once(l) => Once(m))
    BY <1>1, <1>3, LinkedElements DEF l
<1> QED BY <1>1, <1>2, <1>4 DEF l, AddedTo

\* Every list that IRQfindNextThread() turns keeps its elements.
LEMMA ListTurned ==
    ASSUME TypeOK, NEW p \in Prios, NEW i \in 1 .. Len(thread_list[p]), Once(thread_list[p])
    PROVE  /\ ScanOrder(p)[i] \in Elements(thread_list[p])
           /\ RotateTo(p, i) \in Seq(Threads) /\ Once(RotateTo(p, i))
           /\ Elements(RotateTo(p, i)) = Elements(thread_list[p])
<1> DEFINE l == thread_list[p]
           s == ScanOrder(p)
<1>1. l \in Seq(Threads) /\ Len(l) \in Nat \ {0} /\ DOMAIN l = 1 .. Len(l)
    BY LenProperties DEF TypeOK
<1>2. CASE policy = "edf"
    <2>1. s = l /\ RotateTo(p, i) = l
        BY <1>2 DEF ScanOrder, RotateTo, walk
    <2> QED BY <1>1, <2>1 DEF Elements
<1>3. CASE policy # "edf"
    <2>1. s = Tail(l) \o <<Head(l)>>
        BY <1>3 DEF ScanOrder
    <2>2. l # <<>>
        BY <1>1
    <2>3. Tail(l) = SubSeq(l, 2, Len(l)) /\ Head(l) = l[1] /\ Head(l) \in Threads
        BY <1>1, <2>2, TailIsSubSeq, HeadTailProperties
    <2>4. s \in Seq(Threads) /\ Len(s) = Len(l) /\ Elements(s) = Elements(l) /\ Once(s)
        <3>1. CASE Len(l) = 1
            <4>1. Len(Tail(l)) = 0 /\ Tail(l) \in Seq(Threads)
                BY <1>1, <2>2, <3>1, HeadTailProperties
            <4>2. Tail(l) = <<>> /\ l = <<Head(l)>>
                BY <1>1, <2>3, <3>1, <4>1
            <4>3. s = l
                BY <2>1, <2>3, <4>2
            <4> QED BY <1>1, <4>3
        <3>2. CASE Len(l) > 1
            <4>1. SubSeq(l, 1, 2 - 1) = <<Head(l)>>
                <5>1. /\ SubSeq(l, 1, 1) \in Seq(Threads) /\ Len(SubSeq(l, 1, 1)) = 1
                      /\ SubSeq(l, 1, 1)[1] = l[1]
                    BY <1>1
                <5>2. <<Head(l)>> \in Seq(Threads) /\ Len(<<Head(l)>>) = 1 /\ <<Head(l)>>[1] = l[1]
                    BY <2>3
                <5>3. \A k \in 1 .. 1 : k = 1
                    OBVIOUS
                <5> HIDE DEF l
                <5>4. SubSeq(l, 1, 1) = <<Head(l)>>
                    BY <5>1, <5>2, <5>3, SeqEqual
                <5> QED BY <5>4
            <4>2. s = SubSeq(l, 2, Len(l)) \o SubSeq(l, 1, 2 - 1)
                BY <2>1, <2>3, <4>1
            <4>3. 2 \in 1 .. Len(l)
                BY <1>1, <3>2
            <4> HIDE DEF l, s
            <4> QED BY <1>1, <4>2, <4>3, Rotated DEF l
        <3>3. Len(l) = 1 \/ Len(l) > 1
            <4>1. \A n \in Nat \ {0} : n = 1 \/ n > 1
                OBVIOUS
            <4> QED BY <1>1, <4>1
        <3> QED BY <3>1, <3>2, <3>3
    <2>5. RotateTo(p, i) = SubSeq(s, i, Len(s)) \o SubSeq(s, 1, i - 1)
        BY <1>3, <2>4 DEF RotateTo
    <2>6. s[i] \in Elements(s)
        BY <2>4, LenProperties DEF Elements
    <2> HIDE DEF s
    <2>7. /\ RotateTo(p, i) \in Seq(Threads) /\ Elements(RotateTo(p, i)) = Elements(s)
          /\ Once(RotateTo(p, i))
        BY <2>4, <2>5, Rotated
    <2> QED BY <2>4, <2>6, <2>7 DEF s
<1> QED BY <1>2, <1>3

\* The wakeup times do not decrease along the list.
Sorted(s) == \A i, j \in DOMAIN s : i < j => s[i].time <= s[j].time

Sleepers == [p : Threads, time : 0 .. MaxSleep]

\* The timer is set to the first sleeper or earlier.
LEMMA TimerSet ==
    ASSUME NEW idle, IRQsetNextPreemption(idle),
           sleepingList' \in Seq(Sleepers), Sorted(sleepingList')
    PROVE  /\ armed' = TRUE /\ nextPreemption' \in 0 .. Never
           /\ \A d \in Elements(sleepingList') : nextPreemption' <= d.time
<1> USE KernelAssumption
<1> DEFINE l == sleepingList'
<1>1. /\ Len(l) \in Nat /\ DOMAIN l = 1 .. Len(l)
      /\ \A k \in 1 .. Len(l) : l[k].time \in 0 .. MaxSleep
    <2>1. /\ Len(l) \in Nat /\ DOMAIN l = 1 .. Len(l)
          /\ \A k \in 1 .. Len(l) : l[k] \in Sleepers
        BY LenProperties, ElementOfSeq
    <2> QED BY <2>1 DEF Sleepers
<1>2. /\ firstWakeupInList' \in 0 .. Never
      /\ \A d \in Elements(l) : firstWakeupInList' <= d.time
    <2>1. CASE l = <<>>
        BY <2>1 DEF firstWakeupInList, Elements
    <2>2. CASE l # <<>>
        <3>1. firstWakeupInList' = l[1].time /\ 1 \in 1 .. Len(l)
            BY <1>1, <2>2, EmptySeq DEF firstWakeupInList
        <3>2. \A k \in 1 .. Len(l) : l[1].time <= l[k].time
            <4> TAKE k \in 1 .. Len(l)
            <4>1. CASE k = 1
                BY <1>1, <3>1, <4>1
            <4>2. CASE k # 1
                <5>1. 1 \in DOMAIN l /\ k \in DOMAIN l /\ 1 < k
                    BY <1>1, <3>1, <4>2
                <5> HIDE DEF l
                <5> QED BY <5>1 DEF Sorted, l
            <4> QED BY <4>1, <4>2
        <3> QED BY <1>1, <3>1, <3>2 DEF Elements
    <2> QED BY <2>1, <2>2
<1>3. /\ nextPreemption' \in {firstWakeupInList', MAX_TIME_SLICE}
      /\ nextPreemption' <= firstWakeupInList'
    BY <1>2 DEF IRQsetNextPreemption, MinOf
<1>4. ASSUME NEW d \in Elements(l) PROVE nextPreemption' <= d.time
    <2>1. d.time \in Int
        BY <1>1 DEF Elements
    <2> QED BY <1>2, <1>3, <2>1
<1> QED BY <1>2, <1>3, <1>4 DEF IRQsetNextPreemption

\* What a context switch does.
Switched ==
    /\ policy' = policy
    /\ cur' \in Threads \cup {Idle}
    /\ thread_list' \in [Prios -> Seq(Threads)]
    /\ \A p \in Prios : /\ Elements(thread_list'[p]) = Elements(thread_list[p])
                        /\ Once(thread_list'[p])
    /\ armed' = TRUE /\ nextPreemption' \in 0 .. Never
    /\ \A d \in Elements(sleepingList') : nextPreemption' <= d.time
    /\ missed' = {}
    /\ cur' # Idle => cur' \in Allocated /\ Ready(cur)'
    /\ \A t \in Allocated : Ready(t)' => prio[t] <= Priority(cur)'

LEMMA SwitchDone ==
    ASSUME TypeOK, ThreadLists, prio' = prio, kernel_running = 0,
           sleepingList' \in Seq(Sleepers), Sorted(sleepingList'),
           IRQfindNextThread
    PROVE  Switched
<1> USE KernelAssumption
<1> DEFINE ready  == {t \in Threads : Ready(t)'}
           levels == {p \in Prios : Elements(thread_list[p]) \cap ready # {}}
<1>0. \A p \in Prios : thread_list[p] \in Seq(Threads) /\ Elements(thread_list[p]) \subseteq Threads
    BY ElementsTyped DEF TypeOK
<1>1. CASE levels = {} /\ cur' = Idle /\ missed' = {} /\ IRQsetNextPreemption(TRUE)
           /\ UNCHANGED <<policy, thread_list>>
    <2>1. \A t \in Allocated : ~Ready(t)'
        <3> SUFFICES ASSUME NEW t \in Allocated, Ready(t)' PROVE FALSE
            OBVIOUS
        <3>1. PICK p \in Prios : t \in Elements(thread_list[p])
            BY AllocatedIs
        <3>2. t \in ready
            BY <1>0, <3>1
        <3> QED BY <1>1, <3>1, <3>2
    <2>2. \A p \in Prios : Once(thread_list[p])
        BY DEF ThreadLists
    <2>3. thread_list' \in [Prios -> Seq(Threads)]
        BY <1>1 DEF TypeOK
    <2> QED BY <1>1, <2>1, <2>2, <2>3, TimerSet DEF Switched
<1>2. ASSUME NEW p \in levels, \A q \in levels : q <= p,
             NEW i \in 1 .. Len(thread_list[p]),
             ScanOrder(p)[i] \in ready,
             cur' = ScanOrder(p)[i],
             thread_list' = [thread_list EXCEPT ![p] = RotateTo(p, i)],
             missed' = {}, policy' = policy, IRQsetNextPreemption(FALSE)
      PROVE  Switched
    <2>1. p \in Prios /\ Once(thread_list[p])
        BY DEF ThreadLists
    <2>2. /\ cur' \in Elements(thread_list[p])
          /\ RotateTo(p, i) \in Seq(Threads) /\ Once(RotateTo(p, i))
          /\ Elements(RotateTo(p, i)) = Elements(thread_list[p])
        BY <1>2, <2>1, ListTurned
    <2>3. cur' \in Threads /\ cur' # Idle /\ cur' \in Allocated /\ Ready(cur)' /\ prio[cur'] = p
        <3>1. Ready(cur)'
            BY <1>2 DEF Ready
        <3> QED BY <1>0, <2>1, <2>2, <3>1, AllocatedIs DEF ThreadLists
    <2>4. thread_list \in [Prios -> Seq(Threads)]
        BY DEF TypeOK
    <2>5. /\ thread_list' \in [Prios -> Seq(Threads)]
          /\ \A q \in Prios : /\ Elements(thread_list'[q]) = Elements(thread_list[q])
                              /\ Once(thread_list'[q])
        BY <1>2, <2>1, <2>2, <2>4 DEF ThreadLists
    <2>6. ASSUME NEW t \in Allocated, Ready(t)' PROVE prio[t] <= Priority(cur)'
        <3>1. PICK q \in Prios : t \in Elements(thread_list[q])
            BY AllocatedIs
        <3>2. q \in levels /\ prio[t] = q
            BY <1>0, <2>6, <3>1 DEF ThreadLists
        <3> QED BY <1>2, <2>3, <3>2 DEF Priority
    <2> QED BY <1>2, <2>3, <2>5, <2>6, TimerSet DEF Switched
<1> HIDE DEF levels, ready
<1>3. \/ levels = {} /\ cur' = Idle /\ missed' = {} /\ IRQsetNextPreemption(TRUE)
         /\ UNCHANGED <<policy, thread_list>>
      \/ /\ missed' = {} /\ policy' = policy
         /\ \E p \in levels :
               /\ \A q \in levels : q <= p
               /\ \E i \in 1 .. Len(thread_list[p]) :
                     /\ ScanOrder(p)[i] \in ready
                     /\ cur' = ScanOrder(p)[i]
                     /\ thread_list' = [thread_list EXCEPT ![p] = RotateTo(p, i)]
         /\ IRQsetNextPreemption(FALSE)
    BY DEF IRQfindNextThread, levels, ready
<1> QED BY <1>1, <1>2, <1>3

-----------------------------------------------------------------------------
(* The sleeping list *)

LEMMA SleepersTyped ==
    ASSUME NEW s \in Seq(Sleepers)
    PROVE  /\ Len(s) \in Nat /\ DOMAIN s = 1 .. Len(s)
           /\ \A k \in 1 .. Len(s) : /\ s[k] \in Sleepers /\ s[k].p \in Threads
                                     /\ s[k].time \in 0 .. MaxSleep
<1>1. /\ Len(s) \in Nat /\ DOMAIN s = 1 .. Len(s)
      /\ \A k \in 1 .. Len(s) : s[k] \in Sleepers
    BY LenProperties, ElementOfSeq
<1> QED BY <1>1 DEF Sleepers

LEMMA WalkStops ==
    ASSUME sleepingList \in Seq(Sleepers), NEW time \in Nat
    PROVE  /\ WakingBefore(time) \in 0 .. Len(sleepingList)
           /\ \A k \in 1 .. WakingBefore(time) : sleepingList[k].time < time
           /\ WakingBefore(time) < Len(sleepingList)
              => sleepingList[WakingBefore(time) + 1].time >= time
<1> USE KernelAssumption
<1>1. PICK T : T = {i \in DOMAIN sleepingList : sleepingList[i].time >= time}
    OBVIOUS
<1>2. /\ Len(sleepingList) \in Nat /\ DOMAIN sleepingList = 1 .. Len(sleepingList)
      /\ \A k \in 1 .. Len(sleepingList) : sleepingList[k].time \in Int
    BY SleepersTyped
<1>3. CASE T = {}
    <2>1. WakingBefore(time) = Len(sleepingList)
        BY <1>1, <1>3 DEF WakingBefore
    <2> QED BY <1>1, <1>2, <1>3, <2>1
<1>4. CASE T # {}
    <2>1. T \in SUBSET Nat
        BY <1>1, <1>2
    <2>2. \E i \in T : \A j \in T : i <= j
        BY <1>4, <2>1, NatMin
    <2>3. PICK m : m = CHOOSE i \in T : \A j \in T : i <= j
        OBVIOUS
    <2>4. m \in T /\ \A j \in T : m <= j
        BY <2>2, <2>3
    <2>5. WakingBefore(time) = m - 1
        BY <1>1, <1>4, <2>3 DEF WakingBefore
    <2>6. m \in 1 .. Len(sleepingList) /\ sleepingList[m].time >= time
        BY <1>1, <1>2, <2>4
    <2>7. \A k \in 1 .. m - 1 : sleepingList[k].time < time
        <3> TAKE k \in 1 .. m - 1
        <3>1. k \in 1 .. Len(sleepingList) /\ ~(m <= k)
            BY <1>2, <2>6
        <3>2. k \notin T
            BY <2>4, <3>1
        <3> QED BY <1>1, <1>2, <3>1, <3>2
    <2> QED BY <1>2, <2>5, <2>6, <2>7
<1> QED BY <1>3, <1>4

LEMMA SleeperInserted ==
    ASSUME TypeOK, SleepList, NEW t \in Threads, t \in Allocated, ~sleep[t],
           NEW time \in 0 .. MaxSleep
    PROVE  /\ InsertSleeper(t, time) \in Seq(Sleepers)
           /\ SleepListOf(InsertSleeper(t, time), [sleep EXCEPT ![t] = TRUE], Allocated)
<1> USE KernelAssumption
<1>1. PICK s : s = sleepingList
    OBVIOUS
<1>2. PICK n \in Nat : n = WakingBefore(time)
    <2>1. sleepingList \in Seq(Sleepers) /\ time \in Nat
        BY DEF TypeOK, Sleepers
    <2> QED BY <2>1, WalkStops, SleepersTyped
<1>3. PICK x : x = [p |-> t, time |-> time]
    OBVIOUS
<1>4. PICK r : r = InsertSleeper(t, time)
    OBVIOUS
<1>5. s \in Seq(Sleepers) /\ x \in Sleepers /\ x.p = t /\ x.time = time
    BY <1>1, <1>3 DEF TypeOK, Sleepers
<1>6. /\ Len(s) \in Nat /\ DOMAIN s = 1 .. Len(s)
      /\ \A k \in 1 .. Len(s) : s[k].p \in Threads /\ s[k].time \in 0 .. MaxSleep
    BY <1>5, SleepersTyped
<1>7. /\ n \in 0 .. Len(s) /\ \A k \in 1 .. n : s[k].time < time
      /\ n < Len(s) => s[n + 1].time >= time
    <2>1. sleepingList \in Seq(Sleepers) /\ time \in Nat
        BY <1>1, <1>5
    <2> QED BY <1>1, <1>2, <2>1, WalkStops
<1>8. r \in Seq(Sleepers) /\ LinkedAt(r, s, n, x)
    <2>1. r = Inserted(s, n, x)
        BY <1>1, <1>2, <1>3, <1>4 DEF InsertSleeper, Inserted
    <2> QED BY <1>5, <1>7, <2>1, Linked
<1>8a. \A k \in 1 .. Len(s) + 1 :
          r[k] = IF k <= n THEN s[k] ELSE IF k = n + 1 THEN x ELSE s[k - 1]
    BY <1>8 DEF LinkedAt
<1>8b. \A k \in 1 .. Len(s) + 1 : /\ k <= n => r[k] = s[k]
                                  /\ k = n + 1 => r[k] = x
                                  /\ k > n + 1 => r[k] = s[k - 1]
    BY <1>6, <1>7, <1>8a
<1>9. Elements(r) = Elements(s) \cup {x} /\ DOMAIN r = 1 .. Len(s) + 1
    <2>1. Elements(r) = Elements(s) \cup {x}
        BY <1>5, <1>7, <1>8, LinkedElements
    <2>2. DOMAIN r = 1 .. Len(s) + 1
        BY <1>8, SleepersTyped DEF LinkedAt
    <2> QED BY <2>1, <2>2
<1>10. \A d \in Elements(s) : d.p # t /\ d.p \in Allocated
    BY <1>1 DEF SleepList, SleepListOf
<1>11. \A u \in Threads : [sleep EXCEPT ![t] = TRUE][u] <=> \E d \in Elements(r) : d.p = u
    <2> TAKE u \in Threads
    <2>1. sleep[u] <=> \E d \in Elements(s) : d.p = u
        BY <1>1 DEF SleepList, SleepListOf
    <2>2. [sleep EXCEPT ![t] = TRUE][u] <=> sleep[u] \/ u = t
        BY DEF TypeOK
    <2> QED BY <1>5, <1>9, <2>1, <2>2
<1>12. \A k \in 1 .. Len(s) : k > n => s[k].time >= time
    <2> TAKE k \in 1 .. Len(s)
    <2>1. CASE k > n + 1
        <3>1. n + 1 \in DOMAIN s /\ k \in DOMAIN s /\ n + 1 < k
            BY <1>6, <1>7, <2>1
        <3>2. s[n + 1].time <= s[k].time
            BY <1>1, <3>1 DEF SleepList, SleepListOf
        <3> QED BY <1>6, <1>7, <3>1, <3>2
    <2>2. CASE k = n + 1
        BY <1>6, <1>7, <2>2
    <2> QED BY <1>6, <1>7, <2>1, <2>2
<1>13. ASSUME NEW i \in 1 .. Len(s) + 1, NEW j \in 1 .. Len(s) + 1, i < j
       PROVE  r[i].time <= r[j].time /\ r[i].p # r[j].p
    <2>1. \A k, l \in 1 .. Len(s) : k < l => s[k].time <= s[l].time /\ s[k].p # s[l].p
        BY <1>1, <1>6 DEF SleepList, SleepListOf
    <2>2. \A k \in 1 .. Len(s) : s[k].p # t
        BY <1>6, <1>10 DEF Elements
    <2>8. /\ (i <= n => r[i] = s[i]) /\ (j <= n => r[j] = s[j])
          /\ (i = n + 1 => r[i] = x) /\ (j = n + 1 => r[j] = x)
          /\ (i > n + 1 => r[i] = s[i - 1]) /\ (j > n + 1 => r[j] = s[j - 1])
        <3>2. (i <= n => r[i] = s[i]) /\ (i = n + 1 => r[i] = x) /\ (i > n + 1 => r[i] = s[i - 1])
            BY <1>8b
        <3>3. (j <= n => r[j] = s[j]) /\ (j = n + 1 => r[j] = x) /\ (j > n + 1 => r[j] = s[j - 1])
            BY <1>8b
        <3> QED BY <3>2, <3>3
    <2>3. CASE i <= n /\ j <= n
        <3>1. i \in 1 .. Len(s) /\ j \in 1 .. Len(s)
            BY <1>6, <1>7, <2>3
        <3> QED BY <1>13, <2>1, <2>3, <2>8, <3>1
    <2>4. CASE i <= n /\ j = n + 1
        <3>1. i \in 1 .. Len(s) /\ i \in 1 .. n
            BY <1>6, <1>7, <2>4
        <3>2. r[i] = s[i] /\ r[j] = x
            BY <2>4, <2>8
        <3> QED BY <1>5, <1>6, <1>7, <2>2, <3>1, <3>2
    <2>5. CASE i <= n /\ j > n + 1
        <3>1. i \in 1 .. Len(s) /\ j - 1 \in 1 .. Len(s) /\ i < j - 1
            BY <1>6, <1>7, <2>5
        <3>2. r[i] = s[i] /\ r[j] = s[j - 1]
            BY <2>5, <2>8
        <3> QED BY <2>1, <3>1, <3>2
    <2>6. CASE i = n + 1
        <3>1. j - 1 \in 1 .. Len(s) /\ j - 1 > n
            BY <1>6, <1>7, <1>13, <2>6
        <3>2. r[i] = x /\ r[j] = s[j - 1]
            BY <1>13, <2>6, <2>8
        <3> QED BY <1>5, <1>6, <1>12, <2>2, <3>1, <3>2
    <2>7. CASE i > n + 1
        <3>1. i - 1 \in 1 .. Len(s) /\ j - 1 \in 1 .. Len(s) /\ i - 1 < j - 1
            BY <1>6, <1>7, <1>13, <2>7
        <3>2. r[i] = s[i - 1] /\ r[j] = s[j - 1]
            <4>1. j > n + 1
                BY <1>13, <2>7
            <4> QED BY <2>7, <2>8, <4>1
        <3> QED BY <2>1, <3>1, <3>2
    <2> QED BY <1>6, <1>7, <1>13, <2>3, <2>4, <2>5, <2>6, <2>7
<1>14. SleepListOf(r, [sleep EXCEPT ![t] = TRUE], Allocated)
    BY <1>5, <1>9, <1>10, <1>11, <1>13 DEF SleepListOf
<1> QED BY <1>4, <1>8, <1>14

\* IRQwakeThreads(): the sleepers at the front wake.
LEMMA SleepersWoken ==
    ASSUME TypeOK, SleepList, NEW n \in 0 .. Len(sleepingList)
    PROVE  LET list   == SubSeq(sleepingList, n + 1, Len(sleepingList))
               asleep == [t \in Threads |-> /\ sleep[t]
                                            /\ t \notin {sleepingList[i].p : i \in 1 .. n}]
           IN  /\ list \in Seq(Sleepers)
               /\ SleepListOf(list, asleep, Allocated)
<1>1. PICK s : s = sleepingList
    OBVIOUS
<1>2. PICK r : r = SubSeq(s, n + 1, Len(s))
    OBVIOUS
<1>3. PICK a : a = [t \in Threads |-> sleep[t] /\ t \notin {s[i].p : i \in 1 .. n}]
    OBVIOUS
<1>4. s \in Seq(Sleepers)
    BY <1>1 DEF TypeOK, Sleepers
<1>5. /\ Len(s) \in Nat /\ DOMAIN s = 1 .. Len(s) /\ n \in 0 .. Len(s)
      /\ \A k \in 1 .. Len(s) : s[k] \in Sleepers /\ s[k].p \in Threads
    BY <1>1, <1>4, SleepersTyped
<1>6. /\ r \in Seq(Sleepers) /\ Len(r) = Len(s) - n
      /\ \A k \in 1 .. Len(s) - n : r[k] = s[n + k]
    <2>1. \A k \in n + 1 .. Len(s) : s[k] \in Sleepers
        BY <1>5
    <2>2. /\ r \in Seq(Sleepers)
          /\ Len(r) = IF n + 1 <= Len(s) THEN Len(s) - (n + 1) + 1 ELSE 0
          /\ \A k \in 1 .. Len(s) - (n + 1) + 1 : r[k] = s[n + 1 + k - 1]
        BY <1>2, <1>5, <2>1, SubSeqProperties
    <2>3. \A k \in 1 .. Len(s) - n : k \in 1 .. Len(s) - (n + 1) + 1 /\ n + 1 + k - 1 = n + k
        BY <1>5
    <2>4. Len(r) = Len(s) - n
        <3>1. CASE n = Len(s)
            BY <1>5, <2>2, <3>1
        <3>2. CASE n # Len(s)
            <4>1. n + 1 <= Len(s) /\ Len(s) - (n + 1) + 1 = Len(s) - n
                <5>1. \A l \in Nat : \A m \in 0 .. l : m # l => m + 1 <= l /\ l - (m + 1) + 1 = l - m
                    OBVIOUS
                <5> QED BY <1>5, <3>2, <5>1
            <4> QED BY <2>2, <4>1
        <3> QED BY <3>1, <3>2
    <2> QED BY <2>2, <2>3, <2>4
<1>7. DOMAIN r = 1 .. Len(s) - n
    BY <1>6, SleepersTyped
<1>8. \A k, l \in 1 .. Len(s) : k < l => s[k].time <= s[l].time /\ s[k].p # s[l].p
    BY <1>1, <1>5 DEF SleepList, SleepListOf
<1>9. ASSUME NEW i \in 1 .. Len(s) - n, NEW j \in 1 .. Len(s) - n, i < j
      PROVE  r[i].time <= r[j].time /\ r[i].p # r[j].p
    <2>1. n + i \in 1 .. Len(s) /\ n + j \in 1 .. Len(s) /\ n + i < n + j
        BY <1>5, <1>9
    <2> QED BY <1>6, <1>8, <2>1
<1>10. ASSUME NEW d \in Elements(r)
       PROVE  d \in Elements(s) /\ \A i \in 1 .. n : s[i].p # d.p
    <2>1. PICK k \in 1 .. Len(s) - n : d = s[n + k]
        BY <1>6, <1>7 DEF Elements
    <2>2. n + k \in 1 .. Len(s) /\ \A i \in 1 .. n : i \in 1 .. Len(s) /\ i < n + k
        BY <1>5
    <2> QED BY <1>5, <1>8, <2>1, <2>2 DEF Elements
<1>11. ASSUME NEW d \in Elements(s), \A i \in 1 .. n : s[i].p # d.p
       PROVE  d \in Elements(r)
    <2>1. PICK k \in 1 .. Len(s) : d = s[k]
        BY <1>5 DEF Elements
    <2>2. k > n
        BY <1>5, <1>11, <2>1
    <2>3. k - n \in 1 .. Len(s) - n /\ n + (k - n) = k
        BY <1>5, <2>2
    <2> QED BY <1>6, <1>7, <2>1, <2>3 DEF Elements
<1>12. \A u \in Threads : a[u] <=> \E d \in Elements(r) : d.p = u
    <2> TAKE u \in Threads
    <2>1. sleep[u] <=> \E d \in Elements(s) : d.p = u
        BY <1>1 DEF SleepList, SleepListOf
    <2>2. a[u] <=> sleep[u] /\ \A i \in 1 .. n : s[i].p # u
        BY <1>3
    <2> QED BY <1>10, <1>11, <2>1, <2>2
<1>13. \A d \in Elements(s) : d.p \in Allocated
    BY <1>1 DEF SleepList, SleepListOf
<1>14. SleepListOf(r, a, Allocated)
    BY <1>7, <1>9, <1>10, <1>12, <1>13 DEF SleepListOf
<1> QED BY <1>1, <1>2, <1>3, <1>6, <1>14

\* Time passes: no sleeper overtakes another, and the timer stays ahead.
LEMMA TimePasses ==
    ASSUME TypeOK, SleepList,
           sleepingList' = [i \in DOMAIN sleepingList |->
                              [sleepingList[i] EXCEPT !.time = Earlier(@)]]
    PROVE  /\ sleepingList' \in Seq(Sleepers)
           /\ SleepListOf(sleepingList', sleep, Allocated)
           /\ \A e \in Elements(sleepingList') :
                 \E d \in Elements(sleepingList) : d.time \in 0 .. MaxSleep /\ e.time = Earlier(d.time)
<1> USE KernelAssumption
<1>1. PICK s : s = sleepingList
    OBVIOUS
<1>2. PICK r : r = sleepingList'
    OBVIOUS
<1>3. /\ s \in Seq(Sleepers) /\ Len(s) \in Nat /\ DOMAIN s = 1 .. Len(s)
      /\ \A k \in 1 .. Len(s) : /\ s[k] \in Sleepers /\ s[k].p \in Threads
                                /\ s[k].time \in 0 .. MaxSleep
    <2>1. s \in Seq(Sleepers)
        BY <1>1 DEF TypeOK, Sleepers
    <2> QED BY <2>1, SleepersTyped
<1>4. \A x \in 0 .. MaxSleep : Earlier(x) = IF x = 0 THEN 0 ELSE x - 1
    BY DEF Earlier
<1>5. DOMAIN r = 1 .. Len(s) /\ r = [k \in 1 .. Len(s) |-> [s[k] EXCEPT !.time = Earlier(@)]]
    BY <1>1, <1>2, <1>3
<1>6. ASSUME NEW k \in 1 .. Len(s)
      PROVE  /\ r[k] \in Sleepers /\ r[k].p = s[k].p
             /\ r[k].time = Earlier(s[k].time)
             /\ r[k].time = IF s[k].time = 0 THEN 0 ELSE s[k].time - 1
    <2>1. r[k] = [s[k] EXCEPT !.time = Earlier(@)]
        BY <1>5
    <2>2. Earlier(s[k].time) \in 0 .. MaxSleep
        BY <1>3, <1>4
    <2>3. s[k] \in [p : Threads, time : 0 .. MaxSleep]
        BY <1>3 DEF Sleepers
    <2>4. /\ r[k] \in Sleepers /\ r[k].p = s[k].p
          /\ r[k].time = Earlier(s[k].time)
        BY <2>1, <2>2, <2>3 DEF Sleepers
    <2> QED BY <1>3, <1>4, <2>4
<1>7. r \in Seq(Sleepers)
    <2>1. r \in [1 .. Len(s) -> Sleepers]
        BY <1>5, <1>6
    <2>2. PICK n \in Nat : n = Len(s)
        BY <1>3
    <2>3. r \in [1 .. n -> Sleepers]
        BY <2>1, <2>2
    <2> QED BY <2>3
<1>8. ASSUME NEW k \in 1 .. Len(s), NEW l \in 1 .. Len(s), k < l
      PROVE  r[k].time <= r[l].time /\ r[k].p # r[l].p
    <2>1. s[k].time <= s[l].time /\ s[k].p # s[l].p
        BY <1>1, <1>3, <1>8 DEF SleepList, SleepListOf
    <2>2. /\ r[k].time = (IF s[k].time = 0 THEN 0 ELSE s[k].time - 1) /\ r[k].p = s[k].p
          /\ r[l].time = (IF s[l].time = 0 THEN 0 ELSE s[l].time - 1) /\ r[l].p = s[l].p
        BY <1>6
    <2>3. s[k].time \in Nat /\ s[l].time \in Nat
        BY <1>3
    <2>4. \A x, y \in Nat : x <= y => (IF x = 0 THEN 0 ELSE x - 1) <= (IF y = 0 THEN 0 ELSE y - 1)
        OBVIOUS
    <2> QED BY <2>1, <2>2, <2>3, <2>4
<1>9. ASSUME NEW e \in Elements(r)
      PROVE  \E d \in Elements(s) : /\ d.time \in 0 .. MaxSleep /\ e.time = Earlier(d.time)
                                    /\ e.p = d.p
    <2>1. PICK k \in 1 .. Len(s) : e = r[k]
        BY <1>5 DEF Elements
    <2>2. s[k] \in Elements(s)
        BY <1>3 DEF Elements
    <2> QED BY <1>3, <1>6, <2>1, <2>2
<1>10. ASSUME NEW d \in Elements(s) PROVE \E e \in Elements(r) : e.p = d.p
    <2>1. PICK k \in 1 .. Len(s) : d = s[k]
        BY <1>3 DEF Elements
    <2>2. r[k] \in Elements(r)
        BY <1>5 DEF Elements
    <2> QED BY <1>6, <2>1, <2>2
<1>11. \A t \in Threads : sleep[t] <=> \E d \in Elements(s) : d.p = t
    BY <1>1 DEF SleepList, SleepListOf
<1>12. \A d \in Elements(s) : d.p \in Allocated
    BY <1>1 DEF SleepList, SleepListOf
<1>13. SleepListOf(r, sleep, Allocated)
    <2>1. \A t \in Threads : sleep[t] <=> \E e \in Elements(r) : e.p = t
        BY <1>9, <1>10, <1>11
    <2>2. \A e \in Elements(r) : e.p \in Allocated
        BY <1>9, <1>12
    <2> QED BY <1>5, <1>8, <2>1, <2>2 DEF SleepListOf
<1> QED BY <1>1, <1>2, <1>7, <1>9, <1>13

-----------------------------------------------------------------------------
(* The steps of the running thread *)

\* A step that leaves lists, flags and timer alone.
LEMMA QuietStep ==
    ASSUME KernelInv, TypeOK', ControlInv',
           UNCHANGED <<policy, cur, thread_list, prio, flags, sleepingList,
                       nextPreemption, armed, missed>>,
           pc[cur] # "yield", MakingUp => MakingUp'
    PROVE  KernelInv'
<1>1. ThreadLists' /\ SleepList'
    BY DEF KernelInv, ThreadLists, SleepList, SleepListOf, Allocated, flags
<1>2. CurrentIsRunnable'
    BY DEF KernelInv, CurrentIsRunnable, Allocated, Ready, flags
<1>3. (armed \/ MakingUp)'
    BY DEF KernelInv
<1>4. SleepersCovered'
    BY DEF KernelInv, SleepersCovered
<1>5. SwitchesCovered'
    <2>1. Overdue' = Overdue
        BY DEF Overdue, Allocated, Ready, Priority, flags
    <2> QED BY <2>1 DEF KernelInv, SwitchesCovered
<1> QED BY <1>1, <1>2, <1>3, <1>4, <1>5 DEF KernelInv

\* A step after which the running thread yields.
LEMMA StepToYield ==
    ASSUME KernelInv, TypeOK', ControlInv', ThreadLists', SleepList',
           cur' = cur, cur # Idle => cur \in Allocated', pc'[cur] = "yield"
    PROVE  KernelInv'
<1>1. MakingUp'
    BY DEF MakingUp
<1>2. CurrentIsRunnable'
    BY DEF CurrentIsRunnable
<1> QED BY <1>1, <1>2 DEF KernelInv, SleepersCovered, SwitchesCovered

\* The running thread, in its own code, is ready.
LEMMA RunningIsReady ==
    ASSUME KernelInv, NEW t \in Threads, cur = t, pc[t] # "yield"
    PROVE  /\ t # Idle /\ t \in Allocated
           /\ wait[t] = FALSE /\ sleep[t] = FALSE /\ deleted[t] = FALSE
           /\ pc[Idle] \notin {"reap", "unpause"}
           /\ pc \in [Threads \cup {Idle} -> ThreadPlaces \cup IdlePlaces]
BY KernelAssumption DEF KernelInv, CurrentIsRunnable, Ready, ControlInv, TypeOK

LEMMA SleepKeeps ==
    ASSUME KernelInv, NEW t \in Threads, NEW time \in 0 .. MaxSleep, nanoSleepUntil(t, time)
    PROVE  KernelInv'
<1> USE KernelAssumption
<1>1. cur = t /\ pc[t] = "run" /\ kernel_running = 0
    BY DEF nanoSleepUntil, Running, At
<1>2. /\ t # Idle /\ t \in Allocated /\ sleep[t] = FALSE /\ deleted[t] = FALSE
      /\ pc[Idle] \notin {"reap", "unpause"}
    BY <1>1, RunningIsReady
<1>3. /\ pc' = [pc EXCEPT ![t] = "yield"] /\ sleep' = [sleep EXCEPT ![t] = TRUE]
      /\ sleepingList' = InsertSleeper(t, time)
      /\ UNCHANGED <<policy, cur, thread_list, nextPreemption, armed, missed, prio, wait,
                     deleted, kernel_running, pendingWakeup, exist_deleted>>
    BY DEF nanoSleepUntil, Goto, scheduler
<1>4. sleepingList' \in Seq(Sleepers) /\ SleepListOf(sleepingList', sleep', Allocated)
    BY <1>2, <1>3, SleeperInserted DEF KernelInv
<1>5. TypeOK'
    BY <1>3, <1>4 DEF KernelInv, TypeOK, Sleepers, ThreadPlaces
<1>6. /\ pc'[t] = "yield" /\ pc'[Idle] = pc[Idle]
      /\ \A u \in Threads : u # t => pc'[u] = pc[u] /\ sleep'[u] = sleep[u]
    BY <1>2, <1>3 DEF KernelInv, TypeOK
<1>7. ControlInv'
    BY <1>1, <1>2, <1>3, <1>6 DEF KernelInv, ControlInv, ThreadPlaces
<1>8. ThreadLists' /\ SleepList' /\ Allocated' = Allocated
    BY <1>3, <1>4 DEF KernelInv, ThreadLists, SleepList, Allocated
<1> QED BY <1>1, <1>2, <1>3, <1>5, <1>6, <1>7, <1>8, StepToYield

\* Wait(t), yield(t) and threadLauncher(t).
LEMMA StopKeeps ==
    ASSUME KernelInv, NEW t \in Threads, Wait(t) \/ yield(t) \/ threadLauncher(t)
    PROVE  KernelInv'
<1> USE KernelAssumption
<1>1. cur = t /\ pc[t] = "run" /\ kernel_running = 0
    BY DEF Wait, yield, threadLauncher, Running, At
<1>2. /\ t # Idle /\ t \in Allocated /\ sleep[t] = FALSE /\ deleted[t] = FALSE
      /\ pc[Idle] \notin {"reap", "unpause"}
    BY <1>1, RunningIsReady
<1>3. /\ pc' = [pc EXCEPT ![t] = "yield"]
      /\ UNCHANGED <<policy, cur, thread_list, nextPreemption, armed, missed, prio,
                     sleep, sleepingList, kernel_running, pendingWakeup>>
    BY DEF Wait, yield, threadLauncher, Goto, scheduler, flags
<1>4. /\ wait' = wait \/ wait' = [wait EXCEPT ![t] = TRUE]
      /\ deleted' = deleted \/ deleted' = [deleted EXCEPT ![t] = TRUE]
      /\ exist_deleted' \in {exist_deleted, TRUE}
    BY DEF Wait, yield, threadLauncher, flags
<1>5. TypeOK'
    BY <1>3, <1>4 DEF KernelInv, TypeOK, ThreadPlaces
<1>6. /\ pc'[t] = "yield" /\ pc'[Idle] = pc[Idle]
      /\ \A u \in Threads : u # t => pc'[u] = pc[u] /\ deleted'[u] = deleted[u]
    BY <1>2, <1>3, <1>4 DEF KernelInv, TypeOK
<1>7. ControlInv'
    BY <1>1, <1>2, <1>3, <1>6 DEF KernelInv, ControlInv, ThreadPlaces
<1>8. ThreadLists' /\ SleepList' /\ Allocated' = Allocated
    BY <1>3 DEF KernelInv, ThreadLists, SleepList, SleepListOf, Allocated
<1> QED BY <1>1, <1>2, <1>3, <1>5, <1>6, <1>7, <1>8, StepToYield

\* wakeup(t, u): with deadlines the caller yields or leaves the switch to
\* whoever paused the kernel.
LEMMA WakeupKeeps ==
    ASSUME KernelInv, NEW t \in Threads, NEW u \in Threads, wakeup(t, u)
    PROVE  KernelInv'
<1> USE KernelAssumption
<1>1. /\ cur = t /\ pc[t] = "run" /\ wait' = [wait EXCEPT ![u] = FALSE]
      /\ pc' = [pc EXCEPT ![t] = AfterReadying]
      /\ UNCHANGED <<policy, cur, thread_list, nextPreemption, armed, prio, sleep,
                     deleted, sleepingList, kernel_running, pendingWakeup, exist_deleted>>
      /\ LeaveSwitch(kernel_running # 0)
    BY DEF wakeup, At, Goto
<1>2. /\ t # Idle /\ t \in Allocated /\ sleep[t] = FALSE /\ deleted[t] = FALSE
      /\ wait[t] = FALSE /\ pc[Idle] \notin {"reap", "unpause"}
    BY <1>1, RunningIsReady
<1>3. ThreadLists' /\ SleepList' /\ Allocated' = Allocated
    BY <1>1 DEF KernelInv, ThreadLists, SleepList, SleepListOf, Allocated
<1>4. missed' \subseteq Threads
    <2>1. Allocated \subseteq Threads
        BY AllocatedIs, ElementsTyped DEF KernelInv, TypeOK
    <2> QED BY <1>1, <1>3, <2>1 DEF LeaveSwitch, KernelInv, TypeOK
<1>5. TypeOK'
    BY <1>1, <1>4 DEF KernelInv, TypeOK, ThreadPlaces, AfterReadying
<1>6. /\ pc'[t] = AfterReadying /\ pc'[Idle] = pc[Idle]
      /\ \A v \in Threads : v # t => pc'[v] = pc[v]
      /\ \A v \in Threads : wait'[v] = IF v = u THEN FALSE ELSE wait[v]
    BY <1>1, <1>2 DEF KernelInv, TypeOK
<1>7. ControlInv'
    BY <1>1, <1>2, <1>6 DEF KernelInv, ControlInv, ThreadPlaces, AfterReadying
<1>8. CASE AfterReadying = "yield"
    BY <1>1, <1>2, <1>3, <1>5, <1>6, <1>7, <1>8, StepToYield
<1>9. CASE AfterReadying = "run"
    <2>1. pc'[cur'] = "run" /\ (MakingUp => MakingUp')
        BY <1>1, <1>6, <1>9 DEF MakingUp
    <2>2. CurrentIsRunnable'
        BY <1>1, <1>2, <1>3, <1>6 DEF CurrentIsRunnable, Ready
    <2>3. (armed \/ MakingUp)' /\ SleepersCovered'
        BY <1>1, <2>1 DEF KernelInv, SleepersCovered
    <2>4. SwitchesCovered'
        <3>1. CASE policy = "edf"
            <4>1. kernel_running # 0
                BY <1>9, <3>1 DEF AfterReadying
            <4>2. {v \in Allocated' : Ready(v)'} \subseteq missed'
                BY <1>1, <3>1, <4>1 DEF LeaveSwitch
            <4> QED BY <4>2 DEF SwitchesCovered, Overdue
        <3>2. CASE policy # "edf"
            BY <1>1, <1>2, <3>2 DEF SwitchesCovered
        <3> QED BY <3>1, <3>2
    <2> QED BY <1>3, <1>5, <1>7, <2>2, <2>3, <2>4 DEF KernelInv
<1> QED BY <1>8, <1>9 DEF AfterReadying

\* create(t, new)
LEMMA CreateKeeps ==
    ASSUME KernelInv, NEW t \in Threads, NEW new \in Threads, create(t, new)
    PROVE  KernelInv'
<1> USE KernelAssumption
<1>1. /\ cur = t /\ pc[t] = "run" /\ new \notin Allocated
      /\ thread_list' = PKaddThread(thread_list, new, InitialPriority[new])
      /\ prio' = [prio EXCEPT ![new] = InitialPriority[new]]
      /\ pc' = [pc EXCEPT ![new] = "run", ![t] = AfterReadying]
      /\ UNCHANGED <<policy, cur, wait, sleep, deleted, sleepingList, nextPreemption, armed,
                     kernel_running, pendingWakeup, exist_deleted>>
      /\ LeaveSwitch(kernel_running # 0)
    BY DEF create, At, flags
<1>2. /\ t # Idle /\ t \in Allocated /\ sleep[t] = FALSE /\ deleted[t] = FALSE
      /\ wait[t] = FALSE /\ pc[Idle] \notin {"reap", "unpause"}
    BY <1>1, RunningIsReady
<1>3. PICK p \in Prios : p = InitialPriority[new]
    BY DEF Prios
<1>4. /\ thread_list \in [Prios -> Seq(Threads)] /\ new \notin Elements(thread_list[p])
      /\ \A q \in Prios : Once(thread_list[q])
    BY <1>1, AllocatedIs DEF KernelInv, TypeOK, ThreadLists
<1>5. /\ thread_list' \in [Prios -> Seq(Threads)]
      /\ \A q \in Prios : q # p => thread_list'[q] = thread_list[q]
      /\ Elements(thread_list'[p]) = Elements(thread_list[p]) \cup {new}
      /\ Once(thread_list'[p])
    <2>1. AddedTo(thread_list', thread_list, new, p)
        BY <1>1, <1>3, <1>4, ThreadAdded
    <2> QED BY <1>4, <2>1 DEF AddedTo
<1>6. \A v \in Threads : prio'[v] = IF v = new THEN p ELSE prio[v]
    BY <1>1, <1>3 DEF KernelInv, TypeOK
<1>7. \A v : v \in Allocated' <=> v \in Allocated \/ v = new
    <2>1. \A v : v \in Allocated' <=> \E q \in Prios : v \in Elements(thread_list'[q])
        BY DEF Allocated
    <2> QED BY <1>5, <2>1, AllocatedIs
<1>8. ThreadLists'
    <2>1. ASSUME NEW q \in Prios, NEW v \in Elements(thread_list'[q]) PROVE prio'[v] = q
        <3>1. v \in Threads
            BY <1>5, ElementsTyped
        <3>2. CASE v = new
            <4>1. \A k \in Prios : new \notin Elements(thread_list[k])
                BY <1>1, AllocatedIs
            <4> QED BY <1>5, <1>6, <3>2, <4>1
        <3>3. CASE v # new
            <4>1. v \in Elements(thread_list[q])
                BY <1>5, <3>3
            <4> QED BY <1>6, <3>1, <3>3, <4>1 DEF KernelInv, ThreadLists
        <3> QED BY <3>2, <3>3
    <2> QED BY <1>4, <1>5, <2>1 DEF ThreadLists
<1>9. SleepList'
    BY <1>1, <1>7 DEF KernelInv, SleepList, SleepListOf
<1>10. missed' \subseteq Threads /\ Allocated' \subseteq Threads
    <2>1. Allocated \subseteq Threads
        BY AllocatedIs, ElementsTyped DEF KernelInv, TypeOK
    <2> QED BY <1>1, <1>7, <2>1 DEF LeaveSwitch, KernelInv, TypeOK
<1>11. /\ pc' \in [Threads \cup {Idle} -> ThreadPlaces \cup IdlePlaces]
       /\ pc'[t] = AfterReadying /\ pc'[Idle] = pc[Idle]
       /\ \A v \in Threads : v # t => pc'[v] = IF v = new THEN "run" ELSE pc[v]
    <2>1. AfterReadying \in ThreadPlaces /\ "run" \in ThreadPlaces
        BY DEF AfterReadying, ThreadPlaces
    <2>2. new # Idle
        OBVIOUS
    <2> QED BY <1>1, <1>2, <2>1, <2>2 DEF KernelInv, TypeOK
<1>12. TypeOK'
    <2>1. prio' \in [Threads -> Prios]
        BY <1>1, <1>3 DEF KernelInv, TypeOK
    <2> QED BY <1>1, <1>5, <1>10, <1>11, <2>1 DEF KernelInv, TypeOK
<1>13. ControlInv'
    <2>1. \A v \in Threads : pc'[v] \in ThreadPlaces
        BY <1>11 DEF KernelInv, ControlInv, ThreadPlaces, AfterReadying
    <2> QED BY <1>1, <1>2, <1>11, <2>1 DEF KernelInv, ControlInv, AfterReadying
<1>14. CASE AfterReadying = "yield"
    BY <1>1, <1>2, <1>7, <1>8, <1>9, <1>11, <1>12, <1>13, <1>14, StepToYield
<1>15. CASE AfterReadying = "run"
    <2>1. pc'[cur'] = "run" /\ (MakingUp => MakingUp')
        BY <1>1, <1>11, <1>15 DEF MakingUp
    <2>2. CurrentIsRunnable'
        BY <1>1, <1>2, <1>7 DEF CurrentIsRunnable, Ready
    <2>3. (armed \/ MakingUp)' /\ SleepersCovered'
        BY <1>1, <2>1 DEF KernelInv, SleepersCovered
    <2>4. SwitchesCovered'
        <3>1. CASE policy = "edf"
            <4>1. kernel_running # 0
                BY <1>15, <3>1 DEF AfterReadying
            <4>2. {v \in Allocated' : Ready(v)'} \subseteq missed'
                BY <1>1, <3>1, <4>1 DEF LeaveSwitch
            <4> QED BY <4>2 DEF SwitchesCovered, Overdue
        <3>2. CASE policy # "edf"
            BY <1>1, <1>2, <3>2 DEF SwitchesCovered
        <3> QED BY <3>1, <3>2
    <2> QED BY <1>8, <1>9, <1>12, <1>13, <2>2, <2>3, <2>4 DEF KernelInv
<1> QED BY <1>14, <1>15 DEF AfterReadying

\* setPriority(t, p)
LEMMA PriorityKeeps ==
    ASSUME KernelInv, NEW t \in Threads, NEW p \in Prios, setPriority(t, p)
    PROVE  KernelInv'
<1> USE KernelAssumption
<1>1. /\ cur = t /\ pc[t] = "run" /\ p # prio[t]
      /\ thread_list' = PKsetPriority(thread_list, t, p)
      /\ prio' = [prio EXCEPT ![t] = p]
      /\ UNCHANGED <<policy, cur, wait, sleep, deleted, sleepingList, nextPreemption, armed,
                     kernel_running, pendingWakeup, exist_deleted, pc>>
      /\ LeaveSwitch(TRUE)
    BY DEF setPriority, At, flags
<1>2. /\ t # Idle /\ t \in Allocated /\ sleep[t] = FALSE /\ deleted[t] = FALSE
      /\ wait[t] = FALSE
    BY <1>1, RunningIsReady
<1>3. PICK o \in Prios : o = prio[t]
    BY DEF KernelInv, TypeOK
<1>4. /\ thread_list \in [Prios -> Seq(Threads)]
      /\ \A q \in Prios : /\ Once(thread_list[q]) /\ Elements(thread_list[q]) \subseteq Threads
                          /\ \A v \in Elements(thread_list[q]) : prio[v] = q
    BY ElementsTyped DEF KernelInv, TypeOK, ThreadLists
<1>5. PICK w : w = Without(thread_list[o], {t})
    OBVIOUS
<1>6. w \in Seq(Threads) /\ Elements(w) = Elements(thread_list[o]) \ {t} /\ Once(w)
    BY <1>4, <1>5, Unlinked
<1>7. PICK lists : lists = [thread_list EXCEPT ![o] = w]
    OBVIOUS
<1>8. /\ lists \in [Prios -> Seq(Threads)] /\ lists[o] = w
      /\ \A q \in Prios : q # o => lists[q] = thread_list[q]
    BY <1>4, <1>6, <1>7
<1>9. o # p /\ t \notin Elements(lists[p]) /\ Once(lists[p])
    BY <1>1, <1>3, <1>4, <1>8
<1>10. thread_list' = PKaddThread(lists, t, p)
    BY <1>1, <1>3, <1>5, <1>7 DEF PKsetPriority
<1>11. /\ thread_list' \in [Prios -> Seq(Threads)]
       /\ \A q \in Prios : q # p => thread_list'[q] = lists[q]
       /\ Elements(thread_list'[p]) = Elements(lists[p]) \cup {t}
       /\ Once(thread_list'[p])
    <2>1. AddedTo(thread_list', lists, t, p)
        BY <1>8, <1>9, <1>10, ThreadAdded
    <2> QED BY <1>9, <2>1 DEF AddedTo
<1>12. \A v \in Threads : prio'[v] = IF v = t THEN p ELSE prio[v]
    BY <1>1 DEF KernelInv, TypeOK
<1>13. ThreadLists'
    <2>1. ASSUME NEW q \in Prios
          PROVE  Once(thread_list'[q]) /\ \A v \in Elements(thread_list'[q]) : prio'[v] = q
        <3>1. CASE q = p
            BY <1>4, <1>8, <1>9, <1>11, <1>12, <3>1
        <3>2. CASE q = o
            BY <1>4, <1>6, <1>8, <1>9, <1>11, <1>12, <3>2
        <3>3. CASE q # p /\ q # o
            BY <1>3, <1>4, <1>8, <1>11, <1>12, <3>3
        <3> QED BY <3>1, <3>2, <3>3
    <2> QED BY <2>1 DEF ThreadLists
<1>14. \A v : v \in Allocated' <=> v \in Allocated
    <2>1. \A v : v \in Allocated' <=> \E q \in Prios : v \in Elements(thread_list'[q])
        BY DEF Allocated
    <2>2. \A q \in Prios : Elements(thread_list'[q]) \subseteq Elements(thread_list[q]) \cup {t}
        BY <1>6, <1>8, <1>9, <1>11
    <2>3. \A q \in Prios : Elements(thread_list[q]) \subseteq Elements(thread_list'[q]) \cup {t}
        BY <1>6, <1>8, <1>9, <1>11
    <2> QED BY <1>2, <1>11, <2>1, <2>2, <2>3, AllocatedIs
<1>15. SleepList'
    BY <1>1, <1>14 DEF KernelInv, SleepList, SleepListOf
<1>16. TypeOK'
    <2>1. Allocated \subseteq Threads
        BY <1>4, AllocatedIs
    <2>2. missed' \subseteq Threads
        BY <1>1, <1>14, <2>1 DEF LeaveSwitch, KernelInv, TypeOK
    <2> QED BY <1>1, <1>11, <2>2 DEF KernelInv, TypeOK
<1>17. ControlInv'
    BY <1>1 DEF KernelInv, ControlInv
<1>18. CurrentIsRunnable'
    BY <1>1, <1>2, <1>14 DEF CurrentIsRunnable, Ready
<1>19. (armed \/ MakingUp)' /\ SleepersCovered'
    BY <1>1 DEF KernelInv, SleepersCovered, MakingUp
<1>20. SwitchesCovered'
    <2>1. CASE policy = "edf"
        <3>1. {v \in Allocated' : Ready(v)'} \subseteq missed'
            BY <1>1, <2>1 DEF LeaveSwitch
        <3> QED BY <3>1 DEF SwitchesCovered, Overdue
    <2>2. CASE policy # "edf"
        BY <1>1, <1>2, <2>2 DEF SwitchesCovered
    <2> QED BY <2>1, <2>2
<1> QED BY <1>13, <1>15, <1>16, <1>17, <1>18, <1>19, <1>20 DEF KernelInv

LEMMA PauseKeeps ==
    ASSUME KernelInv, NEW t \in Threads, pauseKernel(t) \/ restartKernel(t)
    PROVE  KernelInv'
<1> USE KernelAssumption
<1>1. /\ cur = t /\ pc[t] = "run"
      /\ UNCHANGED <<policy, cur, thread_list, prio, flags, sleepingList,
                     nextPreemption, armed, missed, pendingWakeup, exist_deleted>>
      /\ \/ pc' = pc /\ kernel_running < MaxNesting /\ kernel_running' = kernel_running + 1
         \/ /\ kernel_running > 0 /\ kernel_running' = kernel_running - 1
            /\ pc' = [pc EXCEPT ![t] = IF kernel_running = 1 THEN "restart" ELSE "run"]
    BY DEF pauseKernel, restartKernel, At, Goto, scheduler
<1>2. /\ t # Idle /\ pc[Idle] \notin {"reap", "unpause"}
      /\ pc \in [Threads \cup {Idle} -> ThreadPlaces \cup IdlePlaces]
      /\ kernel_running \in 0 .. MaxNesting + 1
    BY <1>1, RunningIsReady DEF KernelInv, TypeOK
<1>3. CASE pc' = pc /\ kernel_running < MaxNesting /\ kernel_running' = kernel_running + 1
    <2>1. kernel_running' \in 0 .. MaxNesting + 1 /\ kernel_running' # 0
        BY <1>2, <1>3
    <2>2. TypeOK'
        BY <1>1, <1>3, <2>1 DEF KernelInv, TypeOK, flags
    <2>3. ControlInv'
        BY <1>1, <1>2, <1>3 DEF KernelInv, ControlInv, flags
    <2>4. MakingUp => MakingUp'
        BY <1>1, <1>3, <2>1 DEF MakingUp
    <2> QED BY <1>1, <2>2, <2>3, <2>4, QuietStep
<1>4. CASE /\ kernel_running > 0 /\ kernel_running' = kernel_running - 1
           /\ pc' = [pc EXCEPT ![t] = IF kernel_running = 1 THEN "restart" ELSE "run"]
    <2>1. /\ kernel_running' \in 0 .. MaxNesting + 1
          /\ kernel_running' = 0 <=> kernel_running = 1
        BY <1>2, <1>4
    <2>2. /\ pc' \in [Threads \cup {Idle} -> ThreadPlaces \cup IdlePlaces]
          /\ pc'[t] = (IF kernel_running = 1 THEN "restart" ELSE "run")
          /\ pc'[Idle] = pc[Idle] /\ \A u \in Threads : u # t => pc'[u] = pc[u]
        BY <1>2, <1>4 DEF ThreadPlaces
    <2>3. TypeOK'
        BY <1>1, <2>1, <2>2 DEF KernelInv, TypeOK, flags
    <2>4. ControlInv'
        <3>1. \A u \in Threads : pc'[u] \in ThreadPlaces
            BY <2>2 DEF KernelInv, ControlInv, ThreadPlaces
        <3>2. \A u \in Threads : deleted'[u] => ~sleep'[u]
            BY <1>1 DEF KernelInv, ControlInv, flags
        <3> QED BY <1>1, <1>2, <2>1, <2>2, <3>1, <3>2 DEF KernelInv, ControlInv
    <2>5. MakingUp => MakingUp'
        BY <1>1, <2>1, <2>2 DEF MakingUp
    <2> QED BY <1>1, <2>3, <2>4, <2>5, QuietStep
<1> QED BY <1>1, <1>3, <1>4

\* The second half of restartKernel(), by a thread or by the idle thread.
LEMMA RestartKeeps ==
    ASSUME KernelInv, NEW t \in Threads \cup {Idle}, NEW resume,
           CheckPendingWakeup(t, resume),
           t # Idle => resume = "run", t = Idle => resume = "sleepCpu"
    PROVE  KernelInv'
<1> USE KernelAssumption
<1>1. /\ cur = t /\ pc[t] = "restart"
      /\ UNCHANGED <<policy, cur, thread_list, prio, flags, sleepingList,
                     nextPreemption, armed, missed, kernel_running, exist_deleted>>
      /\ pc' = [pc EXCEPT ![t] = IF pendingWakeup THEN "yield" ELSE resume]
      /\ pendingWakeup' = FALSE
    BY DEF CheckPendingWakeup, At, Goto, scheduler
<1>2. /\ kernel_running = 0 /\ pc[Idle] \notin {"reap", "unpause"}
      /\ pc \in [Threads \cup {Idle} -> ThreadPlaces \cup IdlePlaces]
    BY <1>1 DEF KernelInv, ControlInv, TypeOK
<1>3. /\ pc' \in [Threads \cup {Idle} -> ThreadPlaces \cup IdlePlaces]
      /\ pc'[t] = (IF pendingWakeup THEN "yield" ELSE resume)
      /\ \A u \in Threads \cup {Idle} : u # t => pc'[u] = pc[u]
    BY <1>1, <1>2 DEF ThreadPlaces, IdlePlaces
<1>4. TypeOK'
    BY <1>1, <1>3 DEF KernelInv, TypeOK, flags
<1>5. ControlInv'
    <2>1. \A u \in Threads : pc'[u] \in ThreadPlaces
        BY <1>3 DEF KernelInv, ControlInv, ThreadPlaces
    <2>2. pc'[Idle] \in IdlePlaces \ {"reap", "unpause"}
        BY <1>2, <1>3 DEF KernelInv, ControlInv, IdlePlaces
    <2>3. \A u \in Threads : deleted'[u] => ~sleep'[u]
        BY <1>1 DEF KernelInv, ControlInv, flags
    <2> QED BY <1>1, <1>2, <2>1, <2>2, <2>3 DEF ControlInv
<1>6. MakingUp => MakingUp'
    BY <1>1, <1>2, <1>3 DEF MakingUp
<1> QED BY <1>1, <1>4, <1>5, <1>6, QuietStep

-----------------------------------------------------------------------------
(* The steps of the idle thread *)

LEMMA IdleKeeps ==
    ASSUME KernelInv, idleThread
    PROVE  KernelInv'
<1> USE KernelAssumption
<1>1. /\ pc \in [Threads \cup {Idle} -> ThreadPlaces \cup IdlePlaces]
      /\ kernel_running \in 0 .. MaxNesting + 1
    BY DEF KernelInv, TypeOK
<1>2. ASSUME NEW from, NEW to \in IdlePlaces, IdleStep(from, to)
      PROVE  /\ cur = Idle /\ pc[Idle] = from /\ pc'[Idle] = to
             /\ pc' \in [Threads \cup {Idle} -> ThreadPlaces \cup IdlePlaces]
             /\ \A u \in Threads : pc'[u] = pc[u]
    BY <1>1, <1>2 DEF IdleStep, At, Goto
<1>3. CASE /\ IdleStep("check", IF exist_deleted THEN "pause" ELSE "sleepCpu")
           /\ UNCHANGED <<scheduler, prio, flags, sleepingList, kernel_running,
                          pendingWakeup, exist_deleted>>
    <2>1. (IF exist_deleted THEN "pause" ELSE "sleepCpu") \in IdlePlaces
        BY DEF IdlePlaces
    <2>2. /\ cur = Idle /\ pc[Idle] = "check" /\ pc'[Idle] \in {"pause", "sleepCpu"}
          /\ pc' \in [Threads \cup {Idle} -> ThreadPlaces \cup IdlePlaces]
          /\ \A u \in Threads : pc'[u] = pc[u]
        BY <1>2, <1>3, <2>1
    <2>3. TypeOK' /\ ControlInv'
        BY <1>3, <2>2 DEF KernelInv, TypeOK, ControlInv, scheduler, flags, IdlePlaces
    <2>4. MakingUp => MakingUp'
        BY <1>3, <2>2 DEF KernelInv, ControlInv, MakingUp, scheduler
    <2> QED BY <1>3, <2>2, <2>3, <2>4, QuietStep DEF scheduler
<1>4. CASE /\ IdleStep("pause", "reap")
           /\ kernel_running' = kernel_running + 1
           /\ UNCHANGED <<scheduler, prio, flags, sleepingList, pendingWakeup,
                          exist_deleted>>
    <2>1. "reap" \in IdlePlaces
        BY DEF IdlePlaces
    <2>2. /\ cur = Idle /\ pc[Idle] = "pause" /\ pc'[Idle] = "reap"
          /\ pc' \in [Threads \cup {Idle} -> ThreadPlaces \cup IdlePlaces]
          /\ \A u \in Threads : pc'[u] = pc[u]
        BY <1>2, <1>4, <2>1
    <2>3. kernel_running = 0 /\ kernel_running' = 1 /\ 1 \in 0 .. MaxNesting + 1
        BY <1>4, <2>2 DEF KernelInv, ControlInv
    <2>4. TypeOK' /\ ControlInv'
        BY <1>4, <2>2, <2>3 DEF KernelInv, TypeOK, ControlInv, scheduler, flags, IdlePlaces
    <2>5. MakingUp => MakingUp'
        BY <1>4, <2>2, <2>3 DEF MakingUp, scheduler
    <2> QED BY <1>4, <2>2, <2>4, <2>5, QuietStep DEF scheduler
<1>5. CASE /\ IdleStep("unpause", "restart")
           /\ kernel_running' = kernel_running - 1
           /\ UNCHANGED <<scheduler, prio, flags, sleepingList, pendingWakeup,
                          exist_deleted>>
    <2>1. "restart" \in IdlePlaces
        BY DEF IdlePlaces
    <2>2. /\ cur = Idle /\ pc[Idle] = "unpause" /\ pc'[Idle] = "restart"
          /\ pc' \in [Threads \cup {Idle} -> ThreadPlaces \cup IdlePlaces]
          /\ \A u \in Threads : pc'[u] = pc[u]
        BY <1>2, <1>5, <2>1
    <2>3. kernel_running = 1 /\ kernel_running' = 0 /\ 0 \in 0 .. MaxNesting + 1
        BY <1>5, <2>2 DEF KernelInv, ControlInv
    <2>4. TypeOK' /\ ControlInv'
        BY <1>5, <2>2, <2>3 DEF KernelInv, TypeOK, ControlInv, scheduler, flags, IdlePlaces
    <2>5. MakingUp => MakingUp'
        BY <1>5, <2>2, <2>3 DEF MakingUp, scheduler
    <2> QED BY <1>5, <2>2, <2>4, <2>5, QuietStep DEF scheduler
<1>6. CASE /\ IdleStep("reap", "unpause")
           /\ exist_deleted' = FALSE
           /\ thread_list' = PKremoveDeadThreads
           /\ deleted' = [t \in Threads |-> FALSE]
           /\ UNCHANGED <<policy, cur, prio, wait, sleep, sleepingList, nextPreemption,
                          armed, missed, kernel_running, pendingWakeup>>
    <2>1. "unpause" \in IdlePlaces
        BY DEF IdlePlaces
    <2>2. /\ cur = Idle /\ pc[Idle] = "reap" /\ pc'[Idle] = "unpause"
          /\ pc' \in [Threads \cup {Idle} -> ThreadPlaces \cup IdlePlaces]
          /\ \A u \in Threads : pc'[u] = pc[u]
        BY <1>2, <1>6, <2>1
    <2>3. PICK dead : dead = {t \in Threads : deleted[t]}
        OBVIOUS
    <2>4. ASSUME NEW p \in Prios
          PROVE  /\ thread_list'[p] \in Seq(Threads) /\ Once(thread_list'[p])
                 /\ Elements(thread_list'[p]) = Elements(thread_list[p]) \ dead
        <3>1. thread_list'[p] = Without(thread_list[p], dead)
            BY <1>6, <2>3 DEF PKremoveDeadThreads
        <3>2. thread_list[p] \in Seq(Threads) /\ Once(thread_list[p])
            BY DEF KernelInv, TypeOK, ThreadLists
        <3> QED BY <3>1, <3>2, Unlinked
    <2>5. \A t : t \in Allocated' <=> t \in Allocated /\ t \notin dead
        <3>1. \A t : t \in Allocated' <=> \E p \in Prios : t \in Elements(thread_list'[p])
            BY DEF Allocated
        <3> QED BY <2>4, <3>1, AllocatedIs
    <2>6. TypeOK'
        <3>1. thread_list' \in [Prios -> Seq(Threads)]
            BY <1>6, <2>4 DEF PKremoveDeadThreads
        <3>2. deleted' \in [Threads -> BOOLEAN]
            BY <1>6
        <3> QED BY <1>6, <2>2, <3>1, <3>2 DEF KernelInv, TypeOK
    <2>7. ControlInv'
        BY <1>6, <2>2 DEF KernelInv, ControlInv, IdlePlaces
    <2>8. ThreadLists'
        BY <1>6, <2>4 DEF KernelInv, ThreadLists
    <2>9. SleepList'
        <3>1. \A d \in Elements(sleepingList) : d.p \in Threads /\ sleep[d.p] /\ d.p \in Allocated
            <4>1. sleepingList \in Seq(Sleepers)
                BY DEF KernelInv, TypeOK, Sleepers
            <4>2. Elements(sleepingList) \subseteq Sleepers
                BY <4>1, ElementsTyped
            <4> QED BY <4>2 DEF KernelInv, SleepList, SleepListOf, Sleepers
        <3>2. \A d \in Elements(sleepingList) : d.p \in Allocated'
            BY <2>3, <2>5, <3>1 DEF KernelInv, ControlInv
        <3> QED BY <1>6, <3>2 DEF KernelInv, SleepList, SleepListOf
    <2>10. CurrentIsRunnable'
        BY <1>6, <2>2 DEF CurrentIsRunnable
    <2>11. MakingUp => MakingUp'
        BY <1>6, <2>2 DEF KernelInv, ControlInv, MakingUp
    <2>12. (armed \/ MakingUp)' /\ SleepersCovered'
        BY <1>6, <2>11 DEF KernelInv, SleepersCovered
    <2>13. SwitchesCovered'
        <3>1. Overdue' \subseteq Overdue
            <4>1. ASSUME NEW t \in Overdue' PROVE t \in Overdue
                <5>1. t \in Allocated /\ t \notin dead /\ Ready(t)' /\ prio[t] > Priority(cur)
                    BY <1>6, <2>2, <2>5 DEF Overdue, Priority
                <5>2. t \in Threads
                    BY <5>1, AllocatedIs, ElementsTyped DEF KernelInv, TypeOK
                <5>3. Ready(t)
                    BY <1>6, <2>3, <5>1, <5>2 DEF Ready
                <5> QED BY <5>1, <5>3 DEF Overdue
            <4> QED BY <4>1
        <3> QED BY <1>6, <2>2, <2>11, <3>1 DEF KernelInv, SwitchesCovered
    <2> QED BY <2>6, <2>7, <2>8, <2>9, <2>10, <2>12, <2>13 DEF KernelInv
<1> QED BY <1>3, <1>4, <1>5, <1>6 DEF idleThread

-----------------------------------------------------------------------------
(* Context switches and interrupts *)

\* A context switch starts afresh: the timer is set, no request is missed,
\* and no thread that should run instead is ready.
LEMMA SwitchKeeps ==
    ASSUME KernelInv, kernel_running = 0, IRQfindNextThread,
           UNCHANGED <<prio, deleted, kernel_running, exist_deleted>>,
           wait' \in [Threads -> BOOLEAN], sleep' \in [Threads -> BOOLEAN],
           pendingWakeup' \in BOOLEAN,
           sleepingList' \in Seq(Sleepers), SleepListOf(sleepingList', sleep', Allocated),
           \A t \in Threads : sleep'[t] => sleep[t],
           pc' \in [Threads \cup {Idle} -> ThreadPlaces \cup IdlePlaces],
           \A t \in Threads : pc'[t] \in ThreadPlaces,
           pc'[Idle] \in IdlePlaces \ {"reap", "unpause"}
    PROVE  KernelInv'
<1> USE KernelAssumption
<1>1. Switched
    <2>1. Sorted(sleepingList')
        BY DEF SleepListOf, Sorted
    <2> QED BY <2>1, SwitchDone DEF KernelInv
<1>2. \A t : t \in Allocated' <=> t \in Allocated
    <2>1. \A t : t \in Allocated' <=> \E p \in Prios : t \in Elements(thread_list'[p])
        BY DEF Allocated
    <2> QED BY <1>1, <2>1, AllocatedIs DEF Switched
<1>3. TypeOK'
    <2>1. missed' \subseteq Threads
        BY <1>1 DEF Switched
    <2> QED BY <1>1, <2>1 DEF Switched, KernelInv, TypeOK, Sleepers
<1>4. ControlInv'
    BY DEF KernelInv, ControlInv
<1>5. ThreadLists'
    BY <1>1 DEF KernelInv, ThreadLists, Switched
<1>6. SleepList'
    BY <1>2 DEF SleepList, SleepListOf
<1>7. CurrentIsRunnable'
    BY <1>1, <1>2 DEF Switched, CurrentIsRunnable
<1>8. (armed \/ MakingUp)' /\ SleepersCovered'
    BY <1>1 DEF Switched, SleepersCovered
<1>9. Overdue' = {}
    <2> SUFFICES ASSUME NEW t \in Overdue' PROVE FALSE
        OBVIOUS
    <2>1. t \in Allocated /\ Ready(t)' /\ prio[t] > Priority(cur)'
        BY <1>2 DEF Overdue
    <2>2. t \in Threads
        BY <2>1, AllocatedIs, ElementsTyped DEF KernelInv, TypeOK
    <2>3. prio[t] \in Int /\ Priority(cur)' \in Int
        BY <1>1, <1>3, <2>2 DEF Switched, Priority, KernelInv, TypeOK, Prios
    <2> QED BY <1>1, <2>1, <2>3 DEF Switched
<1>10. SwitchesCovered'
    BY <1>9 DEF SwitchesCovered
<1> QED BY <1>3, <1>4, <1>5, <1>6, <1>7, <1>8, <1>10 DEF KernelInv

LEMMA YieldKeeps ==
    ASSUME KernelInv, NEW t \in Threads \cup {Idle}, NEW resume, ISR_yield(t, resume),
           t # Idle => resume = "run", t = Idle => resume = "sleepCpu"
    PROVE  KernelInv'
<1> USE KernelAssumption
<1>1. /\ cur = t /\ pc[t] = "yield" /\ pc' = [pc EXCEPT ![t] = resume]
      /\ UNCHANGED <<prio, wait, sleep, deleted, sleepingList, kernel_running, pendingWakeup,
                     exist_deleted>>
      /\ IRQfindNextThread
    BY DEF ISR_yield, At, Goto, flags
<1>2. kernel_running = 0 /\ pc[Idle] \notin {"reap", "unpause"}
    BY <1>1 DEF KernelInv, ControlInv
<1>3. /\ pc' \in [Threads \cup {Idle} -> ThreadPlaces \cup IdlePlaces]
      /\ pc'[t] = resume /\ \A u \in Threads \cup {Idle} : u # t => pc'[u] = pc[u]
    <2>1. resume \in ThreadPlaces \cup IdlePlaces
        BY DEF ThreadPlaces, IdlePlaces
    <2>2. pc \in [Threads \cup {Idle} -> ThreadPlaces \cup IdlePlaces]
        BY DEF KernelInv, TypeOK
    <2> QED BY <1>1, <2>1, <2>2
<1>4. \A u \in Threads : pc'[u] \in ThreadPlaces
    BY <1>3 DEF KernelInv, ControlInv, ThreadPlaces
<1>5. pc'[Idle] \in IdlePlaces \ {"reap", "unpause"}
    BY <1>2, <1>3 DEF KernelInv, ControlInv, IdlePlaces
<1>6. /\ wait' \in [Threads -> BOOLEAN] /\ sleep' \in [Threads -> BOOLEAN]
      /\ pendingWakeup' \in BOOLEAN /\ sleepingList' \in Seq(Sleepers)
      /\ SleepListOf(sleepingList', sleep', Allocated)
      /\ \A u \in Threads : sleep'[u] => sleep[u]
    BY <1>1 DEF KernelInv, TypeOK, SleepList, Sleepers
<1> QED BY <1>1, <1>2, <1>3, <1>4, <1>5, <1>6, SwitchKeeps

\* Returning from an interrupt only takes the idle thread out of sleepCpu().
LEMMA CpuWoken ==
    ASSUME KernelInv, WakeCpu
    PROVE  /\ pc' \in [Threads \cup {Idle} -> ThreadPlaces \cup IdlePlaces]
           /\ \A t \in Threads : pc'[t] = pc[t]
           /\ pc'[Idle] # pc[Idle] => cur = Idle /\ pc[Idle] = "sleepCpu" /\ pc'[Idle] = "check"
           /\ pc'[Idle] \in IdlePlaces
<1> USE KernelAssumption
<1>1. /\ pc \in [Threads \cup {Idle} -> ThreadPlaces \cup IdlePlaces]
      /\ pc[Idle] \in IdlePlaces
    BY DEF KernelInv, TypeOK, ControlInv
<1>2. CASE pc' = pc
    BY <1>1, <1>2
<1>3. CASE cur = Idle /\ pc[Idle] = "sleepCpu" /\ pc' = [pc EXCEPT ![Idle] = "check"]
    BY <1>1, <1>3 DEF IdlePlaces
<1> QED BY <1>2, <1>3 DEF WakeCpu, At

LEMMA TimerKeeps ==
    ASSUME KernelInv, IRQtimerInterrupt
    PROVE  KernelInv'
<1> USE KernelAssumption
<1> DEFINE woken == {sleepingList[i].p : i \in 1 .. DueCount}
<1>1. /\ nextPreemption = 0
      /\ sleep' = [t \in Threads |-> sleep[t] /\ t \notin woken]
      /\ sleepingList' = SubSeq(sleepingList, DueCount + 1, Len(sleepingList))
      /\ WakeCpu
      /\ UNCHANGED <<prio, wait, deleted, kernel_running, exist_deleted>>
      /\ kernel_running = 0 => IRQfindNextThread /\ pendingWakeup' = pendingWakeup
      /\ kernel_running # 0 => /\ pendingWakeup' = TRUE
                               /\ armed' = FALSE
                               /\ UNCHANGED <<policy, cur, thread_list, nextPreemption, missed>>
    BY DEF IRQtimerInterrupt, KernelInv, TypeOK
<1>2. sleepingList \in Seq(Sleepers)
    BY DEF KernelInv, TypeOK, Sleepers
<1>3. DueCount \in 0 .. Len(sleepingList)
    BY <1>2, WalkStops DEF DueCount
<1>4. sleepingList' \in Seq(Sleepers) /\ SleepListOf(sleepingList', sleep', Allocated)
    BY <1>1, <1>3, SleepersWoken DEF KernelInv
<1>5. /\ sleep' \in [Threads -> BOOLEAN] /\ wait' \in [Threads -> BOOLEAN]
      /\ \A t \in Threads : sleep'[t] => sleep[t]
    BY <1>1 DEF KernelInv, TypeOK
<1> HIDE DEF woken
<1>6. /\ pc' \in [Threads \cup {Idle} -> ThreadPlaces \cup IdlePlaces]
      /\ \A t \in Threads : pc'[t] = pc[t]
      /\ pc'[Idle] # pc[Idle] => cur = Idle /\ pc[Idle] = "sleepCpu" /\ pc'[Idle] = "check"
      /\ pc'[Idle] \in IdlePlaces
    BY <1>1, CpuWoken
<1>7. \A t \in Threads : pc'[t] \in ThreadPlaces
    BY <1>6 DEF KernelInv, ControlInv
<1>8. CASE kernel_running = 0
    <2>1. pc'[Idle] \notin {"reap", "unpause"}
        BY <1>6, <1>8 DEF KernelInv, ControlInv
    <2>2. pendingWakeup' \in BOOLEAN
        BY <1>1, <1>8 DEF KernelInv, TypeOK
    <2> QED BY <1>1, <1>4, <1>5, <1>6, <1>7, <1>8, <2>1, <2>2, SwitchKeeps
<1>9. CASE kernel_running # 0
    <2>1. /\ pendingWakeup' = TRUE /\ armed' = FALSE
          /\ UNCHANGED <<policy, cur, thread_list, nextPreemption, missed>>
        BY <1>1, <1>9
    <2>2. TypeOK'
        BY <1>1, <1>4, <1>5, <1>6, <2>1 DEF KernelInv, TypeOK, Sleepers
    <2>3. pc'[Idle] = pc[Idle]
        BY <1>6, <1>9 DEF KernelInv, ControlInv, TypeOK
    <2>4. ControlInv'
        BY <1>1, <1>5, <1>6, <1>7, <2>1, <2>3 DEF KernelInv, ControlInv, TypeOK
    <2>5. ThreadLists' /\ SleepList' /\ Allocated' = Allocated
        BY <1>1, <1>4, <2>1 DEF KernelInv, ThreadLists, SleepList, Allocated
    <2>6. CurrentIsRunnable'
        BY <1>1, <1>5, <1>6, <2>1, <2>5 DEF KernelInv, TypeOK, CurrentIsRunnable, Ready
    <2>7. MakingUp'
        BY <1>1, <1>9, <2>1 DEF MakingUp
    <2> QED BY <2>2, <2>4, <2>5, <2>6, <2>7 DEF KernelInv, SleepersCovered, SwitchesCovered
<1> QED BY <1>8, <1>9

LEMMA DriverKeeps ==
    ASSUME KernelInv, NEW u \in Threads, DriverInterrupt(u)
    PROVE  KernelInv'
<1> USE KernelAssumption
<1>1. /\ wait' = [wait EXCEPT ![u] = FALSE] /\ WakeCpu
      /\ UNCHANGED <<prio, sleep, deleted, sleepingList, kernel_running,
                     pendingWakeup, exist_deleted>>
      /\ IF prio[u] > Priority(cur) THEN IRQfindNextThread
         ELSE UNCHANGED <<policy, cur, thread_list, nextPreemption, armed, missed>>
    BY DEF DriverInterrupt, scheduler
<1>2. /\ wait' \in [Threads -> BOOLEAN] /\ sleep' \in [Threads -> BOOLEAN]
      /\ pendingWakeup' \in BOOLEAN /\ sleepingList' \in Seq(Sleepers)
      /\ SleepListOf(sleepingList', sleep', Allocated)
      /\ \A t \in Threads : sleep'[t] => sleep[t]
      /\ \A t \in Threads : wait'[t] = IF t = u THEN FALSE ELSE wait[t]
    BY <1>1 DEF KernelInv, TypeOK, SleepList, Sleepers
<1>3. /\ pc' \in [Threads \cup {Idle} -> ThreadPlaces \cup IdlePlaces]
      /\ \A t \in Threads : pc'[t] = pc[t]
      /\ pc'[Idle] # pc[Idle] => cur = Idle /\ pc[Idle] = "sleepCpu" /\ pc'[Idle] = "check"
      /\ pc'[Idle] \in IdlePlaces
    BY <1>1, CpuWoken
<1>4. \A t \in Threads : pc'[t] \in ThreadPlaces
    BY <1>3 DEF KernelInv, ControlInv
<1>5. CASE kernel_running = 0 /\ prio[u] > Priority(cur)
    <2>1. pc'[Idle] \notin {"reap", "unpause"}
        BY <1>3, <1>5 DEF KernelInv, ControlInv
    <2>2. IRQfindNextThread
        BY <1>1, <1>5
    <2> QED BY <1>1, <1>2, <1>3, <1>4, <1>5, <2>1, <2>2, SwitchKeeps
<1>6. CASE ~(kernel_running = 0 /\ prio[u] > Priority(cur))
    <2>1. /\ UNCHANGED <<policy, cur, thread_list, nextPreemption, armed>>
          /\ \/ missed' = missed /\ ~(prio[u] > Priority(cur))
             \/ missed' = missed \cup ({t \in Threads : Ready(t)'} \cap Allocated)
        <3>1. CASE prio[u] > Priority(cur)
            BY <1>1, <1>6, <3>1 DEF IRQfindNextThread
        <3>2. CASE ~(prio[u] > Priority(cur))
            BY <1>1, <3>2
        <3> QED BY <3>1, <3>2
    <2>2. TypeOK'
        <3>1. missed' \subseteq Threads
            BY <2>1 DEF KernelInv, TypeOK
        <3> QED BY <1>1, <1>2, <1>3, <2>1, <3>1 DEF KernelInv, TypeOK
    <2>3. ControlInv'
        <3>1. /\ pc'[Idle] \in {"reap", "unpause"} <=> pc[Idle] \in {"reap", "unpause"}
              /\ cur # Idle => pc'[cur] = pc[cur]
            BY <1>3 DEF KernelInv, TypeOK
        <3>2. /\ pc'[Idle] \in {"reap", "unpause"} => cur' = Idle /\ kernel_running' = 1
              /\ kernel_running' # 0 => IF cur' = Idle THEN pc'[Idle] \in {"reap", "unpause"}
                                        ELSE pc'[cur'] = "run"
            BY <1>1, <2>1, <3>1 DEF KernelInv, ControlInv
        <3>3. \A t \in Threads : deleted'[t] => ~sleep'[t]
            BY <1>1 DEF KernelInv, ControlInv
        <3> QED BY <1>3, <1>4, <3>2, <3>3 DEF ControlInv
    <2>4. ThreadLists' /\ SleepList' /\ Allocated' = Allocated
        BY <1>1, <1>2, <2>1 DEF KernelInv, ThreadLists, SleepList, Allocated
    <2>5. CurrentIsRunnable'
        BY <1>1, <1>2, <1>3, <2>1, <2>4 DEF KernelInv, TypeOK, CurrentIsRunnable, Ready
    <2>6. MakingUp => MakingUp'
        <3>1. pc'[cur] = pc[cur] \/ pc[cur] = "sleepCpu"
            BY <1>3 DEF KernelInv, TypeOK
        <3> QED BY <1>1, <1>3, <2>1, <3>1 DEF KernelInv, ControlInv, MakingUp
    <2>7. (armed \/ MakingUp)' /\ SleepersCovered'
        BY <1>1, <2>1, <2>6 DEF KernelInv, SleepersCovered
    <2>8. Overdue \subseteq missed => Overdue' \subseteq missed'
        <3> SUFFICES ASSUME Overdue \subseteq missed, NEW t \in Overdue' PROVE t \in missed'
            OBVIOUS
        <3>1. t \in Allocated /\ Ready(t)' /\ prio[t] > Priority(cur)
            BY <1>1, <2>1, <2>4 DEF Overdue, Priority
        <3>2. t \in Threads
            BY <3>1, AllocatedIs, ElementsTyped DEF KernelInv, TypeOK
        <3>3. CASE missed' = missed /\ ~(prio[u] > Priority(cur))
            <4>1. Ready(t)
                BY <1>1, <1>2, <3>1, <3>2, <3>3 DEF Ready
            <4> QED BY <3>1, <3>3, <4>1 DEF Overdue
        <3>4. CASE missed' = missed \cup ({v \in Threads : Ready(v)'} \cap Allocated)
            BY <3>1, <3>2, <3>4
        <3> QED BY <2>1, <3>3, <3>4
    <2>9. SwitchesCovered'
        BY <1>1, <2>1, <2>6, <2>8 DEF KernelInv, SwitchesCovered
    <2> QED BY <2>2, <2>3, <2>4, <2>5, <2>7, <2>9 DEF KernelInv
<1> QED BY <1>5, <1>6

LEMMA TickKeeps ==
    ASSUME KernelInv, Tick
    PROVE  KernelInv'
<1> USE KernelAssumption
<1>1. /\ nextPreemption' = Earlier(nextPreemption)
      /\ sleepingList' = [i \in DOMAIN sleepingList |->
                            [sleepingList[i] EXCEPT !.time = Earlier(@)]]
      /\ UNCHANGED <<policy, cur, thread_list, armed, missed, prio, wait, sleep, deleted,
                     kernel_running, pendingWakeup, exist_deleted, pc>>
    BY DEF Tick, flags
<1>2. /\ sleepingList' \in Seq(Sleepers) /\ SleepListOf(sleepingList', sleep, Allocated)
      /\ \A e \in Elements(sleepingList') :
            \E d \in Elements(sleepingList) : d.time \in 0 .. MaxSleep /\ e.time = Earlier(d.time)
    BY <1>1, TimePasses DEF KernelInv
<1>3. nextPreemption \in 0 .. Never /\ nextPreemption' \in 0 .. Never
    BY <1>1 DEF KernelInv, TypeOK, Earlier
<1>4. TypeOK'
    BY <1>1, <1>2, <1>3 DEF KernelInv, TypeOK, Sleepers
<1>5. ControlInv' /\ ThreadLists' /\ CurrentIsRunnable' /\ (armed \/ MakingUp)'
      /\ (MakingUp => MakingUp')
    BY <1>1 DEF KernelInv, ControlInv, ThreadLists, CurrentIsRunnable, MakingUp, Allocated, Ready
<1>6. SleepList'
    BY <1>1, <1>2 DEF SleepList, Allocated
<1>7. SleepersCovered'
    <2> SUFFICES ASSUME NEW e \in Elements(sleepingList'), ~MakingUp'
                 PROVE  armed' /\ nextPreemption' <= e.time
        BY DEF SleepersCovered
    <2>1. PICK d \in Elements(sleepingList) : d.time \in 0 .. MaxSleep /\ e.time = Earlier(d.time)
        BY <1>2
    <2>2. armed /\ nextPreemption <= d.time
        BY <1>5 DEF KernelInv, SleepersCovered
    <2>3. Earlier(nextPreemption) <= Earlier(d.time)
        BY <1>3, <2>1, <2>2 DEF Earlier
    <2> QED BY <1>1, <2>1, <2>2, <2>3
<1>8. SwitchesCovered'
    <2>1. Overdue' = Overdue
        BY <1>1 DEF Overdue, Allocated, Ready, Priority
    <2> QED BY <1>1, <1>5, <2>1 DEF KernelInv, SwitchesCovered
<1> QED BY <1>4, <1>5, <1>6, <1>7, <1>8 DEF KernelInv

-----------------------------------------------------------------------------
(* The theorems *)

LEMMA KernelInit == Init => KernelInv
<1> USE KernelAssumption
<1> SUFFICES ASSUME Init PROVE KernelInv
    OBVIOUS
<1>1. /\ <<Main>> \in Seq(Threads) /\ Elements(<<Main>>) = {Main} /\ Once(<<Main>>)
      /\ <<>> \in Seq(Threads) /\ Elements(<<>>) = {} /\ Once(<<>>)
    BY DEF Elements, Once
<1>2. TypeOK
    <2>1. thread_list \in [Prios -> Seq(Threads)]
        BY <1>1 DEF Init
    <2>2. pc \in [Threads \cup {Idle} -> ThreadPlaces \cup IdlePlaces]
        BY DEF Init, ThreadPlaces, IdlePlaces
    <2>3. nextPreemption \in 0 .. Never
        BY DEF Init
    <2>4. prio \in [Threads -> Prios]
        BY DEF Init, Prios
    <2>5. /\ wait \in [Threads -> BOOLEAN] /\ sleep \in [Threads -> BOOLEAN]
          /\ deleted \in [Threads -> BOOLEAN] /\ missed \subseteq Threads
        BY DEF Init
    <2>6. /\ policy \in {"priority", "edf"} /\ cur \in Threads \cup {Idle}
          /\ armed \in BOOLEAN /\ pendingWakeup \in BOOLEAN /\ exist_deleted \in BOOLEAN
        BY DEF Init
    <2>7. /\ kernel_running \in 0 .. MaxNesting + 1
          /\ sleepingList \in Seq([p : Threads, time : 0 .. MaxSleep])
        BY DEF Init
    <2> QED BY <2>1, <2>2, <2>3, <2>4, <2>5, <2>6, <2>7 DEF TypeOK
<1>3. \A t : t \in Allocated <=> t = Main
    <2>1. prio[Main] \in Prios
        BY <1>2 DEF TypeOK
    <2>2. \A p \in Prios : Elements(thread_list[p]) = IF p = prio[Main] THEN {Main} ELSE {}
        BY <1>1 DEF Init
    <2> QED BY <2>1, <2>2, AllocatedIs
<1>4. ControlInv
    BY DEF Init, ControlInv, ThreadPlaces, IdlePlaces
<1>5. ThreadLists
    BY <1>1 DEF Init, ThreadLists
<1>6. SleepList
    BY DEF Init, SleepList, SleepListOf, Elements
<1>7. CurrentIsRunnable
    BY <1>3 DEF Init, CurrentIsRunnable, Ready
<1>8. (armed \/ MakingUp) /\ SleepersCovered
    BY DEF Init, SleepersCovered, Elements
<1>9. SwitchesCovered
    <2>1. Overdue = {}
        BY <1>3 DEF Init, Overdue, Priority, Prios
    <2> QED BY <2>1 DEF SwitchesCovered
<1> QED BY <1>2, <1>4, <1>5, <1>6, <1>7, <1>8, <1>9 DEF KernelInv

\* The lists agree with the flags and the running thread is runnable, on
\* every path through the schedulers, the interrupts and the idle thread.
THEOREM KernelInvariant == Spec => []KernelInv
<1> USE KernelAssumption
<1>1. KernelInv /\ [Next]_vars => KernelInv'
    <2> SUFFICES ASSUME KernelInv, [Next]_vars PROVE KernelInv'
        OBVIOUS
    <2>1. ASSUME NEW t \in Threads, ThreadStep(t) PROVE KernelInv'
        <3>1. CASE \E time \in 0 .. MaxSleep : nanoSleepUntil(t, time)
            BY <3>1, SleepKeeps
        <3>2. CASE Wait(t) \/ yield(t) \/ threadLauncher(t)
            BY <3>2, StopKeeps
        <3>3. CASE pauseKernel(t) \/ restartKernel(t)
            BY <3>3, PauseKeeps
        <3>4. CASE \E u \in Threads : wakeup(t, u) \/ create(t, u)
            BY <3>4, WakeupKeeps, CreateKeeps
        <3>5. CASE \E p \in Prios : setPriority(t, p)
            BY <3>5, PriorityKeeps
        <3>6. CASE ISR_yield(t, "run")
            <4>1. t # Idle
                OBVIOUS
            <4> QED BY <3>6, <4>1, YieldKeeps
        <3>7. CASE CheckPendingWakeup(t, "run")
            <4>1. t # Idle
                OBVIOUS
            <4> QED BY <3>7, <4>1, RestartKeeps
        <3> QED BY <2>1, <3>1, <3>2, <3>3, <3>4, <3>5, <3>6, <3>7 DEF ThreadStep
    <2>2. CASE IdleThreadStep
        <3>1. CASE idleThread
            BY <3>1, IdleKeeps
        <3>2. CASE CheckPendingWakeup(Idle, "sleepCpu")
            BY <3>2, RestartKeeps
        <3>3. CASE ISR_yield(Idle, "sleepCpu")
            BY <3>3, YieldKeeps
        <3> QED BY <2>2, <3>1, <3>2, <3>3 DEF IdleThreadStep
    <2>3. CASE IRQtimerInterrupt
        BY <2>3, TimerKeeps
    <2>4. CASE \E u \in Threads : DriverInterrupt(u)
        BY <2>4, DriverKeeps
    <2>5. CASE Tick
        BY <2>5, TickKeeps
    <2>6. CASE UNCHANGED vars
        <3>1. UNCHANGED <<policy, cur, thread_list, prio, wait, sleep, deleted, sleepingList,
                          nextPreemption, armed, kernel_running, pendingWakeup, exist_deleted,
                          pc, missed>>
            BY <2>6 DEF vars
        <3>2. TypeOK' /\ ControlInv' /\ ThreadLists' /\ SleepList' /\ CurrentIsRunnable'
            BY <3>1 DEF KernelInv, TypeOK, ControlInv, ThreadLists, SleepList, SleepListOf,
                        CurrentIsRunnable, Allocated, Ready
        <3>3. (armed \/ MakingUp)' /\ SleepersCovered' /\ SwitchesCovered'
            BY <3>1 DEF KernelInv, MakingUp, SleepersCovered, SwitchesCovered, Overdue,
                        Allocated, Ready, Priority
        <3> QED BY <3>2, <3>3 DEF KernelInv
    <2> QED BY <2>1, <2>2, <2>3, <2>4, <2>5, <2>6 DEF Next
<1> QED BY <1>1, KernelInit, PTL DEF Spec

\* The lists of the schedulers and the sleeping list are consistent: no
\* thread is lost or duplicated by insertion, removal, rotation or reaping.
THEOREM KernelLists == Spec => []ListsConsistent
<1>1. KernelInv => ListsConsistent
    <2> SUFFICES ASSUME KernelInv PROVE ListsConsistent
        OBVIOUS
    <2>1. ASSUME NEW p \in Prios, NEW q \in Prios,
                 NEW i \in DOMAIN thread_list[p], NEW j \in DOMAIN thread_list[q]
          PROVE  /\ prio[thread_list[p][i]] = p
                 /\ thread_list[p][i] = thread_list[q][j] => p = q /\ i = j
        <3>1. thread_list[p][i] \in Elements(thread_list[p])
              /\ thread_list[q][j] \in Elements(thread_list[q])
            BY DEF Elements
        <3>2. prio[thread_list[p][i]] = p /\ prio[thread_list[q][j]] = q
            BY <3>1 DEF KernelInv, ThreadLists
        <3>3. Once(thread_list[p])
            BY DEF KernelInv, ThreadLists
        <3> QED BY <3>2, <3>3 DEF Once
    <2>2. /\ \A t \in Threads : sleep[t] <=> \E d \in Elements(sleepingList) : d.p = t
          /\ \A i, j \in DOMAIN sleepingList :
                i < j => /\ sleepingList[i].time <= sleepingList[j].time
                         /\ sleepingList[i].p # sleepingList[j].p
          /\ {d.p : d \in Elements(sleepingList)} \subseteq Allocated
        BY DEF KernelInv, SleepList, SleepListOf
    <2> QED BY <2>1, <2>2 DEF ListsConsistent, KernelInv
<1> QED BY <1>1, KernelInvariant, PTL

\* The CPU never runs a thread that is freed, asleep, waiting or terminated
\* beyond the yield with which it stops.
THEOREM KernelCurrent == Spec => []CurrentIsRunnable
<1>1. KernelInv => CurrentIsRunnable
    BY DEF KernelInv
<1> QED BY <1>1, KernelInvariant, PTL

\* The one-shot preemption timer is never left unarmed.
THEOREM KernelPreemption == Spec => []NoLostPreemption
<1>1. KernelInv => NoLostPreemption
    BY DEF KernelInv, NoLostPreemption, MakingUp
<1> QED BY <1>1, KernelInvariant, PTL

\* A due sleeper has its interrupt due, or one that the running thread makes
\* up for.
THEOREM KernelSleepers == Spec => []DueSleeperNotForgotten
<1>1. KernelInv => DueSleeperNotForgotten
    <2> SUFFICES ASSUME KernelInv, NEW d \in Elements(sleepingList), d.time = 0,
                        ~MakingUp
                 PROVE  armed /\ nextPreemption = 0
        BY DEF DueSleeperNotForgotten, MakingUp
    <2>1. armed /\ nextPreemption <= 0
        BY DEF KernelInv, SleepersCovered
    <2> QED BY <2>1, KernelAssumption DEF KernelInv, TypeOK
<1> QED BY <1>1, KernelInvariant, PTL

\* A thread that should have the CPU is passed over only if a request for the
\* switch was dropped with the kernel paused.
THEOREM KernelSwitches == Spec => []NoSwitchForgotten
<1>1. KernelInv => NoSwitchForgotten
    <2> SUFFICES ASSUME KernelInv,
                        \/ At(Idle, "sleepCpu")
                        \/ policy = "edf" /\ pc[cur] = "run" /\ kernel_running = 0
                 PROVE  Overdue \subseteq missed
        BY DEF NoSwitchForgotten, Overdue
    <2>1. cur = Idle \/ policy = "edf"
        BY DEF At
    <2>2. ~MakingUp
        BY DEF At, MakingUp, KernelInv, ControlInv
    <2> QED BY <2>1, <2>2 DEF KernelInv, SwitchesCovered
<1> QED BY <1>1, KernelInvariant, PTL
=============================================================================
