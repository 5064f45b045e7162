------------------------ MODULE FixedEventQueueProofs ------------------------
(***************************************************************************)
(* Proofs about FixedEventQueue for every number of slots, every finite    *)
(* set of posters and runners and every set of events.                     *)
(***************************************************************************)
EXTENDS FixedEventQueue, SequenceTheorems, FiniteSetTheorems, TLAPS

Elems(s) == {s[i] : i \in DOMAIN s}
Once(s)  == \A i, j \in DOMAIN s : s[i] = s[j] => i = j

\* putSlot is n slots ahead of getSlot, modulo the wrap of the buffer.
RingConsistent ==
    putSlot = IF getSlot + n < size THEN getSlot + n ELSE getSlot + n - size

\* A wakeup is not lost only because the lists hold exactly the blocked
\* threads: the invariants are inductive together.
QueueInv == WaitingListsConsistent /\ NoneSleepsInVain /\ RingConsistent

-----------------------------------------------------------------------------
(* The lists of waiting records *)

\* Unlinking the first record of a list without repetitions.
LEMMA UnlinkFirst ==
    ASSUME NEW S, NEW s \in Seq(S), s # <<>>, Once(s)
    PROVE  /\ Tail(s) \in Seq(S) /\ Once(Tail(s))
           /\ Head(s) \in S /\ Head(s) \in Elems(s)
           /\ Elems(Tail(s)) = Elems(s) \ {Head(s)}
<1>1. /\ Len(s) \in Nat \ {0} /\ DOMAIN s = 1 .. Len(s)
      /\ Tail(s) \in Seq(S) /\ DOMAIN Tail(s) = 1 .. Len(s) - 1
      /\ \A i \in 1 .. Len(s) - 1 : Tail(s)[i] = s[i + 1]
      /\ Head(s) = s[1] /\ Head(s) \in S
    BY EmptySeq, LenProperties, HeadTailProperties
<1>2. Once(Tail(s))
    BY <1>1 DEF Once
<1>3. Head(s) \in Elems(s)
    BY <1>1 DEF Elems
<1>4. ASSUME NEW x \in Elems(Tail(s)) PROVE x \in Elems(s) \ {Head(s)}
    <2>1. PICK i \in 1 .. Len(s) - 1 : x = s[i + 1]
        BY <1>1, <1>4 DEF Elems
    <2> QED BY <1>1, <2>1 DEF Elems, Once
<1>5. ASSUME NEW x \in Elems(s) \ {Head(s)} PROVE x \in Elems(Tail(s))
    <2>1. PICK i \in 1 .. Len(s) : x = s[i] /\ i # 1
        BY <1>1, <1>5 DEF Elems
    <2>2. i - 1 \in 1 .. Len(s) - 1 /\ Tail(s)[i - 1] = x
        BY <1>1, <2>1
    <2> QED BY <1>1, <2>2 DEF Elems
<1> QED BY <1>1, <1>2, <1>3, <1>4, <1>5

\* Linking a record in front of a list that does not hold it.
LEMMA LinkFront ==
    ASSUME NEW S, NEW s \in Seq(S), Once(s), NEW x \in S, x \notin Elems(s)
    PROVE  /\ <<x>> \o s \in Seq(S) /\ <<x>> \o s # <<>> /\ Once(<<x>> \o s)
           /\ Elems(<<x>> \o s) = Elems(s) \cup {x}
<1> DEFINE r == <<x>> \o s
<1>1. <<x>> \in Seq(S) /\ Len(<<x>>) = 1 /\ <<x>>[1] = x
    OBVIOUS
<1>2. /\ Len(s) \in Nat /\ DOMAIN s = 1 .. Len(s)
      /\ r \in Seq(S) /\ DOMAIN r = 1 .. Len(s) + 1
      /\ r[1] = x
      /\ \A i \in 1 .. Len(s) : r[i + 1] = s[i]
    BY <1>1, ConcatProperties, LenProperties
<1> HIDE DEF r
<1>3. \A i \in 1 .. Len(s) + 1 : i # 1 => i - 1 \in 1 .. Len(s) /\ r[i] = s[i - 1]
    BY <1>2
<1>4. r # <<>>
    BY <1>2, EmptySeq
<1>5. Once(r)
    <2>1. \A i \in 1 .. Len(s) + 1 : i # 1 => r[i] # x
        BY <1>2, <1>3 DEF Elems
    <2>2. ASSUME NEW i \in 1 .. Len(s) + 1, NEW j \in 1 .. Len(s) + 1,
                 i # 1, j # 1, r[i] = r[j]
          PROVE  i = j
        <3>1. /\ i - 1 \in DOMAIN s /\ j - 1 \in DOMAIN s
              /\ s[i - 1] = s[j - 1]
            BY <1>2, <1>3, <2>2
        <3>2. i - 1 = j - 1
            BY <3>1 DEF Once
        <3> QED BY <1>2, <3>2
    <2> QED BY <1>2, <2>1, <2>2 DEF Once
<1>6. Elems(r) = Elems(s) \cup {x}
    <2>1. ASSUME NEW y \in Elems(r) PROVE y \in Elems(s) \cup {x}
        BY <1>2, <1>3, <2>1 DEF Elems
    <2>2. ASSUME NEW y \in Elems(s) \cup {x} PROVE y \in Elems(r)
        <3>1. CASE y = x
            BY <1>2, <3>1 DEF Elems
        <3>2. CASE y \in Elems(s)
            <4>1. PICK i \in 1 .. Len(s) : y = s[i]
                BY <1>2, <3>2 DEF Elems
            <4>2. i + 1 \in 1 .. Len(s) + 1 /\ r[i + 1] = y
                BY <1>2, <4>1
            <4> QED BY <1>2, <4>2 DEF Elems
        <3> QED BY <3>1, <3>2
    <2> QED BY <2>1, <2>2
<1> QED BY <1>2, <1>4, <1>5, <1>6 DEF r

\* Linked, in terms of the set of threads that a list holds.
LEMMA LinkedElems ==
    ASSUME NEW s, NEW call
    PROVE  Linked(s, call)
           <=> /\ Once(s)
               /\ \A t \in Threads : t \in Elems(s) <=> (at[t] = call /\ ~token[t])
BY DEF Linked, Once, Elems

\* WakeFirst(list, t) hands the token to the thread whose record it unlinks:
\* the list still holds exactly the blocked threads without the token, the
\* threads coming with a token for it are one more, and at the other list
\* only t, back from its call, may have used its token.
LEMMA WakeFirstEffect ==
    ASSUME WaitingListsConsistent,
           NEW call \in {"get", "put"}, NEW other \in {"get", "put"}, call # other,
           NEW S, S \subseteq Threads,
           NEW list \in Seq(S), Linked(list, call),
           NEW olist, Linked(olist, other),
           NEW t \in Threads \cup {NoEvent},
           t \in Threads => at[t] # call /\ (at[t] = other => token[t]),
           at' \in [Threads -> {"idle", "put", "get", "call", "callOne"}],
           \A u \in Threads : u # t => at'[u] = at[u],
           t \in Threads => at'[t] \notin {"get", "put"},
           WakeFirst(list, t)
    PROVE  /\ Rest(list) \in Seq(S)
           /\ Once(Rest(list)) /\ Once(olist)
           /\ \A u \in Threads : u \in Elems(Rest(list)) <=> (at'[u] = call /\ ~token'[u])
           /\ \A u \in Threads : u \in Elems(olist) <=> (at'[u] = other /\ ~token'[u])
           /\ token' \in [Threads -> BOOLEAN] /\ waitFlag' \in [Threads -> BOOLEAN]
           /\ \A u \in Threads : token'[u] => at'[u] \in {"get", "put"} /\ ~waitFlag'[u]
           /\ Holders(call)' = Holders(call) \cup (IF list = <<>> THEN {} ELSE {Head(list)})
           /\ list # <<>> => Head(list) \notin Holders(call)
           /\ Holders(other)' = Holders(other) \ {t}
<1> DEFINE woken == IF list = <<>> THEN {} ELSE {Head(list)}
<1>1. /\ Once(list)
      /\ \A u \in Threads : u \in Elems(list) <=> (at[u] = call /\ ~token[u])
    BY LinkedElems
<1>2. /\ Once(olist)
      /\ \A u \in Threads : u \in Elems(olist) <=> (at[u] = other /\ ~token[u])
    BY LinkedElems
<1>3. /\ Rest(list) \in Seq(S) /\ Once(Rest(list))
      /\ woken \subseteq Threads /\ woken \subseteq Elems(list)
      /\ Elems(Rest(list)) = Elems(list) \ woken
    <2>1. CASE list = <<>>
        BY <1>1, <2>1 DEF Rest
    <2>2. CASE list # <<>>
        <3>1. /\ Rest(list) = Tail(list) /\ woken = {Head(list)}
            BY <2>2 DEF Rest
        <3> QED BY <1>1, <2>2, <3>1, UnlinkFirst
    <2> QED BY <2>1, <2>2
<1>4. /\ token' = [u \in Threads |-> u \in woken \/ (token[u] /\ u # t)]
      /\ waitFlag' = [u \in Threads |-> waitFlag[u] /\ u \notin woken]
    BY DEF WakeFirst
<1>5. woken = IF list = <<>> THEN {} ELSE {Head(list)}
    OBVIOUS
<1> HIDE DEF woken
<1>6. /\ token \in [Threads -> BOOLEAN] /\ waitFlag \in [Threads -> BOOLEAN]
      /\ \A u \in Threads : token[u] => at[u] \in {"get", "put"} /\ ~waitFlag[u]
    BY DEF WaitingListsConsistent, FixedTypeOK
<1>7. \A u \in woken : u \in Threads /\ at[u] = call /\ ~token[u] /\ u # t /\ at'[u] = call
    BY <1>1, <1>3
<1>8. \A u \in Threads : token'[u] <=> (u \in woken \/ (token[u] /\ u # t))
    BY <1>4
<1>9. \A u \in Threads : waitFlag'[u] <=> (waitFlag[u] /\ u \notin woken)
    BY <1>4
<1>10. token' \in [Threads -> BOOLEAN] /\ waitFlag' \in [Threads -> BOOLEAN]
    BY <1>4, <1>6
<1>11. \A u \in Threads : u \in Elems(Rest(list)) <=> (at'[u] = call /\ ~token'[u])
    BY <1>1, <1>3, <1>7, <1>8
<1>12. \A u \in Threads : u \in Elems(olist) <=> (at'[u] = other /\ ~token'[u])
    BY <1>2, <1>7, <1>8
<1>13. \A u \in Threads : token'[u] => at'[u] \in {"get", "put"} /\ ~waitFlag'[u]
    BY <1>6, <1>7, <1>8, <1>9
<1>14. Holders(call)' = Holders(call) \cup woken
    BY <1>7, <1>8 DEF Holders
<1>15. Holders(other)' = Holders(other) \ {t}
    BY <1>7, <1>8 DEF Holders
<1>16. list # <<>> => Head(list) \notin Holders(call)
    BY <1>5, <1>7 DEF Holders
<1> QED
    BY <1>2, <1>3, <1>5, <1>10, <1>11, <1>12, <1>13, <1>14, <1>15, <1>16

\* Only finitely many threads can be coming with a token.
LEMMA HoldersFinite ==
    ASSUME NEW call
    PROVE  IsFiniteSet(Holders(call)) /\ Cardinality(Holders(call)) \in Nat
<1>1. IsFiniteSet(Threads)
    BY FixedEventQueueAssumption, FS_Union DEF Threads
<1>2. IsFiniteSet(Holders(call))
    BY <1>1, FS_Subset DEF Holders
<1> QED BY <1>2, FS_CardinalityType

-----------------------------------------------------------------------------
(* The operations preserve the invariant *)

Places == {"idle", "put", "get", "call", "callOne"}

\* Storing an event wakes a runner for it: the events and the runners coming
\* for them grow together, and a poster that used its token used a free slot.
LEMMA PostKeepsInv ==
    ASSUME QueueInv, NEW e \in Events, NEW t \in Threads \cup {NoEvent},
           t \in Threads => at[t] = "idle" \/ (at[t] = "put" /\ token[t]),
           IRQpostImpl(e, t),
           at' \in [Threads -> Places], item' \in [Threads -> Events \cup {NoEvent}],
           \A u \in Threads : u # t => at'[u] = at[u],
           t \in Threads => at'[t] = "idle"
    PROVE  QueueInv'
<1> USE FixedEventQueueAssumption DEF QueueInv, Places
<1>1. /\ n < size /\ events' = [events EXCEPT ![putSlot] = e]
      /\ putSlot' = NextSlot(putSlot) /\ n' = n + 1 /\ getSlot' = getSlot
      /\ taken' = taken /\ waitingGet' = Rest(waitingGet)
      /\ waitingPut' = waitingPut /\ WakeFirst(waitingGet, t)
    BY DEF IRQpostImpl
<1>2. /\ FixedTypeOK /\ Linked(waitingGet, "get") /\ Linked(waitingPut, "put")
      /\ waitingGet \in Seq(Runners) /\ waitingPut \in Seq(Posters)
      /\ Runners \subseteq Threads
    BY DEF WaitingListsConsistent, FixedTypeOK, Threads
<1>3. /\ Rest(waitingGet) \in Seq(Runners)
      /\ Once(Rest(waitingGet)) /\ Once(waitingPut)
      /\ \A u \in Threads : u \in Elems(Rest(waitingGet))
                            <=> (at'[u] = "get" /\ ~token'[u])
      /\ \A u \in Threads : u \in Elems(waitingPut)
                            <=> (at'[u] = "put" /\ ~token'[u])
      /\ token' \in [Threads -> BOOLEAN] /\ waitFlag' \in [Threads -> BOOLEAN]
      /\ \A u \in Threads : token'[u] => at'[u] \in {"get", "put"} /\ ~waitFlag'[u]
      /\ Holders("get")' = Holders("get")
             \cup (IF waitingGet = <<>> THEN {} ELSE {Head(waitingGet)})
      /\ waitingGet # <<>> => Head(waitingGet) \notin Holders("get")
      /\ Holders("put")' = Holders("put") \ {t}
    BY <1>1, <1>2, WakeFirstEffect
<1>4. /\ events' \in [FixedSlots -> Events \cup {NoEvent}] /\ putSlot' \in FixedSlots
      /\ getSlot' \in FixedSlots /\ n' \in 0 .. size /\ RingConsistent'
    BY <1>1, <1>2 DEF FixedTypeOK, RingConsistent, NextSlot, FixedSlots
<1>5. FixedTypeOK'
    BY <1>1, <1>2, <1>3, <1>4 DEF FixedTypeOK
<1>6. Linked(waitingGet, "get")' /\ Linked(waitingPut, "put")'
    BY <1>1, <1>3 DEF Linked, Once, Elems
<1>7. WaitingListsConsistent'
    BY <1>3, <1>5, <1>6 DEF WaitingListsConsistent
<1> DEFINE G  == Holders("get")
           P  == Holders("put")
           Gn == Holders("get")'
           Pn == Holders("put")'
<1>8. /\ Cardinality(G) \in Nat /\ Cardinality(P) \in Nat
      /\ waitingGet # <<>> => Cardinality(Gn) = Cardinality(G) + 1
      /\ waitingGet = <<>> => Gn = G
      /\ Cardinality(Pn) \in Nat
      /\ Cardinality(Pn) >= Cardinality(P) - 1
    <2>1. /\ Gn = G \cup (IF waitingGet = <<>> THEN {} ELSE {Head(waitingGet)})
          /\ waitingGet # <<>> => Head(waitingGet) \notin G
          /\ Pn = P \ {t}
        BY <1>3
    <2>2. IsFiniteSet(G) /\ IsFiniteSet(P) /\ Cardinality(G) \in Nat /\ Cardinality(P) \in Nat
        BY HoldersFinite
    <2> HIDE DEF G, P, Gn, Pn
    <2>3. waitingGet # <<>> => Cardinality(Gn) = Cardinality(G) + 1
        BY <2>1, <2>2, FS_AddElement
    <2>4. IsFiniteSet(Pn) /\ Cardinality(Pn) =
              IF t \in P THEN Cardinality(P) - 1 ELSE Cardinality(P)
        BY <2>1, <2>2, FS_RemoveElement
    <2>5. Cardinality(Pn) \in Nat
        BY <2>4, FS_CardinalityType
    <2> QED BY <2>1, <2>2, <2>3, <2>4, <2>5
<1>9. waitingGet' # <<>> => waitingGet # <<>>
    BY <1>1 DEF Rest
<1>10. NoneSleepsInVain'
    <2>1. /\ waitingGet # <<>> => n <= Cardinality(G)
          /\ waitingPut # <<>> => size - n <= Cardinality(P)
        BY DEF NoneSleepsInVain
    <2>2. n \in Nat /\ size \in Nat
        BY <1>2 DEF FixedTypeOK
    <2> HIDE DEF G, P, Gn, Pn
    <2>3. /\ waitingGet' # <<>> => n' <= Cardinality(Gn)
          /\ waitingPut' # <<>> => size - n' <= Cardinality(Pn)
        BY <1>1, <1>8, <1>9, <2>1, <2>2
    <2> QED BY <2>3 DEF NoneSleepsInVain, Gn, Pn
<1> QED BY <1>4, <1>7, <1>10

\* Taking an event wakes a poster for the free slot: the free slots and the
\* posters coming for them grow together, and a runner that used its token
\* used an event.
LEMMA TakeKeepsInv ==
    ASSUME QueueInv, NEW t \in Threads,
           at[t] \in {"idle", "call"} \/ (at[t] = "get" /\ token[t]),
           TakeEvent(t),
           at' \in [Threads -> Places], item' \in [Threads -> Events \cup {NoEvent}],
           \A u \in Threads : u # t => at'[u] = at[u],
           at'[t] \in {"call", "callOne"}
    PROVE  QueueInv'
<1> USE FixedEventQueueAssumption DEF QueueInv, Places
<1>1. /\ n > 0 /\ events' = events
      /\ getSlot' = NextSlot(getSlot) /\ n' = n - 1 /\ putSlot' = putSlot
      /\ taken' = events[getSlot] /\ waitingPut' = Rest(waitingPut)
      /\ waitingGet' = waitingGet /\ WakeFirst(waitingPut, t)
    BY DEF TakeEvent
<1>2. /\ FixedTypeOK /\ Linked(waitingGet, "get") /\ Linked(waitingPut, "put")
      /\ waitingGet \in Seq(Runners) /\ waitingPut \in Seq(Posters)
      /\ Posters \subseteq Threads
    BY DEF WaitingListsConsistent, FixedTypeOK, Threads
<1>3. /\ Rest(waitingPut) \in Seq(Posters)
      /\ Once(Rest(waitingPut)) /\ Once(waitingGet)
      /\ \A u \in Threads : u \in Elems(Rest(waitingPut))
                            <=> (at'[u] = "put" /\ ~token'[u])
      /\ \A u \in Threads : u \in Elems(waitingGet)
                            <=> (at'[u] = "get" /\ ~token'[u])
      /\ token' \in [Threads -> BOOLEAN] /\ waitFlag' \in [Threads -> BOOLEAN]
      /\ \A u \in Threads : token'[u] => at'[u] \in {"get", "put"} /\ ~waitFlag'[u]
      /\ Holders("put")' = Holders("put")
             \cup (IF waitingPut = <<>> THEN {} ELSE {Head(waitingPut)})
      /\ waitingPut # <<>> => Head(waitingPut) \notin Holders("put")
      /\ Holders("get")' = Holders("get") \ {t}
    BY <1>1, <1>2, WakeFirstEffect
<1>4. /\ events' \in [FixedSlots -> Events \cup {NoEvent}] /\ putSlot' \in FixedSlots
      /\ getSlot' \in FixedSlots /\ n' \in 0 .. size /\ RingConsistent'
      /\ taken' \in Events \cup {NoEvent}
    BY <1>1, <1>2 DEF FixedTypeOK, RingConsistent, NextSlot, FixedSlots
<1>5. FixedTypeOK'
    BY <1>1, <1>2, <1>3, <1>4 DEF FixedTypeOK
<1>6. Linked(waitingGet, "get")' /\ Linked(waitingPut, "put")'
    BY <1>1, <1>3 DEF Linked, Once, Elems
<1>7. WaitingListsConsistent'
    BY <1>3, <1>5, <1>6 DEF WaitingListsConsistent
<1> DEFINE G  == Holders("get")
           P  == Holders("put")
           Gn == Holders("get")'
           Pn == Holders("put")'
<1>8. /\ Cardinality(G) \in Nat /\ Cardinality(P) \in Nat
      /\ waitingPut # <<>> => Cardinality(Pn) = Cardinality(P) + 1
      /\ waitingPut = <<>> => Pn = P
      /\ Cardinality(Gn) \in Nat
      /\ Cardinality(Gn) >= Cardinality(G) - 1
    <2>1. /\ Pn = P \cup (IF waitingPut = <<>> THEN {} ELSE {Head(waitingPut)})
          /\ waitingPut # <<>> => Head(waitingPut) \notin P
          /\ Gn = G \ {t}
        BY <1>3
    <2>2. IsFiniteSet(G) /\ IsFiniteSet(P) /\ Cardinality(G) \in Nat /\ Cardinality(P) \in Nat
        BY HoldersFinite
    <2> HIDE DEF G, P, Gn, Pn
    <2>3. waitingPut # <<>> => Cardinality(Pn) = Cardinality(P) + 1
        BY <2>1, <2>2, FS_AddElement
    <2>4. IsFiniteSet(Gn) /\ Cardinality(Gn) =
              IF t \in G THEN Cardinality(G) - 1 ELSE Cardinality(G)
        BY <2>1, <2>2, FS_RemoveElement
    <2>5. Cardinality(Gn) \in Nat
        BY <2>4, FS_CardinalityType
    <2> QED BY <2>1, <2>2, <2>3, <2>4, <2>5
<1>9. waitingPut' # <<>> => waitingPut # <<>>
    BY <1>1 DEF Rest
<1>10. NoneSleepsInVain'
    <2>1. /\ waitingGet # <<>> => n <= Cardinality(G)
          /\ waitingPut # <<>> => size - n <= Cardinality(P)
        BY DEF NoneSleepsInVain
    <2>2. n \in Nat /\ size \in Nat
        BY <1>2 DEF FixedTypeOK
    <2> HIDE DEF G, P, Gn, Pn
    <2>3. /\ waitingGet' # <<>> => n' <= Cardinality(Gn)
          /\ waitingPut' # <<>> => size - n' <= Cardinality(Pn)
        BY <1>1, <1>8, <1>9, <2>1, <2>2
    <2> QED BY <2>3 DEF NoneSleepsInVain, Gn, Pn
<1> QED BY <1>4, <1>7, <1>10

\* A poster sleeps only in front of a full queue.
LEMMA SleepPutKeepsInv ==
    ASSUME QueueInv, NEW t \in Posters, NEW e \in Events,
           at[t] = "idle" \/ (at[t] = "put" /\ token[t]),
           n >= size, waitingPut' = <<t>> \o waitingPut, Sleep(t),
           Goto(t, "put", e), UNCHANGED waitingGet
    PROVE  QueueInv'
<1> USE FixedEventQueueAssumption DEF QueueInv
<1>1. /\ FixedTypeOK /\ t \in Threads /\ UNCHANGED ring
      /\ token' = [token EXCEPT ![t] = FALSE] /\ waitFlag' = [waitFlag EXCEPT ![t] = TRUE]
      /\ at' = [at EXCEPT ![t] = "put"] /\ item' = [item EXCEPT ![t] = e]
    BY DEF WaitingListsConsistent, Sleep, Goto, Threads
<1>2. /\ Once(waitingPut) /\ Once(waitingGet)
      /\ \A u \in Threads : u \in Elems(waitingPut) <=> (at[u] = "put" /\ ~token[u])
      /\ \A u \in Threads : u \in Elems(waitingGet) <=> (at[u] = "get" /\ ~token[u])
    BY LinkedElems DEF WaitingListsConsistent
<1>3. /\ waitingPut' \in Seq(Posters) /\ Once(waitingPut')
      /\ Elems(waitingPut') = Elems(waitingPut) \cup {t}
    BY <1>1, <1>2, LinkFront DEF FixedTypeOK
<1>4. FixedTypeOK' /\ RingConsistent'
    BY <1>1, <1>3 DEF FixedTypeOK, RingConsistent, ring
<1>5. \A u \in Threads : /\ token'[u] <=> token[u] /\ u # t
                         /\ at'[u] = IF u = t THEN "put" ELSE at[u]
                         /\ u # t => (waitFlag'[u] <=> waitFlag[u])
    BY <1>1 DEF FixedTypeOK
<1>6. \A u \in Threads : u \in Elems(waitingPut') <=> (at'[u] = "put" /\ ~token'[u])
    BY <1>2, <1>3, <1>5
<1>7. \A u \in Threads : u \in Elems(waitingGet) <=> (at'[u] = "get" /\ ~token'[u])
    BY <1>2, <1>5
<1>8. Linked(waitingGet, "get")' /\ Linked(waitingPut, "put")'
    BY <1>2, <1>3, <1>6, <1>7 DEF Linked, Once, Elems
<1>9. \A u \in Threads : token'[u] => at'[u] \in {"get", "put"} /\ ~waitFlag'[u]
    BY <1>5 DEF WaitingListsConsistent
<1>10. Holders("get")' = Holders("get")
    BY <1>5 DEF Holders
<1>11. Cardinality(Holders("put")') \in Nat
    <2>1. IsFiniteSet(Threads)
        BY FS_Union DEF Threads
    <2>2. Holders("put")' \subseteq Threads
        BY DEF Holders
    <2> QED BY <2>1, <2>2, FS_Subset, FS_CardinalityType
<1>12. NoneSleepsInVain'
    BY <1>1, <1>10, <1>11 DEF NoneSleepsInVain, ring, FixedTypeOK
<1> QED BY <1>4, <1>8, <1>9, <1>12 DEF WaitingListsConsistent

\* A runner sleeps only in front of an empty queue.
LEMMA SleepGetKeepsInv ==
    ASSUME QueueInv, NEW t \in Runners,
           at[t] \in {"idle", "call"} \/ (at[t] = "get" /\ token[t]),
           n <= 0, waitingGet' = <<t>> \o waitingGet, Sleep(t),
           Goto(t, "get", NoEvent), UNCHANGED waitingPut
    PROVE  QueueInv'
<1> USE FixedEventQueueAssumption DEF QueueInv
<1>1. /\ FixedTypeOK /\ t \in Threads /\ UNCHANGED ring
      /\ token' = [token EXCEPT ![t] = FALSE] /\ waitFlag' = [waitFlag EXCEPT ![t] = TRUE]
      /\ at' = [at EXCEPT ![t] = "get"] /\ item' = [item EXCEPT ![t] = NoEvent]
    BY DEF WaitingListsConsistent, Sleep, Goto, Threads
<1>2. /\ Once(waitingPut) /\ Once(waitingGet)
      /\ \A u \in Threads : u \in Elems(waitingPut) <=> (at[u] = "put" /\ ~token[u])
      /\ \A u \in Threads : u \in Elems(waitingGet) <=> (at[u] = "get" /\ ~token[u])
    BY LinkedElems DEF WaitingListsConsistent
<1>3. /\ waitingGet' \in Seq(Runners) /\ Once(waitingGet')
      /\ Elems(waitingGet') = Elems(waitingGet) \cup {t}
    BY <1>1, <1>2, LinkFront DEF FixedTypeOK
<1>4. FixedTypeOK' /\ RingConsistent'
    BY <1>1, <1>3 DEF FixedTypeOK, RingConsistent, ring
<1>5. \A u \in Threads : /\ token'[u] <=> token[u] /\ u # t
                         /\ at'[u] = IF u = t THEN "get" ELSE at[u]
                         /\ u # t => (waitFlag'[u] <=> waitFlag[u])
    BY <1>1 DEF FixedTypeOK
<1>6. \A u \in Threads : u \in Elems(waitingGet') <=> (at'[u] = "get" /\ ~token'[u])
    BY <1>2, <1>3, <1>5
<1>7. \A u \in Threads : u \in Elems(waitingPut) <=> (at'[u] = "put" /\ ~token'[u])
    BY <1>2, <1>5
<1>8. Linked(waitingGet, "get")' /\ Linked(waitingPut, "put")'
    BY <1>2, <1>3, <1>6, <1>7 DEF Linked, Once, Elems
<1>9. \A u \in Threads : token'[u] => at'[u] \in {"get", "put"} /\ ~waitFlag'[u]
    BY <1>5 DEF WaitingListsConsistent
<1>10. Holders("put")' = Holders("put")
    BY <1>5 DEF Holders
<1>11. Cardinality(Holders("get")') \in Nat
    <2>1. IsFiniteSet(Threads)
        BY FS_Union DEF Threads
    <2>2. Holders("get")' \subseteq Threads
        BY DEF Holders
    <2> QED BY <2>1, <2>2, FS_Subset, FS_CardinalityType
<1>12. NoneSleepsInVain'
    BY <1>1, <1>10, <1>11 DEF NoneSleepsInVain, ring, FixedTypeOK
<1> QED BY <1>4, <1>8, <1>9, <1>12 DEF WaitingListsConsistent

\* A freshly constructed queue satisfies the invariant.
LEMMA InitQueueInv == FixedInit => QueueInv
<1> SUFFICES ASSUME FixedInit PROVE QueueInv
    OBVIOUS
<1>1. FixedTypeOK /\ RingConsistent
    BY FixedEventQueueAssumption DEF FixedInit, FixedTypeOK, RingConsistent, FixedSlots
<1>2. Linked(waitingGet, "get") /\ Linked(waitingPut, "put")
    BY DEF FixedInit, Linked
<1> QED
    BY <1>1, <1>2 DEF FixedInit, QueueInv, WaitingListsConsistent, NoneSleepsInVain

\* A step that leaves the ring, the lists and the tokens alone, and moves a
\* thread neither into nor out of a blocking call, keeps the invariant if it
\* puts nobody with the token to sleep.
LEMMA QuietKeepsInv ==
    ASSUME QueueInv, UNCHANGED <<ring, waitingGet, waitingPut, token>>,
           at' \in [Threads -> Places], item' \in [Threads -> Events \cup {NoEvent}],
           waitFlag' \in [Threads -> BOOLEAN],
           \A u \in Threads : \A c \in {"get", "put"} : at'[u] = c <=> at[u] = c,
           \A u \in Threads : token[u] /\ waitFlag'[u] => waitFlag[u]
    PROVE  QueueInv'
<1>1. FixedTypeOK' /\ RingConsistent'
    BY DEF QueueInv, WaitingListsConsistent, FixedTypeOK, RingConsistent, ring, Places
<1>2. Linked(waitingGet, "get")' /\ Linked(waitingPut, "put")'
    BY DEF QueueInv, WaitingListsConsistent, Linked
<1>3. \A u \in Threads : token'[u] => at'[u] \in {"get", "put"} /\ ~waitFlag'[u]
    BY DEF QueueInv, WaitingListsConsistent
<1>4. Holders("get")' = Holders("get") /\ Holders("put")' = Holders("put")
    BY DEF Holders
<1>5. NoneSleepsInVain'
    BY <1>4 DEF QueueInv, NoneSleepsInVain, ring
<1> QED BY <1>1, <1>2, <1>3, <1>5 DEF QueueInv, WaitingListsConsistent

\* Every section of every operation preserves the invariant.
LEMMA NextQueueInv == QueueInv /\ [FixedNext]_fixedVars => QueueInv'
<1> SUFFICES ASSUME QueueInv, [FixedNext]_fixedVars PROVE QueueInv'
    OBVIOUS
<1>0. FixedTypeOK /\ Posters \subseteq Threads /\ Runners \subseteq Threads
    BY DEF QueueInv, WaitingListsConsistent, Threads
<1>1. ASSUME NEW t \in Posters, NEW e \in Events, postImpl(t, e) PROVE QueueInv'
    <2>1. at[t] = "idle" \/ (at[t] = "put" /\ token[t])
        BY <1>1 DEF postImpl, MayEnter
    <2>2. CASE /\ n >= size /\ waitingPut' = <<t>> \o waitingPut /\ Sleep(t)
               /\ Goto(t, "put", e) /\ UNCHANGED waitingGet
        BY <2>1, <2>2, SleepPutKeepsInv
    <2>3. CASE IRQpostImpl(e, t) /\ Goto(t, "idle", NoEvent)
        BY <1>0, <2>1, <2>3, PostKeepsInv DEF Goto, FixedTypeOK, Places
    <2> QED BY <1>1, <2>2, <2>3 DEF postImpl
<1>2. ASSUME NEW t \in Runners, runImpl(t) PROVE QueueInv'
    <2>1. at[t] \in {"idle", "call"} \/ (at[t] = "get" /\ token[t])
        BY <1>2 DEF runImpl, MayEnter
    <2>2. CASE /\ n <= 0 /\ waitingGet' = <<t>> \o waitingGet /\ Sleep(t)
               /\ Goto(t, "get", NoEvent) /\ UNCHANGED waitingPut
        BY <2>1, <2>2, SleepGetKeepsInv
    <2>3. CASE TakeEvent(t) /\ Goto(t, "call", taken')
        <3>1. taken' \in Events \cup {NoEvent}
            BY <1>0, <2>3 DEF TakeEvent, FixedTypeOK
        <3> QED BY <1>0, <2>1, <2>3, <3>1, TakeKeepsInv DEF Goto, FixedTypeOK, Places
    <2> QED BY <1>2, <2>2, <2>3 DEF runImpl
<1>3. ASSUME NEW t \in Runners, runOneImpl(t) PROVE QueueInv'
    <2>1. taken' \in Events \cup {NoEvent}
        BY <1>0, <1>3 DEF runOneImpl, TakeEvent, FixedTypeOK
    <2> QED BY <1>0, <1>3, <2>1, TakeKeepsInv DEF runOneImpl, Goto, FixedTypeOK, Places
<1>4. ASSUME NEW t \in Runners, LeaveCall(t) PROVE QueueInv'
    BY <1>0, <1>4, QuietKeepsInv DEF LeaveCall, Goto, blocked, FixedTypeOK, Places
<1>5. ASSUME NEW t \in Threads, WaitAgain(t) PROVE QueueInv'
    BY <1>0, <1>5, QuietKeepsInv DEF WaitAgain, FixedTypeOK, Places
<1>6. ASSUME NEW t \in Threads, StrayWakeup(t) PROVE QueueInv'
    BY <1>0, <1>6, QuietKeepsInv DEF StrayWakeup, FixedTypeOK, Places
<1>7. ASSUME NEW e \in Events, IRQpost(e) PROVE QueueInv'
    <2>1. NoEvent \notin Threads
        BY FixedEventQueueAssumption DEF Threads
    <2> QED BY <1>0, <1>7, <2>1, PostKeepsInv DEF IRQpost, FixedTypeOK, Places
<1>8. ASSUME UNCHANGED fixedVars PROVE QueueInv'
    BY <1>0, <1>8, QuietKeepsInv DEF fixedVars, ring, blocked, FixedTypeOK, Places
<1> QED
    BY <1>1, <1>2, <1>3, <1>4, <1>5, <1>6, <1>7, <1>8 DEF FixedNext

\* In every reachable state of the queue the invariant holds.
THEOREM FixedEventQueueInvariant == FixedSpec => []QueueInv
BY InitQueueInv, NextQueueInv, PTL DEF FixedSpec

\* The variables keep their ranges and the two lists hold exactly the
\* threads blocked without the token, each once, whatever the interleaving
\* of posts, runs, interrupts and spurious wakeups.
THEOREM FixedEventQueueLists == FixedSpec => []WaitingListsConsistent
BY FixedEventQueueInvariant, PTL DEF QueueInv

\* No event waits in the queue while a runner sleeps unless a woken runner
\* is coming for it, and no slot is free while a poster sleeps unless a
\* woken poster is coming for it, for any number of threads and slots.
THEOREM FixedEventQueueNoLostWakeup == FixedSpec => []NoneSleepsInVain
BY FixedEventQueueInvariant, PTL DEF QueueInv

-----------------------------------------------------------------------------
(* Refinement: the ring of events implements the abstract bounded FIFO. *)

\* The slot of the i-th oldest event when the oldest is in slot g.
Slot(g, i) == IF g + i - 1 < size THEN g + i - 1 ELSE g + i - 1 - size

\* The slot Queued reads for the i-th event.
LEMMA SlotIsModulo ==
    ASSUME NEW g \in FixedSlots, NEW i \in 1 .. size
    PROVE  (g + i - 1) % size = Slot(g, i) /\ Slot(g, i) \in FixedSlots
<1> USE FixedEventQueueAssumption DEF Slot, FixedSlots
<1>1. CASE g + i - 1 < size
    BY <1>1
<1>2. CASE g + i - 1 >= size
    BY <1>2
<1> QED BY <1>1, <1>2

\* The k events of ring b from slot g on, oldest first.
RingSeq(b, g, k) == [i \in 1 .. k |-> b[(g + i - 1) % size]]

\* They form a sequence of length k, and each of them is a slot of the ring.
LEMMA RingIsSeq ==
    ASSUME NEW b \in [FixedSlots -> Events \cup {NoEvent}],
           NEW g \in FixedSlots, NEW k \in 0 .. size
    PROVE  /\ RingSeq(b, g, k) \in Seq(Events \cup {NoEvent})
           /\ Len(RingSeq(b, g, k)) = k
           /\ \A i \in 1 .. k : /\ Slot(g, i) \in FixedSlots
                                /\ RingSeq(b, g, k)[i] = b[Slot(g, i)]
<1>1. k \in Nat /\ 1 .. k \subseteq 1 .. size
    BY FixedEventQueueAssumption
<1>2. \A i \in 1 .. k : (g + i - 1) % size = Slot(g, i) /\ Slot(g, i) \in FixedSlots
    BY <1>1, SlotIsModulo
<1>3. RingSeq(b, g, k) \in [1 .. k -> Events \cup {NoEvent}]
    BY <1>2 DEF RingSeq
<1>4. /\ RingSeq(b, g, k) \in Seq(Events \cup {NoEvent})
      /\ Len(RingSeq(b, g, k)) = k
    BY <1>1, <1>3
<1> QED BY <1>2, <1>4 DEF RingSeq

\* The events held, before and after a step between states of the right type.
LEMMA ItemsSeq ==
    ASSUME FixedTypeOK, FixedTypeOK'
    PROVE  /\ Queued \in Seq(Events \cup {NoEvent}) /\ Len(Queued) = n
           /\ \A i \in 1 .. n : /\ Slot(getSlot, i) \in FixedSlots
                                /\ Queued[i] = events[Slot(getSlot, i)]
           /\ Queued' \in Seq(Events \cup {NoEvent}) /\ Len(Queued') = n'
           /\ \A i \in 1 .. n' : /\ Slot(getSlot', i) \in FixedSlots
                                 /\ Queued'[i] = events'[Slot(getSlot', i)]
<1>1. Queued = RingSeq(events, getSlot, n) /\ Queued' = RingSeq(events', getSlot', n')
    BY DEF Queued, RingSeq
<1>2. /\ events \in [FixedSlots -> Events \cup {NoEvent}] /\ getSlot \in FixedSlots /\ n \in 0 .. size
      /\ events' \in [FixedSlots -> Events \cup {NoEvent}] /\ getSlot' \in FixedSlots
      /\ n' \in 0 .. size
    BY DEF FixedTypeOK
<1> QED BY <1>1, <1>2, RingIsSeq

\* IRQpostImpl() appends an event and overwrites none that is still held.
LEMMA PostIsFifoPut ==
    ASSUME QueueInv, FixedTypeOK', NEW e \in Events, NEW t, IRQpostImpl(e, t)
    PROVE  EventFifo!FifoPut
<1> USE FixedEventQueueAssumption
<1> DEFINE D == Events \cup {NoEvent}
<1>0. FixedTypeOK /\ RingConsistent
    BY DEF QueueInv, WaitingListsConsistent
<1>1. Queued \in Seq(D) /\ Len(Queued) = n /\ e \in D
    BY <1>0, ItemsSeq
<1>2. Queued' \in Seq(D) /\ Len(Queued') = n + 1
    BY <1>0, ItemsSeq DEF IRQpostImpl
<1>3. Append(Queued, e) \in Seq(D) /\ Len(Append(Queued, e)) = n + 1
    BY <1>1, AppendProperties
<1>4. ASSUME NEW i \in 1 .. n + 1 PROVE Queued'[i] = Append(Queued, e)[i]
    <2>1. Queued'[i] = events'[Slot(getSlot', i)]
        BY <1>0, ItemsSeq DEF IRQpostImpl
    <2>2. CASE i = n + 1
        <3>1. Slot(getSlot', i) = putSlot
            BY <1>0, <2>2 DEF IRQpostImpl, RingConsistent, Slot, FixedTypeOK, FixedSlots
        <3> QED BY <1>0, <2>1, <2>2, <3>1, <1>1, AppendProperties
                DEF IRQpostImpl, FixedTypeOK
    <2>3. CASE i \in 1 .. n
        <3>1. Slot(getSlot', i) = Slot(getSlot, i) /\ Slot(getSlot, i) # putSlot
            BY <1>0, <2>3 DEF IRQpostImpl, RingConsistent, Slot, FixedTypeOK, FixedSlots
        <3>2. Queued[i] = events[Slot(getSlot, i)] /\ Slot(getSlot, i) \in FixedSlots
            BY <1>0, <2>3, ItemsSeq
        <3>3. Append(Queued, e)[i] = Queued[i]
            BY <2>3, <1>1, AppendProperties
        <3> QED BY <1>0, <2>1, <3>1, <3>2, <3>3 DEF IRQpostImpl, FixedTypeOK
    <2>4. i = n + 1 \/ i \in 1 .. n
        BY <1>0 DEF FixedTypeOK
    <2> QED BY <2>2, <2>3, <2>4
<1>5. Queued' = Append(Queued, e)
    BY <1>2, <1>3, <1>4, SeqEqual
<1>6. Len(Queued) < size
    BY <1>1 DEF IRQpostImpl
<1> QED BY <1>5, <1>6 DEF EventFifo!FifoPut, IRQpostImpl

\* Taking an event returns and removes the oldest one.
LEMMA TakeIsFifoGet ==
    ASSUME QueueInv, FixedTypeOK', NEW t, TakeEvent(t)
    PROVE  EventFifo!FifoGet
<1> USE FixedEventQueueAssumption
<1> DEFINE D == Events \cup {NoEvent}
<1>0. FixedTypeOK
    BY DEF QueueInv, WaitingListsConsistent
<1>1. Queued \in Seq(D) /\ Len(Queued) = n /\ Queued # <<>>
    BY <1>0, ItemsSeq, EmptySeq DEF TakeEvent
<1>2. Queued' \in Seq(D) /\ Len(Queued') = n - 1
    BY <1>0, ItemsSeq DEF TakeEvent
<1>3. Tail(Queued) \in Seq(D) /\ Len(Tail(Queued)) = n - 1
    BY <1>1, HeadTailProperties
<1>4. ASSUME NEW i \in 1 .. n - 1 PROVE Queued'[i] = Tail(Queued)[i]
    <2>1. Queued'[i] = events[Slot(getSlot', i)]
        BY <1>0, ItemsSeq DEF TakeEvent
    <2>2. Slot(getSlot', i) = Slot(getSlot, i + 1) /\ i + 1 \in 1 .. n
        <3>1. size \in Nat /\ getSlot \in 0 .. size - 1 /\ n \in 0 .. size
            BY <1>0 DEF FixedTypeOK, FixedSlots
        <3>2. getSlot' = IF getSlot + 1 >= size THEN 0 ELSE getSlot + 1
            BY DEF TakeEvent, NextSlot
        <3> QED BY <3>1, <3>2 DEF Slot
    <2>3. Queued[i + 1] = events[Slot(getSlot, i + 1)]
        BY <1>0, <2>2, ItemsSeq
    <2>4. Tail(Queued)[i] = Queued[i + 1]
        BY <1>1, <1>3, HeadTailProperties
    <2> QED BY <2>1, <2>2, <2>3, <2>4
<1>5. Queued' = Tail(Queued)
    BY <1>2, <1>3, <1>4, SeqEqual
<1>6. Head(Queued) = events[getSlot]
    <2>1. 1 \in 1 .. n /\ Slot(getSlot, 1) = getSlot
        BY <1>0 DEF TakeEvent, FixedTypeOK, Slot, FixedSlots
    <2>2. Queued[1] = events[getSlot]
        BY <1>0, <2>1, ItemsSeq
    <2> QED BY <2>2, <1>1
<1> QED BY <1>1, <1>5, <1>6 DEF EventFifo!FifoGet, TakeEvent

\* A section that leaves the ring alone is a stuttering step of the FIFO.
LEMMA RingUnchangedIsStutter ==
    ASSUME UNCHANGED ring
    PROVE  UNCHANGED EventFifo!fifoVars
BY DEF ring, EventFifo!fifoVars, Queued

\* Every step of the queue is a step of the FIFO or changes nothing there.
LEMMA NextIsFifoNext ==
    ASSUME QueueInv, QueueInv', [FixedNext]_fixedVars
    PROVE  [EventFifo!FifoNext]_(EventFifo!fifoVars)
<1>0. FixedTypeOK'
    BY DEF QueueInv, WaitingListsConsistent
<1> USE DEF EventFifo!FifoNext
<1>1. ASSUME NEW t \in Posters, NEW e \in Events, postImpl(t, e)
      PROVE  EventFifo!FifoNext \/ UNCHANGED EventFifo!fifoVars
    BY <1>0, <1>1, PostIsFifoPut, RingUnchangedIsStutter DEF postImpl, Sleep
<1>2. ASSUME NEW t \in Runners, runImpl(t)
      PROVE  EventFifo!FifoNext \/ UNCHANGED EventFifo!fifoVars
    BY <1>0, <1>2, TakeIsFifoGet, RingUnchangedIsStutter DEF runImpl, Sleep
<1>3. ASSUME NEW t \in Runners, runOneImpl(t) PROVE EventFifo!FifoNext
    BY <1>0, <1>3, TakeIsFifoGet DEF runOneImpl
<1>4. ASSUME NEW t \in Threads, LeaveCall(t) \/ WaitAgain(t) \/ StrayWakeup(t)
      PROVE  UNCHANGED EventFifo!fifoVars
    BY <1>4, RingUnchangedIsStutter DEF LeaveCall, WaitAgain, StrayWakeup
<1>5. ASSUME NEW e \in Events, IRQpost(e) PROVE EventFifo!FifoNext
    BY <1>0, <1>5, PostIsFifoPut DEF IRQpost
<1>6. ASSUME UNCHANGED fixedVars PROVE UNCHANGED EventFifo!fifoVars
    BY <1>6, RingUnchangedIsStutter DEF fixedVars
<1> QED
    BY <1>1, <1>2, <1>3, <1>4, <1>5, <1>6 DEF FixedNext, Threads

\* FixedEventQueue is a bounded FIFO for every number of slots and threads:
\* events run in the order posted, each once, and none is overwritten when
\* the queue is full, a runner throws or a wakeup is spurious.
THEOREM FixedEventQueueImplementsFifo == FixedSpec => EventsInOrder
<1>1. FixedInit => EventFifo!FifoInit
    <2> SUFFICES ASSUME FixedInit PROVE EventFifo!FifoInit
        OBVIOUS
    <2>1. FixedTypeOK /\ n = 0
        BY InitQueueInv DEF QueueInv, WaitingListsConsistent, FixedInit
    <2>2. Queued = RingSeq(events, getSlot, n)
        BY DEF Queued, RingSeq
    <2>3. Queued = <<>>
        BY <2>1, <2>2, RingIsSeq, EmptySeq DEF FixedTypeOK
    <2> QED BY <2>3 DEF FixedInit, EventFifo!FifoInit
<1> QED
    BY <1>1, NextIsFifoNext, FixedEventQueueInvariant, PTL
    DEF FixedSpec, EventsInOrder, EventFifo!FifoSpec
=============================================================================
