--------------------------- MODULE FixedEventQueue ---------------------------
(***************************************************************************)
(* e20/e20.h, FixedEventQueue: a bounded queue of event functions posted   *)
(* by threads and interrupts and executed by the threads in run() or       *)
(* runOne().                                                               *)
(*                                                                         *)
(* Each operation runs with interrupts disabled, except while it blocks in *)
(* Thread::yield() and while it calls an event function: one action is one *)
(* such section.  A blocked caller has a WaitingList record on its stack,  *)
(* linked at the front of waitingGet or waitingPut, whose token tells a    *)
(* real wakeup from a spurious one.  Any thread with a clear WAIT flag may *)
(* run: every priority assignment is covered, and hppw, which only reports *)
(* a comparison of priorities, is left out.                                *)
(***************************************************************************)
EXTENDS Integers, Sequences, FiniteSets

CONSTANTS size,      \* template parameter NumSlots
          Events,    \* event functions
          NoEvent,
          Posters,   \* threads that call post()
          Runners    \* threads that call run() and runOne()

ASSUME FixedEventQueueAssumption ==
    /\ size \in Nat \ {0}
    /\ NoEvent \notin Events
    /\ IsFiniteSet(Posters) /\ IsFiniteSet(Runners)
    /\ Posters \cap Runners = {}
    /\ NoEvent \notin Posters \cup Runners

Threads == Posters \cup Runners
FixedSlots == 0 .. size - 1

VARIABLES
    events, putSlot, getSlot, n,
    waitingGet, waitingPut,   \* threads with a record linked, from the front
    token,                    \* w.token of each blocked thread
    waitFlag,                 \* WAIT flag
    at,         \* "put", "get": blocked in post(), run(); "call", "callOne":
                \* in an event function called by run(), runOne()
    item,       \* event being posted or called
    taken       \* history: event most recently taken from the queue

ring      == <<events, putSlot, getSlot, n, taken>>
blocked   == <<waitingGet, waitingPut, token, waitFlag>>
fixedVars == <<ring, blocked, at, item>>

FixedTypeOK ==
    /\ events \in [FixedSlots -> Events \cup {NoEvent}]
    /\ putSlot \in FixedSlots /\ getSlot \in FixedSlots /\ n \in 0 .. size
    /\ waitingGet \in Seq(Runners) /\ waitingPut \in Seq(Posters)
    /\ token \in [Threads -> BOOLEAN]
    /\ waitFlag \in [Threads -> BOOLEAN]
    /\ at \in [Threads -> {"idle", "put", "get", "call", "callOne"}]
    /\ item \in [Threads -> Events \cup {NoEvent}]
    /\ taken \in Events \cup {NoEvent}

FixedInit ==
    /\ events = [i \in FixedSlots |-> NoEvent]
    /\ putSlot = 0 /\ getSlot = 0 /\ n = 0
    /\ waitingGet = <<>> /\ waitingPut = <<>>
    /\ token = [t \in Threads |-> FALSE]
    /\ waitFlag = [t \in Threads |-> FALSE]
    /\ at = [t \in Threads |-> "idle"]
    /\ item = [t \in Threads |-> NoEvent]
    /\ taken = NoEvent
-----------------------------------------------------------------------------
\* if(++pos>=size) pos=0;
NextSlot(pos) == IF pos + 1 >= size THEN 0 ELSE pos + 1

Goto(t, place, e) ==
    /\ at' = [at EXCEPT ![t] = place]
    /\ item' = [item EXCEPT ![t] = e]

\* t, about to return from its wait if it was in one, frees its record; the
\* first thread of a list is given the token and woken.
WakeFirst(list, t) ==
    LET woken == IF list = <<>> THEN {} ELSE {Head(list)}
    IN  /\ token' = [u \in Threads |-> u \in woken \/ (token[u] /\ u # t)]
        /\ waitFlag' = [u \in Threads |-> waitFlag[u] /\ u \notin woken]

Rest(list) == IF list = <<>> THEN <<>> ELSE Tail(list)

\* Mutant: the waiting runner is woken only when the queue was empty.
IRQpostImpl_WakeIfEmpty(e, t) ==
    /\ n < size
    /\ events' = [events EXCEPT ![putSlot] = e]
    /\ putSlot' = NextSlot(putSlot)
    /\ n' = n + 1
    /\ WakeFirst(IF n = 0 THEN waitingGet ELSE <<>>, t)
    /\ waitingGet' = IF n = 0 THEN Rest(waitingGet) ELSE waitingGet
    /\ UNCHANGED <<getSlot, waitingPut, taken>>

\* Mutant: a full queue is not refused.
IRQpostImpl_Overwrites(e, t) ==
    /\ events' = [events EXCEPT ![putSlot] = e]
    /\ putSlot' = NextSlot(putSlot)
    /\ n' = IF n < size THEN n + 1 ELSE n
    /\ WakeFirst(waitingGet, t)
    /\ waitingGet' = Rest(waitingGet)
    /\ UNCHANGED <<getSlot, waitingPut, taken>>

\* IRQpostImpl() called by t: the event is stored, a runner woken.
IRQpostImpl(e, t) ==
    /\ n < size
    /\ events' = [events EXCEPT ![putSlot] = e]
    /\ putSlot' = NextSlot(putSlot)
    /\ n' = n + 1
    /\ WakeFirst(waitingGet, t)
    /\ waitingGet' = Rest(waitingGet)
    /\ UNCHANGED <<getSlot, waitingPut, taken>>

\* The part of runImpl() and runOneImpl() that takes an event.
TakeEvent(t) ==
    /\ n > 0
    /\ taken' = events[getSlot]
    /\ getSlot' = NextSlot(getSlot)
    /\ n' = n - 1
    /\ WakeFirst(waitingPut, t)
    /\ waitingPut' = Rest(waitingPut)
    /\ UNCHANGED <<events, putSlot, waitingGet>>

\* Linking a fresh record of t and going to sleep.
Sleep(t) ==
    /\ token' = [token EXCEPT ![t] = FALSE]
    /\ waitFlag' = [waitFlag EXCEPT ![t] = TRUE]
    /\ UNCHANGED ring

\* t starts a call, or is back from the yield inside it with the token.
MayEnter(t, call) == ~waitFlag[t] /\ (at[t] = "idle" \/ (at[t] = call /\ token[t]))
-----------------------------------------------------------------------------
postImpl(t, e) ==
    /\ MayEnter(t, "put")
    /\ at[t] = "put" => e = item[t]
    /\ \/ /\ n >= size
          /\ waitingPut' = <<t>> \o waitingPut
          /\ Sleep(t)
          /\ Goto(t, "put", e)
          /\ UNCHANGED waitingGet
       \/ IRQpostImpl(e, t) /\ Goto(t, "idle", NoEvent)

\* postNonBlocking() by any thread, IRQpost() by an interrupt, when there is
\* room; otherwise they return false and do nothing.
IRQpost(e) == IRQpostImpl(e, NoEvent) /\ UNCHANGED <<at, item>>

\* A round of runImpl(): on entry, after the wait, or when f() returns.
runImpl(t) ==
    /\ MayEnter(t, "get") \/ at[t] = "call"
    /\ \/ /\ n <= 0
          /\ waitingGet' = <<t>> \o waitingGet
          /\ Sleep(t)
          /\ Goto(t, "get", NoEvent)
          /\ UNCHANGED waitingPut
       \/ TakeEvent(t) /\ Goto(t, "call", taken')

runOneImpl(t) ==
    /\ at[t] = "idle"
    /\ TakeEvent(t)
    /\ Goto(t, "callOne", taken')

\* f() throws out of run(), or returns or throws in runOne().
LeaveCall(t) ==
    /\ at[t] \in {"call", "callOne"}
    /\ Goto(t, "idle", NoEvent)
    /\ UNCHANGED <<ring, blocked>>

\* Mutant: the thread does not check the token when it is woken.
WaitAgain_NoToken(t) ==
    /\ at[t] \in {"put", "get"} /\ ~waitFlag[t] /\ ~token[t]
    /\ Goto(t, "idle", NoEvent)
    /\ UNCHANGED <<ring, blocked>>

\* while(w.token==false): woken without the token, the thread sleeps again.
WaitAgain(t) ==
    /\ at[t] \in {"put", "get"} /\ ~waitFlag[t] /\ ~token[t]
    /\ waitFlag' = [waitFlag EXCEPT ![t] = TRUE]
    /\ UNCHANGED <<ring, waitingGet, waitingPut, token, at, item>>

\* Another part of the system calls wakeup() on a blocked thread.
StrayWakeup(t) ==
    /\ waitFlag[t]
    /\ waitFlag' = [waitFlag EXCEPT ![t] = FALSE]
    /\ UNCHANGED <<ring, waitingGet, waitingPut, token, at, item>>

FixedNext ==
    \/ \E t \in Posters, e \in Events : postImpl(t, e)
    \/ \E t \in Runners : runImpl(t) \/ runOneImpl(t) \/ LeaveCall(t)
    \/ \E t \in Threads : WaitAgain(t) \/ StrayWakeup(t)
    \/ \E e \in Events : IRQpost(e)

FixedSpec == FixedInit /\ [][FixedNext]_fixedVars

-----------------------------------------------------------------------------
(* Properties *)

Holders(call) == {t \in Threads : at[t] = call /\ token[t]}

Linked(list, call) ==
    /\ \A t \in Threads : (\E i \in DOMAIN list : list[i] = t)
                          <=> (at[t] = call /\ ~token[t])
    /\ \A i, j \in DOMAIN list : list[i] = list[j] => i = j

\* A list holds exactly the threads blocked at its end that have not been
\* given the token, each once, so that a record never outlives the frame it
\* is in; a thread with the token is awake.
WaitingListsConsistent ==
    /\ FixedTypeOK
    /\ Linked(waitingGet, "get") /\ Linked(waitingPut, "put")
    /\ \A t \in Threads : token[t] => at[t] \in {"get", "put"} /\ ~waitFlag[t]

\* A runner sleeps only when every event in the queue has a woken runner
\* coming for it, although events and wakeups may be overtaken by runOne()
\* and by runners that never slept; a poster sleeps only when every free slot
\* has a woken poster coming for it, although interrupts may take it first.
NoneSleepsInVain ==
    /\ waitingGet # <<>> => n <= Cardinality(Holders("get"))
    /\ waitingPut # <<>> => size - n <= Cardinality(Holders("put"))

\* The content of the ring from getSlot to putSlot, for the refinement.
Queued == [i \in 1 .. n |-> events[(getSlot + i - 1) % size]]

EventFifo == INSTANCE BoundedFifo WITH
            Len_ <- size, Data <- Events, NoData <- NoEvent,
            items <- Queued, delivered <- taken

\* Events are executed in the order posted, each once, and none is lost when
\* the queue is full, a runner throws or a wakeup is spurious.
EventsInOrder == EventFifo!FifoSpec

=============================================================================
