------------------------------- MODULE Queue -------------------------------
(***************************************************************************)
(* kernel/queue.h, class Queue<T,len>: a ring buffer that moves data       *)
(* between two threads, or between one thread and an interrupt routine.    *)
(*                                                                         *)
(* Every operation runs with interrupts disabled from its entry to its     *)
(* return, except while a blocked caller sits in Thread::yield() inside    *)
(* FastInterruptEnableLock.  One action is one such critical section; the  *)
(* blocked caller's next section starts with the call of                   *)
(* IRQwakeWaitingThread() after the yield.                                 *)
(*                                                                         *)
(* A thread whose WAIT flag is clear may run at any moment: the scheduler  *)
(* is abstracted to the choice of any ready thread, so every priority      *)
(* assignment and every preemption is covered.  The hppw overloads only    *)
(* report a priority comparison to the caller and change no queue state.   *)
(***************************************************************************)
EXTENDS Integers, Sequences

CONSTANTS Length,      \* template parameter len
          Data,        \* elements carried by the queue
          NoData,      \* content of a never written slot
          Producer,    \* the thread that calls put()
          Consumer,    \* the thread that calls get()
          NoThread     \* a null Thread pointer

ASSUME QueueAssumption ==
    /\ Length \in Nat \ {0}                    \* Queue<T,0> is forbidden
    /\ NoData \notin Data
    /\ Producer # Consumer
    /\ NoThread \notin {Producer, Consumer}

Users == {Producer, Consumer}
Slots == 0 .. Length - 1

VARIABLES
    buffer,     \* T buffer[len]
    waiting,    \* Thread *waiting
    numElem, putPos, getPos,
    wait,       \* WAIT flag of each user
    call,       \* call each user is blocked in, "idle" when in none, "irq"
                \* when the user is an interrupt routine
    elem,       \* argument of the pending put()
    delivered   \* element returned by the latest successful get

queueVars == <<buffer, waiting, numElem, putPos, getPos, wait, call, elem, delivered>>

Calls == {"irq", "idle", "put", "get", "waitUntilNotFull", "waitUntilNotEmpty"}

QueueTypeOK ==
    /\ buffer \in [Slots -> Data \cup {NoData}]
    /\ waiting \in Users \cup {NoThread}
    /\ numElem \in 0 .. Length
    /\ putPos \in Slots
    /\ getPos \in Slots
    /\ wait \in [Users -> BOOLEAN]
    /\ call \in [Users -> Calls]
    /\ elem \in Data \cup {NoData}
    /\ delivered \in Data \cup {NoData}

\* The queue is used "between TWO threads, or between ONE thread and an IRQ".
QueueInit ==
    /\ buffer = [i \in Slots |-> NoData]   \* contents not read before written
    /\ waiting = NoThread
    /\ numElem = 0
    /\ putPos = 0
    /\ getPos = 0
    /\ wait = [t \in Users |-> FALSE]
    /\ \E isr \in Users \cup {NoThread} :
          call = [t \in Users |-> IF t = isr THEN "irq" ELSE "idle"]
    /\ elem = NoData
    /\ delivered = NoData
-----------------------------------------------------------------------------
isEmpty == numElem = 0

isFull == numElem = Length

\* if(++pos==len) pos=0;
Advance(pos) == IF pos + 1 = Length THEN 0 ELSE pos + 1

\* WAIT flags after IRQwakeWaitingThread(), which also nulls "waiting".
IRQwakeWaitingThread == [t \in Users |-> wait[t] /\ t # waiting]

\* The body shared by put() and IRQput() once there is room.
StoreElem(d) ==
    /\ numElem' = numElem + 1
    /\ buffer' = [buffer EXCEPT ![putPos] = d]
    /\ putPos' = Advance(putPos)
    /\ UNCHANGED <<getPos, delivered>>

\* The body shared by get() and IRQget() once there is an element.
TakeElem ==
    /\ numElem' = numElem - 1
    /\ delivered' = buffer[getPos]
    /\ getPos' = Advance(getPos)
    /\ UNCHANGED <<buffer, putPos>>

RingUnchanged == UNCHANGED <<buffer, numElem, putPos, getPos, delivered>>

\* Mutant: "waiting" is not updated when the caller goes to sleep.
BlockIn_NotRecorded(t, c) ==
    /\ waiting' = NoThread
    /\ wait' = [IRQwakeWaitingThread EXCEPT ![t] = TRUE]
    /\ call' = [call EXCEPT ![t] = c]
    /\ RingUnchanged

\* while(...) { waiting=current; IRQwait(); yield } : t goes to sleep inside
\* call c, having first woken whoever was waiting.
BlockIn(t, c) ==
    /\ waiting' = t
    /\ wait' = [IRQwakeWaitingThread EXCEPT ![t] = TRUE]
    /\ call' = [call EXCEPT ![t] = c]
    /\ RingUnchanged

\* The call returns, having woken whoever was waiting.
ReturnFrom(t) ==
    /\ waiting' = NoThread
    /\ wait' = IRQwakeWaitingThread
    /\ call' = [call EXCEPT ![t] = "idle"]

\* A user may enter a section of call c: it starts the call, or it is
\* blocked in it and has been woken.
MayRun(t, c) == call[t] \in {"idle", c} /\ ~wait[t]
-----------------------------------------------------------------------------
put(d) ==
    /\ MayRun(Producer, "put")
    /\ call[Producer] = "put" => d = elem
    /\ \/ isFull /\ BlockIn(Producer, "put") /\ elem' = d
       \/ ~isFull /\ StoreElem(d) /\ ReturnFrom(Producer) /\ elem' = NoData

get ==
    /\ MayRun(Consumer, "get")
    /\ \/ isEmpty /\ BlockIn(Consumer, "get")
       \/ ~isEmpty /\ TakeElem /\ ReturnFrom(Consumer)
    /\ UNCHANGED elem

waitUntilNotFull ==
    /\ MayRun(Producer, "waitUntilNotFull")
    /\ \/ isFull /\ BlockIn(Producer, "waitUntilNotFull")
       \/ ~isFull /\ RingUnchanged /\ ReturnFrom(Producer)
    /\ UNCHANGED elem

waitUntilNotEmpty ==
    /\ MayRun(Consumer, "waitUntilNotEmpty")
    /\ \/ isEmpty /\ BlockIn(Consumer, "waitUntilNotEmpty")
       \/ ~isEmpty /\ RingUnchanged /\ ReturnFrom(Consumer)
    /\ UNCHANGED elem

\* Mutant: the ISR overwrites the oldest slot when the queue is full.
IRQput_Overwrites(d) ==
    /\ call[Producer] = "irq"
    /\ waiting' = NoThread
    /\ wait' = IRQwakeWaitingThread
    /\ \/ isFull /\ buffer' = [buffer EXCEPT ![putPos] = d]
               /\ UNCHANGED <<numElem, putPos, getPos, delivered>>
       \/ ~isFull /\ StoreElem(d)
    /\ UNCHANGED <<call, elem>>

\* Both IRQput overloads: an ISR never waits, it fails on a full queue.
IRQput(d) ==
    /\ call[Producer] = "irq"
    /\ waiting' = NoThread
    /\ wait' = IRQwakeWaitingThread
    /\ \/ isFull /\ RingUnchanged
       \/ ~isFull /\ StoreElem(d)
    /\ UNCHANGED <<call, elem>>

IRQget ==
    /\ call[Consumer] = "irq"
    /\ waiting' = NoThread
    /\ wait' = IRQwakeWaitingThread
    /\ \/ isEmpty /\ RingUnchanged
       \/ ~isEmpty /\ TakeElem
    /\ UNCHANGED <<call, elem>>

\* Mutant: the queue is emptied but a producer waiting for room stays asleep.
IRQreset_NoWakeup ==
    /\ \E t \in Users : call[t] \in {"irq", "idle"}
    /\ putPos' = 0 /\ getPos' = 0 /\ numElem' = 0
    /\ UNCHANGED <<buffer, waiting, wait, call, elem, delivered>>

\* reset() by an idle user, IRQreset() by an ISR.
IRQreset ==
    /\ \E t \in Users : call[t] \in {"irq", "idle"}
    /\ waiting' = NoThread
    /\ wait' = IRQwakeWaitingThread
    /\ putPos' = 0 /\ getPos' = 0 /\ numElem' = 0
    /\ UNCHANGED <<buffer, call, elem, delivered>>

\* Any other code may call wakeup() on a blocked user: the reason for the
\* while loops around the waits.
SpuriousWakeup(t) ==
    /\ wait[t]
    /\ wait' = [wait EXCEPT ![t] = FALSE]
    /\ UNCHANGED <<buffer, waiting, numElem, putPos, getPos, call, elem, delivered>>

PutCalls == (\E d \in Data : put(d)) \/ waitUntilNotFull
GetCalls == get \/ waitUntilNotEmpty

QueueNext ==
    \/ PutCalls
    \/ GetCalls
    \/ \E d \in Data : IRQput(d)
    \/ IRQget
    \/ IRQreset
    \/ \E t \in Users : SpuriousWakeup(t)

QueueSpec == QueueInit /\ [][QueueNext]_queueVars

\* A ready thread is eventually given the CPU; whether a user starts a new
\* call is up to it, so only the sections of a pending call are fair.
QueueFairSpec ==
    /\ QueueSpec
    /\ WF_queueVars(call[Producer] # "idle" /\ PutCalls)
    /\ WF_queueVars(call[Consumer] # "idle" /\ GetCalls)
-----------------------------------------------------------------------------
(* Properties *)

\* A user is asleep only while its call cannot proceed, and it is then the
\* thread the next operation on the other end will wake: the single
\* "waiting" pointer never loses one of the two users.
NoLostWakeup ==
    /\ wait[Producer] => waiting = Producer /\ isFull
    /\ wait[Consumer] => waiting = Consumer /\ isEmpty

\* The three ring buffer cursors agree: putPos is numElem slots ahead of
\* getPos, modulo the wrap at Length.
RingConsistent ==
    putPos = IF getPos + numElem < Length THEN getPos + numElem
                                          ELSE getPos + numElem - Length

\* The elements held, oldest first.
Items == [i \in 1 .. numElem |->
            buffer[IF getPos + i - 1 < Length THEN getPos + i - 1
                                              ELSE getPos + i - 1 - Length]]

Fifo == INSTANCE BoundedFifo WITH items <- Items, Len_ <- Length

\* The ring buffer, with its blocking and interrupt entry points, is a
\* first-in first-out queue: get() returns what put() stored, in order.
ImplementsFifo == Fifo!FifoSpec

\* A consumer blocked in get() while elements keep being available, and a
\* producer blocked in put() while room keeps being available, return.
BlockedCallsReturn ==
    /\ (call[Consumer] = "get" /\ ~isEmpty) ~> (call[Consumer] = "idle" \/ isEmpty)
    /\ (call[Producer] = "put" /\ ~isFull)  ~> (call[Producer] = "idle" \/ isFull)
=============================================================================
