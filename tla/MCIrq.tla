------------------------------- MODULE MCIrq -------------------------------
(***************************************************************************)
(* Instances for TLC of the three components that share their state with   *)
(* interrupt routines: a behaviour is of one of them, the others rest.     *)
(*                                                                         *)
(* OsTimer: with a counter of a few ticks every alignment of a wrap with   *)
(* the register accesses occurs within two or three periods.  Queue: two   *)
(* elements are told apart, so that a lost, duplicated or swapped one is   *)
(* seen; at capacity 3 the cursors wrap at every fill level.               *)
(* FixedEventQueue: two posters and two runners, so that each list can     *)
(* hold two threads and a wakeup can be overtaken, and two slots, so that  *)
(* the queue is empty, half full and full.                                 *)
(***************************************************************************)
EXTENDS OsTimer, Queue, FixedEventQueue

VARIABLE subject    \* the component the behaviour is of

irqVars == <<vars, queueVars, fixedVars, subject>>

Timer(A)  == subject = "timer" /\ A /\ UNCHANGED <<queueVars, fixedVars, subject>>
Queues(A) == subject = "queue" /\ A /\ UNCHANGED <<vars, fixedVars, subject>>
Fixed(A)  == subject = "events" /\ A /\ UNCHANGED <<vars, queueVars, subject>>

IrqInit ==
    /\ subject \in {"timer", "queue", "events"}
    /\ Init /\ QueueInit /\ FixedInit
    /\ subject # "queue" => \A t \in Users : call[t] = "idle"

IrqNext == Timer(Next) \/ Queues(QueueNext) \/ Fixed(FixedNext)

\* The fairness of QueueFairSpec.
IrqFairSpec ==
    /\ IrqInit /\ [][IrqNext]_irqVars
    /\ WF_irqVars(Queues(call[Producer] # "idle" /\ PutCalls))
    /\ WF_irqVars(Queues(call[Consumer] # "idle" /\ GetCalls))
=============================================================================
