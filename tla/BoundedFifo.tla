---------------------------- MODULE BoundedFifo ----------------------------
(***************************************************************************)
(* What Queue<T,len> promises its two users: a first-in first-out store    *)
(* of at most Len elements.  Nothing is lost, duplicated or reordered, and *)
(* the only way elements disappear unread is reset().                      *)
(***************************************************************************)
EXTENDS Naturals, Sequences

CONSTANTS Len_,      \* capacity of the queue
          Data,      \* elements
          NoData     \* "nothing delivered yet"

VARIABLES items,     \* elements put and not yet got, oldest first
          delivered  \* the element returned by the most recent get

fifoVars == <<items, delivered>>

FifoInit == items = <<>> /\ delivered = NoData

FifoPut == /\ Len(items) < Len_
           /\ \E d \in Data : items' = Append(items, d)
           /\ UNCHANGED delivered

FifoGet == /\ items # <<>>
           /\ delivered' = Head(items)
           /\ items' = Tail(items)

FifoReset == items' = <<>> /\ UNCHANGED delivered

FifoNext == FifoPut \/ FifoGet \/ FifoReset

FifoSpec == FifoInit /\ [][FifoNext]_fifoVars
=============================================================================
