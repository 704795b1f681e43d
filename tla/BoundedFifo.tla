---------------------------- MODULE BoundedFifo ----------------------------
(***************************************************************************)
(* What the store-and-forward buffer of the edge device promises: a queue  *)
(* of at most Capacity items, read in the order they were pushed, in which *)
(* a push into a full queue discards the oldest item and never the new     *)
(* one.  RingBuffer implements it with two indices and a count; EdgeLink   *)
(* uses it as the device's buffer.                                         *)
(***************************************************************************)
EXTENDS Integers, Sequences

CONSTANTS
    Capacity,   \* the number of items the queue can hold
    Item,       \* the items that can be queued
    Nothing     \* what a reader holds before it has read anything

VARIABLES
    queue,      \* the queued items, oldest first
    out         \* the item the last successful read returned

fifoVars == <<queue, out>>

-----------------------------------------------------------------------------
\* The queue after item v is pushed onto q.
Pushed(q, v) == Append(IF Len(q) = Capacity THEN Tail(q) ELSE q, v)

\* The queue after its oldest item, if any, is discarded.
WithoutFront(q) == IF q = <<>> THEN q ELSE Tail(q)

Init == queue = <<>> /\ out = Nothing

Push(v) == queue' = Pushed(queue, v) /\ UNCHANGED out

Peek == queue # <<>> /\ out' = Head(queue) /\ UNCHANGED queue

DropFront == queue' = WithoutFront(queue) /\ UNCHANGED out

Pop == queue # <<>> /\ out' = Head(queue) /\ queue' = Tail(queue)

Clear == queue' = <<>> /\ UNCHANGED out

Next == (\E v \in Item : Push(v)) \/ Peek \/ DropFront \/ Pop \/ Clear

Spec == Init /\ [][Next]_fifoVars
============================================================================
