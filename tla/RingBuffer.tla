----------------------------- MODULE RingBuffer -----------------------------
(***************************************************************************)
(* TelemetryRingBuffer (edge/ring_buffer.cpp): the device's bounded        *)
(* telemetry buffer, as the array, the two indices and the count the code  *)
(* keeps.  One action per method; each call runs to its end on the one     *)
(* firmware thread, so a call is one step.                                 *)
(*                                                                         *)
(* A payload is a record of an identity and its length in bytes: the only  *)
(* thing strncpy does to it is to cut it to the destination.               *)
(***************************************************************************)
EXTENDS Integers, Sequences

CONSTANTS
    Capacity,     \* RING_BUFFER_CAPACITY
    MaxPayload,   \* MAX_PAYLOAD_SIZE, which counts the terminating NUL
    Ids,          \* identities of payloads
    Lengths,      \* lengths a caller's payload may have
    Garbage,      \* the content of a slot nobody has written
    Nothing       \* what a reader holds before its first successful read

ASSUME CapacityAssumption == Capacity \in Nat \ {0}
ASSUME PayloadAssumption  == MaxPayload \in Nat \ {0} /\ Lengths \subseteq Nat

\* Every payload that fits a slot with its terminating NUL.
Stored == [id : Ids, len : 0 .. MaxPayload - 1]
ASSUME SentinelAssumption == Garbage \notin Stored /\ Nothing \notin Stored

VARIABLES slots, head, tail, count, out

vars == <<slots, head, tail, count, out>>

Index == 0 .. Capacity - 1

-----------------------------------------------------------------------------
\* strncpy(dst, p, MaxPayload - 1) followed by the terminating NUL.
Clip(p) == [p EXCEPT !.len = IF @ < MaxPayload THEN @ ELSE MaxPayload - 1]

isEmpty == count = 0

\* Mutant: the boundary is missed by one.
IsFullLate == count > Capacity

isFull == count >= Capacity

\* The index i places after index h.
Slot(h, i) == (h + i) % Capacity

NextIndex(i) == Slot(i, 1)

-----------------------------------------------------------------------------
Init ==
    /\ slots = [i \in Index |-> Garbage]
    /\ head = 0 /\ tail = 0 /\ count = 0
    /\ out = Nothing

\* Mutant: in a full buffer the new payload overwrites the newest one, not the oldest.
PushReplacesNewest(p) ==
    IF isFull
    THEN /\ slots' = [slots EXCEPT ![Slot(head, count - 1)] = Clip(p)]
         /\ UNCHANGED <<head, tail, count, out>>
    ELSE /\ slots' = [slots EXCEPT ![tail] = Clip(p)]
         /\ tail' = NextIndex(tail)
         /\ count' = count + 1
         /\ UNCHANGED <<head, out>>

\* Mutant: a full buffer is overwritten without moving the head.
PushKeepsHead(p) ==
    /\ slots' = [slots EXCEPT ![tail] = Clip(p)]
    /\ tail' = NextIndex(tail)
    /\ count' = IF isFull THEN count ELSE count + 1
    /\ UNCHANGED <<head, out>>

\* Mutant: the tail moves before the payload is copied.
PushAdvancesFirst(p) ==
    /\ head' = IF isFull THEN NextIndex(head) ELSE head
    /\ slots' = [slots EXCEPT ![NextIndex(tail)] = Clip(p)]
    /\ tail' = NextIndex(tail)
    /\ count' = (IF isFull THEN count - 1 ELSE count) + 1
    /\ UNCHANGED out

\* push: a full buffer first loses the payload at the head.
push(p) ==
    /\ head' = IF isFull THEN NextIndex(head) ELSE head
    /\ slots' = [slots EXCEPT ![tail] = Clip(p)]
    /\ tail' = NextIndex(tail)
    /\ count' = (IF isFull THEN count - 1 ELSE count) + 1
    /\ UNCHANGED out

\* peek: into a caller's buffer of MaxPayload bytes, as flushBufferedTelemetry does.
peek ==
    /\ ~isEmpty
    /\ out' = Clip(slots[head])
    /\ UNCHANGED <<slots, head, tail, count>>

dropFront ==
    /\ ~isEmpty
    /\ head' = NextIndex(head)
    /\ count' = count - 1
    /\ UNCHANGED <<slots, tail, out>>

\* pop: peek, then dropFront.
pop ==
    /\ ~isEmpty
    /\ out' = Clip(slots[head])
    /\ head' = NextIndex(head)
    /\ count' = count - 1
    /\ UNCHANGED <<slots, tail>>

\* clear resets the indices and leaves the slots as they are.
clear ==
    /\ head' = 0 /\ tail' = 0 /\ count' = 0
    /\ UNCHANGED <<slots, out>>

Next ==
    \/ \E id \in Ids, n \in Lengths : push([id |-> id, len |-> n])
    \/ peek
    \/ dropFront
    \/ pop
    \/ clear

Spec == Init /\ [][Next]_vars

-----------------------------------------------------------------------------
\* Every variable keeps its type: in particular the indices stay inside the
\* array and the count never exceeds RING_BUFFER_CAPACITY.
TypeOK ==
    /\ slots \in [Index -> Stored \cup {Garbage}]
    /\ head \in Index
    /\ tail \in Index
    /\ count \in 0 .. Capacity
    /\ out \in Stored \cup {Nothing}

\* The count, which the code keeps beside the two indices, never disagrees with
\* them, over any sequence of push, pop, dropFront and clear.
IndicesAgree == tail = Slot(head, count)

\* The slots from the head on, as many as count says.
Live(i) == slots[Slot(head, i)]

\* No reader can be handed a slot of the array that was never written: every slot
\* the count covers, on either side of the wrap, holds a payload.
LiveSlotsWritten == \A i \in 0 .. count - 1 : Live(i) \in Stored

\* The queue the array and the indices stand for.
Contents == [i \in 1 .. count |-> Live(i - 1)]

Fifo == INSTANCE BoundedFifo WITH queue <- Contents, Item <- Stored

\* The ring buffer is a drop-oldest FIFO: every method does to Contents what the
\* abstract queue's operation does.
ImplementsFifo == Fifo!Spec
============================================================================
