-------------------------- MODULE RingBufferProofs --------------------------
(***************************************************************************)
(* For every capacity, payload size and set of payloads: the indices and   *)
(* the count of the ring buffer never disagree, no unwritten slot is ever  *)
(* readable, and the ring buffer implements BoundedFifo.                   *)
(***************************************************************************)
EXTENDS RingBuffer, SequenceTheorems, TLAPS

USE CapacityAssumption, PayloadAssumption, SentinelAssumption

\* The three invariants are inductive only together: LiveSlotsWritten survives a
\* push because IndicesAgree makes the tail the slot after the last live one.
IInv == TypeOK /\ IndicesAgree /\ LiveSlotsWritten

-----------------------------------------------------------------------------
\* An offset of at most Capacity from an index wraps at most once.
LEMMA SlotWraps ==
    ASSUME NEW h \in Index, NEW i \in 0 .. Capacity
    PROVE  /\ Slot(h, i) = IF h + i < Capacity THEN h + i ELSE h + i - Capacity
           /\ Slot(h, i) \in Index
<1>1. CASE h + i < Capacity
  BY <1>1 DEF Index, Slot
<1>2. CASE h + i >= Capacity
  <2>1. PICK a \in Index : h + i = a + Capacity
    BY <1>2 DEF Index
  <2>2. (a + Capacity) % Capacity = a
    BY DEF Index
  <2>3. a = h + i - Capacity
    BY <2>1 DEF Index
  <2>4. ~(h + i < Capacity)
    BY <1>2 DEF Index
  <2> QED BY <2>1, <2>2, <2>3, <2>4 DEF Slot
<1> QED BY <1>1, <1>2 DEF Index

\* The successor of an index, with the wrap made explicit.
LEMMA NextIndexWraps ==
    ASSUME NEW h \in Index
    PROVE  /\ NextIndex(h) = IF h + 1 < Capacity THEN h + 1 ELSE 0
           /\ NextIndex(h) \in Index
<1>1. 1 \in 0 .. Capacity
  OBVIOUS
<1>2. /\ Slot(h, 1) = IF h + 1 < Capacity THEN h + 1 ELSE h + 1 - Capacity
      /\ Slot(h, 1) \in Index
  BY <1>1, SlotWraps
<1>3. ~(h + 1 < Capacity) => h + 1 - Capacity = 0
  BY DEF Index
<1> QED BY <1>2, <1>3 DEF NextIndex

\* The slots i places after the next index are those i + 1 places after this one,
\* and the last of them is the index itself.
LEMMA SlotShift ==
    ASSUME NEW h \in Index, NEW i \in 0 .. Capacity - 1
    PROVE  /\ Slot(NextIndex(h), i) = Slot(h, i + 1)
           /\ (Slot(h, i + 1) = h) <=> (i = Capacity - 1)
<1>1. /\ Slot(h, i + 1) = IF h + (i + 1) < Capacity THEN h + (i + 1) ELSE h + (i + 1) - Capacity
      /\ Slot(NextIndex(h), i) = IF NextIndex(h) + i < Capacity
                                 THEN NextIndex(h) + i ELSE NextIndex(h) + i - Capacity
      /\ NextIndex(h) = IF h + 1 < Capacity THEN h + 1 ELSE 0
      /\ NextIndex(h) \in Index
  <2>1. i + 1 \in 0 .. Capacity /\ i \in 0 .. Capacity
    OBVIOUS
  <2> QED BY <2>1, SlotWraps, NextIndexWraps
<1>2. h \in 0 .. Capacity - 1
  BY DEF Index
<1> QED BY <1>1, <1>2

\* The successor of the slot at an offset is the slot at the next offset.
LEMMA SlotSuccessor ==
    ASSUME NEW h \in Index, NEW i \in 0 .. Capacity - 1
    PROVE  NextIndex(Slot(h, i)) = Slot(h, i + 1)
<1>1. /\ Slot(h, i + 1) = IF h + (i + 1) < Capacity THEN h + (i + 1) ELSE h + (i + 1) - Capacity
      /\ Slot(h, i) = IF h + i < Capacity THEN h + i ELSE h + i - Capacity
      /\ Slot(h, i) \in Index
      /\ NextIndex(Slot(h, i)) = IF Slot(h, i) + 1 < Capacity THEN Slot(h, i) + 1 ELSE 0
  <2>1. i + 1 \in 0 .. Capacity /\ i \in 0 .. Capacity
    OBVIOUS
  <2>2. Slot(h, i) \in Index
    BY <2>1, SlotWraps
  <2> QED BY <2>1, <2>2, SlotWraps, NextIndexWraps
<1>2. h \in 0 .. Capacity - 1
  BY DEF Index
<1> QED BY <1>1, <1>2

\* A whole turn, like no move at all, ends where it started.
LEMMA SlotEnds ==
    ASSUME NEW h \in Index
    PROVE  Slot(h, 0) = h /\ Slot(h, Capacity) = h
<1>1. 0 \in 0 .. Capacity /\ Capacity \in 0 .. Capacity
  OBVIOUS
<1>2. /\ Slot(h, 0) = IF h + 0 < Capacity THEN h + 0 ELSE h + 0 - Capacity
      /\ Slot(h, Capacity) = IF h + Capacity < Capacity
                             THEN h + Capacity ELSE h + Capacity - Capacity
  BY <1>1, SlotWraps
<1> QED BY <1>2 DEF Index

\* Different offsets below Capacity reach different slots.
LEMMA SlotInjective ==
    ASSUME NEW h \in Index, NEW i \in 0 .. Capacity - 1, NEW j \in 0 .. Capacity - 1,
           j < i
    PROVE  Slot(h, i) # Slot(h, j)
<1>1. i \in 0 .. Capacity /\ j \in 0 .. Capacity
  OBVIOUS
<1>2. /\ Slot(h, i) = IF h + i < Capacity THEN h + i ELSE h + i - Capacity
      /\ Slot(h, j) = IF h + j < Capacity THEN h + j ELSE h + j - Capacity
  BY <1>1, SlotWraps
<1>3. h \in 0 .. Capacity - 1
  BY DEF Index
<1> QED BY <1>2, <1>3

\* Clipping a caller's payload makes it fit, and leaves alone one that fits.
LEMMA ClipFits ==
    /\ \A id \in Ids, n \in Lengths : Clip([id |-> id, len |-> n]) \in Stored
    /\ \A p \in Stored : Clip(p) = p
BY DEF Clip, Stored

-----------------------------------------------------------------------------
\* An empty buffer satisfies the invariant whatever its slots hold.
LEMMA InitIInv == Init => IInv
BY SlotEnds DEF Init, IInv, TypeOK, IndicesAgree, LiveSlotsWritten, Index

\* Every method of the ring buffer preserves the invariant.
LEMMA NextIInv == IInv /\ [Next]_vars => IInv'
<1> SUFFICES ASSUME IInv, [Next]_vars
             PROVE  IInv'
  OBVIOUS
<1> USE DEF IInv, TypeOK
<1>1. ASSUME NEW id \in Ids, NEW n \in Lengths, push([id |-> id, len |-> n])
      PROVE  IInv'
  <2> DEFINE v == Clip([id |-> id, len |-> n])
  <2>1. v \in Stored
    BY ClipFits
  <2>2. CASE isFull
    <3>1. count = Capacity /\ tail = head
      BY <2>2, SlotEnds DEF isFull, IndicesAgree
    <3>2. /\ head' = NextIndex(head) /\ tail' = NextIndex(head) /\ count' = Capacity
          /\ slots' = [slots EXCEPT ![head] = v] /\ out' = out
      BY <1>1, <2>2, <3>1 DEF push
    <3>3. TypeOK'
      BY <2>1, <3>2, NextIndexWraps
    <3>4. IndicesAgree'
      BY <3>2, NextIndexWraps, SlotEnds DEF IndicesAgree
    <3>5. LiveSlotsWritten'
      <4> SUFFICES ASSUME NEW i \in 0 .. Capacity - 1
                   PROVE  slots'[Slot(head', i)] \in Stored
        BY <3>2 DEF LiveSlotsWritten, Live
      <4>1. CASE i = Capacity - 1
        <5>1. Slot(head', i) = head
          BY <4>1, <3>2, SlotShift
        <5> QED BY <5>1, <3>2, <2>1
      <4>2. CASE i # Capacity - 1
        <5>1. /\ Slot(head', i) = Slot(head, i + 1)
              /\ Slot(head', i) # head
              /\ i + 1 \in 0 .. count - 1
          BY <4>2, <3>1, <3>2, SlotShift
        <5>2. slots[Slot(head, i + 1)] \in Stored
          BY <5>1 DEF LiveSlotsWritten, Live
        <5> QED BY <5>1, <5>2, <3>2
      <4> QED BY <4>1, <4>2
    <3> QED BY <3>3, <3>4, <3>5
  <2>3. CASE ~isFull
    <3>1. /\ head' = head /\ tail' = NextIndex(tail) /\ count' = count + 1
          /\ slots' = [slots EXCEPT ![tail] = v] /\ out' = out
          /\ count < Capacity
      BY <1>1, <2>3 DEF push, isFull
    <3>2. TypeOK'
      BY <2>1, <3>1, NextIndexWraps
    <3>3. IndicesAgree'
      BY <3>1, SlotSuccessor DEF IndicesAgree
    <3>4. LiveSlotsWritten'
      <4> SUFFICES ASSUME NEW i \in 0 .. count
                   PROVE  slots'[Slot(head, i)] \in Stored
        BY <3>1 DEF LiveSlotsWritten, Live
      <4>1. CASE i = count
        BY <4>1, <3>1, <2>1 DEF IndicesAgree
      <4>2. CASE i # count
        <5>1. slots[Slot(head, i)] \in Stored
          BY <4>2 DEF LiveSlotsWritten, Live
        <5> QED BY <5>1, <3>1, <2>1, SlotWraps
      <4> QED BY <4>1, <4>2
    <3> QED BY <3>2, <3>3, <3>4
  <2> QED BY <2>2, <2>3
<1>2. CASE peek
  <2>1. slots[head] \in Stored
    BY <1>2, SlotEnds DEF peek, isEmpty, LiveSlotsWritten, Live
  <2> QED BY <1>2, <2>1, ClipFits DEF peek, IndicesAgree, LiveSlotsWritten, Live
<1>3. ASSUME ~isEmpty, head' = NextIndex(head), count' = count - 1,
             UNCHANGED <<slots, tail>>, out' \in Stored \cup {Nothing}
      PROVE  IInv'
  <2>1. TypeOK'
    BY <1>3, NextIndexWraps DEF isEmpty
  <2>2. \A i \in 0 .. count - 1 : Slot(head', i) = Slot(head, i + 1)
    BY <1>3, SlotShift
  <2>3. IndicesAgree'
    BY <1>3, <2>2 DEF IndicesAgree, isEmpty
  <2>4. LiveSlotsWritten'
    BY <1>3, <2>2 DEF LiveSlotsWritten, Live
  <2> QED BY <2>1, <2>3, <2>4
<1>4. CASE dropFront
  BY <1>3, <1>4 DEF dropFront
<1>5. CASE pop
  <2>1. slots[head] \in Stored
    BY <1>5, SlotEnds DEF pop, isEmpty, LiveSlotsWritten, Live
  <2> QED BY <1>3, <1>5, <2>1, ClipFits DEF pop
<1>6. CASE clear
  BY <1>6, SlotEnds DEF clear, IndicesAgree, LiveSlotsWritten, Index
<1>7. CASE UNCHANGED vars
  BY <1>7 DEF vars, IndicesAgree, LiveSlotsWritten, Live
<1> QED BY <1>1, <1>2, <1>4, <1>5, <1>6, <1>7 DEF Next

\* The indices and the count stay in range, for every capacity: TypeOK of RingBuffer.
THEOREM RingTypeCorrect == Spec => []TypeOK
<1>1. IInv => TypeOK
  BY DEF IInv
<1> QED BY <1>1, InitIInv, NextIInv, PTL DEF Spec

\* head, tail and count of TelemetryRingBuffer never disagree.
THEOREM RingIndicesAgree == Spec => []IndicesAgree
<1>1. IInv => IndicesAgree
  BY DEF IInv
<1> QED BY <1>1, InitIInv, NextIInv, PTL DEF Spec

\* peek and pop never return a slot that no push has written.
THEOREM RingNeverReadsGarbage == Spec => []LiveSlotsWritten
<1>1. IInv => LiveSlotsWritten
  BY DEF IInv
<1> QED BY <1>1, InitIInv, NextIInv, PTL DEF Spec

-----------------------------------------------------------------------------
\* The queue that the array stands for, as a sequence.
LEMMA ContentsIsQueue ==
    IInv => /\ Contents \in Seq(Stored)
            /\ Len(Contents) = count
            /\ \A i \in 1 .. count : Contents[i] = Live(i - 1)
<1> SUFFICES ASSUME IInv
             PROVE  /\ Contents \in [1 .. count -> Stored]
                    /\ count \in Nat
                    /\ \A i \in 1 .. count : Contents[i] = Live(i - 1)
  BY SeqDef
<1>1. count \in Nat /\ \A i \in 1 .. count : i - 1 \in 0 .. count - 1
  BY DEF IInv, TypeOK
<1>2. \A i \in 1 .. count : Live(i - 1) \in Stored
  BY <1>1 DEF IInv, LiveSlotsWritten
<1> QED BY <1>1, <1>2 DEF Contents

\* The same, of the state after a step.
LEMMA ContentsIsQueueAfter ==
    IInv' => /\ Contents' \in Seq(Stored)
             /\ Len(Contents') = count'
             /\ \A i \in 1 .. count' : Contents'[i] = slots'[Slot(head', i - 1)]
<1> SUFFICES ASSUME IInv'
             PROVE  /\ Contents' \in [1 .. count' -> Stored]
                    /\ count' \in Nat
                    /\ \A i \in 1 .. count' : Contents'[i] = slots'[Slot(head', i - 1)]
  BY SeqDef
<1>1. count' \in Nat /\ \A i \in 1 .. count' : i - 1 \in 0 .. count' - 1
  <2>1. TypeOK'
    BY DEF IInv
  <2>2. count' \in 0 .. Capacity
    BY <2>1 DEF TypeOK
  <2>3. count' \in Nat
    BY <2>2
  <2>4. \A n \in Nat : \A i \in 1 .. n : i - 1 \in 0 .. n - 1
    OBVIOUS
  <2> QED BY <2>3, <2>4
<1>2. \A i \in 1 .. count' : slots'[Slot(head', i - 1)] \in Stored
  BY <1>1 DEF IInv, LiveSlotsWritten, Live
<1> QED BY <1>1, <1>2 DEF Contents, Live

\* The oldest payload is the one at the head.
LEMMA FrontIsHead ==
    ASSUME IInv, count # 0
    PROVE  /\ Contents # <<>>
           /\ Head(Contents) = slots[head]
           /\ slots[head] \in Stored
<1>1. 1 \in 1 .. count /\ 0 \in 0 .. count - 1
  BY DEF IInv, TypeOK
<1>2. Live(0) = slots[head] /\ Live(0) \in Stored
  BY <1>1, SlotEnds DEF IInv, TypeOK, Live, LiveSlotsWritten
<1>3. Contents[1] = Live(1 - 1)
  BY <1>1, ContentsIsQueue
<1> QED BY <1>1, <1>2, <1>3, ContentsIsQueue, EmptySeq

\* dropFront, and the second half of pop, remove the oldest payload.
LEMMA AdvanceDropsFront ==
    ASSUME IInv, IInv', count # 0, head' = NextIndex(head), count' = count - 1,
           slots' = slots
    PROVE  Contents' = Tail(Contents)
<1>1. /\ Contents' \in Seq(Stored) /\ Len(Contents') = count - 1
      /\ \A i \in 1 .. count - 1 : Contents'[i] = slots[Slot(NextIndex(head), i - 1)]
  BY ContentsIsQueueAfter
<1>2. /\ Contents \in Seq(Stored) /\ Len(Contents) = count /\ Contents # <<>>
      /\ \A i \in 1 .. count : Contents[i] = slots[Slot(head, i - 1)]
  BY ContentsIsQueue, FrontIsHead DEF Live
<1>3. /\ Tail(Contents) \in Seq(Stored) /\ Len(Tail(Contents)) = count - 1
      /\ \A i \in 1 .. count - 1 : Tail(Contents)[i] = Contents[i + 1]
  BY <1>2, HeadTailProperties
<1>4. ASSUME NEW i \in 1 .. count - 1
      PROVE  Contents'[i] = Tail(Contents)[i]
  <2>1. /\ count \in 0 .. Capacity /\ head \in Index
    BY DEF IInv, TypeOK
  <2>2. i - 1 \in 0 .. Capacity - 1 /\ i + 1 \in 1 .. count /\ (i - 1) + 1 = i /\ (i + 1) - 1 = i
    BY <2>1
  <2>3. Slot(NextIndex(head), i - 1) = Slot(head, i)
    BY <2>1, <2>2, SlotShift
  <2>4. Contents[i + 1] = slots[Slot(head, i)]
    <3>1. Contents[i + 1] = slots[Slot(head, (i + 1) - 1)]
      BY <1>2, <2>2
    <3> QED BY <3>1, <2>2
  <2> QED BY <1>1, <1>3, <2>3, <2>4
<1> QED BY <1>1, <1>3, <1>4, SeqEqual

-----------------------------------------------------------------------------
\* What push does to the queue: the payload, clipped, goes to the end, and a full
\* queue loses its front.
LEMMA PushAppends ==
    ASSUME IInv, IInv', NEW id \in Ids, NEW n \in Lengths, push([id |-> id, len |-> n])
    PROVE  Contents' = Fifo!Pushed(Contents, Clip([id |-> id, len |-> n]))
<1> DEFINE v    == Clip([id |-> id, len |-> n])
           kept == IF Len(Contents) = Capacity THEN Tail(Contents) ELSE Contents
<1>1. /\ v \in Stored
      /\ head \in Index /\ tail = Slot(head, count)
      /\ count \in 0 .. Capacity /\ tail \in Index /\ slots \in [Index -> Stored \cup {Garbage}]
  BY ClipFits DEF IInv, TypeOK, IndicesAgree
<1>2. /\ Contents \in Seq(Stored) /\ Len(Contents) = count
      /\ \A i \in 1 .. count : Contents[i] = slots[Slot(head, i - 1)]
  BY ContentsIsQueue DEF Live
<1>3. /\ Contents' \in Seq(Stored) /\ Len(Contents') = count'
      /\ \A i \in 1 .. count' : Contents'[i] = slots'[Slot(head', i - 1)]
  BY ContentsIsQueueAfter
<1>4. slots' = [slots EXCEPT ![tail] = v]
  BY DEF push
<1>5. CASE count = Capacity
  <2>1. head' = NextIndex(head) /\ count' = Capacity
    BY <1>5 DEF push, isFull
  <2>2. Contents # <<>>
    BY <1>5, FrontIsHead
  <2>3. /\ kept \in Seq(Stored) /\ Len(kept) = Capacity - 1
        /\ \A i \in 1 .. Capacity - 1 : kept[i] = slots[Slot(head, i)]
    <3>1. /\ Tail(Contents) \in Seq(Stored) /\ Len(Tail(Contents)) = Capacity - 1
          /\ \A i \in 1 .. Capacity - 1 : Tail(Contents)[i] = Contents[i + 1]
      BY <1>2, <1>5, <2>2, HeadTailProperties
    <3>2. \A i \in 1 .. Capacity - 1 : i + 1 \in 1 .. count /\ (i + 1) - 1 = i
      BY <1>5
    <3> QED BY <3>1, <3>2, <1>2, <1>5
  <2>4. ASSUME NEW i \in 1 .. Capacity
        PROVE  Contents'[i] = Append(kept, v)[i]
    <3>1. /\ i - 1 \in 0 .. Capacity - 1 /\ (i - 1) + 1 = i
          /\ Contents'[i] = slots'[Slot(head', i - 1)]
      BY <1>3, <2>1
    <3>2. Slot(head', i - 1) = Slot(head, i) /\ ((Slot(head, i) = head) <=> (i = Capacity))
      BY <3>1, <2>1, <1>1, SlotShift
    <3>3. tail = head
      BY <1>1, <1>5, SlotEnds
    <3>4. Slot(head, i) \in Index
      BY <1>1, SlotWraps
    <3>5. CASE i = Capacity
      <4>1. Contents'[i] = v
        BY <3>1, <3>2, <3>3, <3>5, <1>1, <1>4
      <4>2. Append(kept, v)[Len(kept) + 1] = v /\ Len(kept) + 1 = i
        BY <2>3, <3>5
      <4> QED BY <4>1, <4>2
    <3>6. CASE i # Capacity
      <4>1. i \in 1 .. Capacity - 1
        BY <3>6
      <4>2. Contents'[i] = slots[Slot(head, i)]
        BY <3>1, <3>2, <3>3, <3>4, <3>6, <1>1, <1>4
      <4>3. Append(kept, v)[i] = kept[i]
        BY <4>1, <2>3
      <4> QED BY <4>1, <4>2, <4>3, <2>3
    <3> QED BY <3>5, <3>6
  <2>5. Append(kept, v) \in Seq(Stored) /\ Len(Append(kept, v)) = Capacity
    BY <2>3, <1>1
  <2>6. Contents' = Append(kept, v)
    BY <2>1, <2>4, <2>5, <1>3, SeqEqual
  <2> QED BY <2>6 DEF Fifo!Pushed
<1>6. CASE count # Capacity
  <2>1. head' = head /\ count' = count + 1 /\ count + 1 \in 1 .. Capacity
    BY <1>6, <1>1 DEF push, isFull
  <2>2. kept = Contents
    BY <1>2, <1>6
  <2>3. ASSUME NEW i \in 1 .. count + 1
        PROVE  Contents'[i] = Append(Contents, v)[i]
    <3>1. Contents'[i] = slots'[Slot(head, i - 1)]
      BY <1>3, <2>1
    <3>2. CASE i = count + 1
      <4>1. i - 1 = count
        BY <3>2, <1>1
      <4> QED BY <3>1, <3>2, <4>1, <1>1, <1>2, <1>4
    <3>3. CASE i # count + 1
      <4>1. /\ i \in 1 .. count /\ i - 1 \in 0 .. Capacity - 1
            /\ i - 1 < count /\ count \in 0 .. Capacity - 1
        BY <3>3, <1>1, <1>6
      <4>2. Slot(head, count) # Slot(head, i - 1) /\ Slot(head, i - 1) \in Index
        BY <4>1, <1>1, SlotInjective, SlotWraps
      <4>3. Contents'[i] = Contents[i]
        BY <3>1, <4>1, <4>2, <1>1, <1>2, <1>4
      <4>4. Append(Contents, v)[i] = Contents[i]
        BY <4>1, <1>2
      <4> QED BY <4>3, <4>4
    <3> QED BY <3>2, <3>3
  <2>4. Append(Contents, v) \in Seq(Stored) /\ Len(Append(Contents, v)) = count + 1
    BY <1>1, <1>2
  <2>5. Contents' = Append(Contents, v)
    BY <2>1, <2>3, <2>4, <1>3, SeqEqual
  <2> QED BY <2>2, <2>5 DEF Fifo!Pushed
<1> QED BY <1>5, <1>6

\* Every method of the ring buffer is a step of the abstract queue, or no step.
LEMMA StepRefines == IInv /\ IInv' /\ [Next]_vars => [Fifo!Next]_(Fifo!fifoVars)
<1> SUFFICES ASSUME IInv, IInv', [Next]_vars
             PROVE  Fifo!Next \/ UNCHANGED <<Contents, out>>
  BY DEF Fifo!fifoVars
<1>1. ASSUME NEW id \in Ids, NEW n \in Lengths, push([id |-> id, len |-> n])
      PROVE  Fifo!Next
  <2>1. Clip([id |-> id, len |-> n]) \in Stored
    BY ClipFits
  <2>2. out' = out
    BY <1>1 DEF push
  <2>3. Fifo!Push(Clip([id |-> id, len |-> n]))
    BY <1>1, <2>2, PushAppends DEF Fifo!Push
  <2> QED BY <2>1, <2>3 DEF Fifo!Next
<1>2. CASE peek
  <2>1. Contents' = Contents
    BY <1>2 DEF peek, Contents, Live
  <2>2. /\ Contents # <<>> /\ out' = Head(Contents)
    BY <1>2, FrontIsHead, ClipFits DEF peek, isEmpty
  <2> QED BY <2>1, <2>2 DEF Fifo!Next, Fifo!Peek
<1>3. CASE dropFront
  <2>1. /\ Contents # <<>> /\ Contents' = Tail(Contents) /\ out' = out
    BY <1>3, FrontIsHead, AdvanceDropsFront DEF dropFront, isEmpty
  <2> QED BY <2>1 DEF Fifo!Next, Fifo!DropFront, Fifo!WithoutFront
<1>4. CASE pop
  <2>1. /\ Contents # <<>> /\ Contents' = Tail(Contents)
        /\ out' = Head(Contents)
    BY <1>4, FrontIsHead, AdvanceDropsFront, ClipFits DEF pop, isEmpty
  <2> QED BY <2>1 DEF Fifo!Next, Fifo!Pop
<1>5. CASE clear
  <2>1. count' = 0 /\ out' = out
    BY <1>5 DEF clear
  <2>2. Contents' = <<>>
    BY <2>1, ContentsIsQueueAfter, EmptySeq
  <2> QED BY <2>1, <2>2 DEF Fifo!Next, Fifo!Clear
<1>6. CASE UNCHANGED vars
  BY <1>6 DEF vars, Contents, Live
<1> QED BY <1>1, <1>2, <1>3, <1>4, <1>5, <1>6 DEF Next

\* TelemetryRingBuffer is a drop-oldest FIFO of RING_BUFFER_CAPACITY payloads, for
\* every capacity: what a reader gets, and what a full buffer loses, is what the
\* abstract queue gives and loses.
THEOREM RingImplementsFifo == Spec => ImplementsFifo
<1>1. Init => Fifo!Init
  <2> SUFFICES ASSUME Init PROVE Contents = <<>> /\ out = Nothing
    BY DEF Fifo!Init
  <2>1. IInv /\ count = 0 /\ out = Nothing
    BY InitIInv DEF Init
  <2> QED BY <2>1, ContentsIsQueue, EmptySeq
<1> QED BY <1>1, InitIInv, NextIInv, StepRefines, PTL DEF Spec, ImplementsFifo, Fifo!Spec
============================================================================
