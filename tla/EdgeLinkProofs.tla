--------------------------- MODULE EdgeLinkProofs ---------------------------
(***************************************************************************)
(* For every capacity, flush bound and number of samples: no sample of a   *)
(* boot vanishes, the backlog keeps its order and gives up its oldest, the *)
(* broker sees a sample twice only after a lost acknowledgement, and an    *)
(* announced connection is retained as ONLINE.                             *)
(***************************************************************************)
EXTENDS EdgeLink, SequenceTheorems, TLAPS

USE LinkAssumption DEF LinkAssumption

\* All that the buffer, the broker and the overflow have seen is older than sample x.
Behind(x) ==
    /\ \A s \in received \cup overflowed : s < x
    /\ x # MaxSeq => \A i \in 1 .. Len(buffer) : buffer[i] < x

\* The number to be given next, and the one given and not yet published, are new.
Fresh ==
    /\ Behind(seq)
    /\ pending # Nothing =>
         /\ Behind(pending)
         /\ pending < seq \/ (pending = MaxSeq /\ seq = MaxSeq)

\* A buffered sample the broker has already was published without acknowledgement.
Unseen == \A i \in 1 .. Len(buffer) : buffer[i] \in received => buffer[i] \in unacked

\* What a lost or late message could break.
Ordered == OldestGiveWay /\ Fresh /\ Unseen /\ NoIdleDuplicate

IInv ==
    /\ TypeOK /\ NothingLost /\ Ordered /\ OnlineAnnounced
    /\ pc = "connect" => ~connected

-----------------------------------------------------------------------------
(* Sequences *)

LEMMA RangeIs ==
    ASSUME NEW q \in Seq(Samples)
    PROVE  Range(q) = {q[i] : i \in 1 .. Len(q)}
BY LenProperties DEF Range

\* The buffer without its front.
LEMMA FrontLeaves ==
    ASSUME TypeOK, buffer # <<>>
    PROVE  /\ Len(buffer) >= 1 /\ Head(buffer) = buffer[1] /\ buffer[1] \in Samples
           /\ Tail(buffer) \in Seq(Samples) /\ Len(Tail(buffer)) = Len(buffer) - 1
           /\ \A i \in 1 .. Len(buffer) - 1 : Tail(buffer)[i] = buffer[i + 1]
<1>1. buffer \in Seq(Samples)
  BY DEF TypeOK
<1>2. Len(buffer) \in Nat \ {0}
  BY <1>1, EmptySeq
<1>3. buffer[1] \in Samples
  BY <1>1, <1>2, ElementOfSeq
<1>4. Head(buffer) = buffer[1]
  BY <1>1
<1> QED BY <1>1, <1>2, <1>3, <1>4, HeadTailProperties

\* What Keep does, position by position: a full buffer moves up by one.
LEMMA Kept ==
    ASSUME TypeOK, NEW x \in Samples, Keep(x)
    PROVE  /\ buffer' \in Seq(Samples) /\ Len(buffer') <= Capacity /\ Len(buffer') >= 1
           /\ buffer'[Len(buffer')] = x
           /\ \/ /\ Len(buffer') = Len(buffer) + 1 /\ overflowed' = overflowed
                 /\ \A i \in 1 .. Len(buffer) : buffer'[i] = buffer[i]
              \/ /\ Len(buffer') = Len(buffer) /\ Len(buffer) >= 1
                 /\ overflowed' = overflowed \cup ({buffer[1]} \cap Tracked)
                 /\ \A i \in 1 .. Len(buffer) - 1 : buffer'[i] = buffer[i + 1]
<1>1. buffer \in Seq(Samples) /\ Len(buffer) \in Nat /\ Len(buffer) <= Capacity
  BY LenProperties DEF TypeOK
<1>2. CASE Len(buffer) = Capacity
  <2>1. buffer # <<>>
    BY <1>2, EmptySeq
  <2> DEFINE kept == Tail(buffer)
  <2>2. /\ kept \in Seq(Samples) /\ Len(kept) = Len(buffer) - 1
        /\ \A i \in 1 .. Len(buffer) - 1 : kept[i] = buffer[i + 1]
        /\ Len(buffer) >= 1 /\ Head(buffer) = buffer[1]
    BY <2>1, FrontLeaves
  <2>3. buffer' = Append(kept, x) /\ overflowed' = overflowed \cup ({buffer[1]} \cap Tracked)
    BY <1>2, <2>2 DEF Keep, Ring!Pushed
  <2> HIDE DEF kept
  <2> QED BY <1>1, <1>2, <2>2, <2>3, AppendProperties
<1>3. CASE Len(buffer) # Capacity
  <2>1. buffer' = Append(buffer, x) /\ overflowed' = overflowed
    BY <1>3 DEF Keep, Ring!Pushed
  <2> QED BY <1>1, <1>3, <2>1, AppendProperties
<1> QED BY <1>2, <1>3

\* Nothing tracked is lost by it.
LEMMA KeptAll ==
    ASSUME TypeOK, NEW x \in Samples, Keep(x)
    PROVE  \A s \in Tracked : s \in Range(buffer) \cup {x} \cup overflowed
                                => s \in Range(buffer') \cup overflowed'
<1> SUFFICES ASSUME NEW s \in Tracked, s \in Range(buffer) \cup {x} \cup overflowed
             PROVE  s \in Range(buffer') \cup overflowed'
  OBVIOUS
<1>1. buffer \in Seq(Samples) /\ Len(buffer) \in Nat
  BY LenProperties DEF TypeOK
<1>2. buffer' \in Seq(Samples) /\ Len(buffer') \in Nat
  BY Kept, LenProperties
<1>3. \A j \in 1 .. Len(buffer') : buffer'[j] \in Range(buffer')
  BY <1>2, RangeIs
<1>4. CASE s = x
  BY <1>2, <1>3, <1>4, Kept
<1>5. CASE s \in overflowed
  BY <1>5 DEF Keep
<1>6. CASE s \in Range(buffer)
  <2>1. PICK i \in 1 .. Len(buffer) : s = buffer[i]
    BY <1>1, <1>6, RangeIs
  <2>2. CASE Len(buffer') = Len(buffer) + 1 /\ buffer'[i] = buffer[i]
    BY <1>1, <1>3, <2>1, <2>2
  <2>3. CASE i = 1 /\ overflowed' = overflowed \cup ({buffer[1]} \cap Tracked)
    BY <2>1, <2>3
  <2>4. CASE i > 1 /\ Len(buffer') = Len(buffer) /\ buffer'[i - 1] = buffer[(i - 1) + 1]
    <3>1. i - 1 \in 1 .. Len(buffer') /\ (i - 1) + 1 = i
      BY <1>1, <2>1, <2>4
    <3> QED BY <1>3, <2>1, <2>4, <3>1
  <2>5. i > 1 => i - 1 \in 1 .. Len(buffer) - 1
    BY <1>1, <2>1
  <2> QED BY <1>1, <2>1, <2>2, <2>3, <2>4, <2>5, Kept
<1> QED BY <1>4, <1>5, <1>6

\* A new sample at the end keeps the order, and what gives way for it is the oldest.
LEMMA KeptOrder ==
    ASSUME TypeOK, OldestGiveWay, NEW x \in Samples, Behind(x), Keep(x)
    PROVE  /\ OldestGiveWay'
           /\ \A i \in 1 .. Len(buffer') :
                buffer'[i] = x \/ \E j \in 1 .. Len(buffer) : buffer'[i] = buffer[j]
           /\ \A s \in overflowed' :
                s \in overflowed \/ (s \in Tracked /\ \E j \in 1 .. Len(buffer) : s = buffer[j])
<1> DEFINE n == Len(buffer)  m == Len(buffer')
<1>1. /\ n \in Nat /\ m \in Nat /\ m >= 1 /\ buffer'[m] = x
      /\ \A i \in 1 .. n : buffer[i] \in Samples
      /\ \A i \in 1 .. m : buffer'[i] \in Samples
  <2>1. buffer \in Seq(Samples) /\ buffer' \in Seq(Samples)
    BY Kept DEF TypeOK
  <2>2. m >= 1 /\ buffer'[m] = x
    BY Kept
  <2> QED BY <2>1, <2>2, LenProperties, ElementOfSeq
<1>2. /\ \A i, j \in 1 .. n : i < j /\ buffer[j] # MaxSeq => buffer[i] < buffer[j]
      /\ \A s \in overflowed, i \in 1 .. n : s < buffer[i]
  BY DEF OldestGiveWay
<1>3. /\ \A s \in overflowed : s < x
      /\ x # MaxSeq => \A i \in 1 .. n : buffer[i] < x
  BY DEF Behind
<1>4. \A s \in Tracked : s < MaxSeq
  BY DEF Tracked
<1>5. CASE m = n + 1 /\ overflowed' = overflowed /\ \A i \in 1 .. n : buffer'[i] = buffer[i]
  <2>1. \A i \in 1 .. m : i = m \/ i \in 1 .. n
    BY <1>1, <1>5
  <2> HIDE DEF n, m
  <2>2. \A i, j \in 1 .. m : i < j /\ buffer'[j] # MaxSeq => buffer'[i] < buffer'[j]
    BY <1>1, <1>2, <1>3, <1>5, <2>1
  <2>3. \A s \in overflowed', i \in 1 .. m : s < buffer'[i]
    BY <1>1, <1>2, <1>3, <1>5, <2>1
  <2> QED BY <1>1, <1>5, <2>1, <2>2, <2>3 DEF OldestGiveWay, n, m
<1>6. CASE /\ m = n /\ n >= 1 /\ overflowed' = overflowed \cup ({buffer[1]} \cap Tracked)
           /\ \A i \in 1 .. n - 1 : buffer'[i] = buffer[i + 1]
  <2>1. \A i \in 1 .. m : i = m \/ (i \in 1 .. n - 1 /\ i + 1 \in 1 .. n /\ 1 < i + 1)
    BY <1>1, <1>6
  <2> HIDE DEF n, m
  <2>2. \A i, j \in 1 .. m : i < j /\ buffer'[j] # MaxSeq => buffer'[i] < buffer'[j]
    <3> SUFFICES ASSUME NEW i \in 1 .. m, NEW j \in 1 .. m, i < j, buffer'[j] # MaxSeq
                 PROVE  buffer'[i] < buffer'[j]
      OBVIOUS
    <3>1. i \in 1 .. n - 1 /\ i + 1 \in 1 .. n /\ buffer'[i] = buffer[i + 1]
      BY <1>1, <1>6, <2>1
    <3>2. CASE j = m
      BY <1>1, <1>3, <3>1, <3>2
    <3>3. CASE j # m
      <4>1. j + 1 \in 1 .. n /\ buffer'[j] = buffer[j + 1] /\ i + 1 < j + 1
        BY <1>1, <1>6, <2>1, <3>3
      <4> QED BY <1>2, <3>1, <4>1
    <3> QED BY <3>2, <3>3
  <2>3. \A s \in overflowed', i \in 1 .. m : s < buffer'[i]
    <3> SUFFICES ASSUME NEW s \in overflowed', NEW i \in 1 .. m PROVE s < buffer'[i]
      OBVIOUS
    <3>1. s \in overflowed \/ (s = buffer[1] /\ s \in Tracked)
      BY <1>6
    <3>2. CASE i = m
      BY <1>1, <1>3, <1>4, <1>6, <3>1, <3>2
    <3>3. CASE i # m
      <4>1. i + 1 \in 1 .. n /\ 1 \in 1 .. n /\ 1 < i + 1 /\ buffer'[i] = buffer[i + 1]
        BY <1>1, <1>6, <2>1, <3>3
      <4> QED BY <1>1, <1>2, <1>4, <3>1, <4>1
    <3> QED BY <3>2, <3>3
  <2>4. \A i \in 1 .. m : buffer'[i] = x \/ \E j \in 1 .. n : buffer'[i] = buffer[j]
    BY <1>1, <1>6, <2>1
  <2>5. \A s \in overflowed' : s \in overflowed \/ (s \in Tracked /\ \E j \in 1 .. n : s = buffer[j])
    BY <1>1, <1>6
  <2> QED BY <2>2, <2>3, <2>4, <2>5 DEF OldestGiveWay, n, m
<1> QED BY <1>5, <1>6, Kept DEF n, m

-----------------------------------------------------------------------------
LEMMA InitInv == Init => IInv
<1> SUFFICES ASSUME Init PROVE IInv
  OBVIOUS
<1>1. buffer = <<>> /\ buffer \in Seq(Samples) /\ Len(buffer) = 0
  BY EmptySeq DEF Init
<1>2. TypeOK
  <2>1. seq \in Samples /\ flushed \in 0 .. MaxFlush /\ Len(buffer) <= Capacity
    BY <1>1 DEF Init, Samples
  <2> QED BY <1>1, <2>1 DEF Init, TypeOK
<1>3. NothingLost /\ OnlineAnnounced /\ (pc = "connect" => ~connected)
  BY DEF Init, NothingLost, OnlineAnnounced, Tracked
<1>4. Ordered
  BY <1>1 DEF Init, Ordered, OldestGiveWay, Fresh, Behind, Unseen, NoIdleDuplicate
<1> QED BY <1>2, <1>3, <1>4 DEF IInv

\* Steps of the connection: the samples stay where they are.
Connection ==
    \/ BrokerDrops \/ ClientDrops \/ ConnectSucceeds \/ ConnectFails \/ Announce \/ FlushEnds

LEMMA ConnectionStep == ASSUME IInv, Connection PROVE IInv'
<1> USE DEF IInv
<1>1. UNCHANGED <<seq, pending, buffer, received, again, unacked, overflowed>>
  BY DEF Connection, BrokerDrops, ClientDrops, ConnectSucceeds, ConnectFails, Announce, FlushEnds,
         Flush, edge, log, link
<1>2. NothingLost' /\ Ordered'
  BY <1>1 DEF NothingLost, Ordered, OldestGiveWay, Fresh, Behind, Unseen, NoIdleDuplicate
<1>3. /\ pc' \in {"idle", "connect", "announce", "flush", "live"} /\ resume' \in {"idle", "live"}
      /\ flushed' \in 0 .. MaxFlush /\ connected' \in BOOLEAN /\ session' \in BOOLEAN
      /\ status' \in {"NONE", "ONLINE", "OFFLINE"}
      /\ (pending # Nothing) <=> (pc' = "live" \/ (pc' = "flush" /\ resume' = "live"))
  <2>1. CASE BrokerDrops \/ ClientDrops
    BY <2>1 DEF TypeOK, BrokerDrops, ClientDrops, edge
  <2>2. CASE ConnectSucceeds \/ ConnectFails
    BY <2>2 DEF TypeOK, ConnectSucceeds, ConnectFails, link
  <2>3. CASE Announce
    <3>1. connected' \in BOOLEAN /\ status' \in {"NONE", "ONLINE", "OFFLINE"}
      BY <2>3 DEF TypeOK, Announce
    <3>2. pc' = "flush" /\ resume' = "idle" /\ flushed' = 0 /\ session' = session
      BY <2>3 DEF Announce, Flush
    <3>3. 0 \in 0 .. MaxFlush /\ pending = Nothing
      BY <2>3 DEF TypeOK, Announce
    <3> QED BY <3>1, <3>2, <3>3 DEF TypeOK
  <2>4. CASE FlushEnds
    BY <2>4 DEF TypeOK, FlushEnds, link
  <2> QED BY <2>1, <2>2, <2>3, <2>4 DEF Connection
<1>4. TypeOK'
  BY <1>1, <1>3 DEF TypeOK
<1>5. OnlineAnnounced' /\ (pc' = "connect" => ~connected')
  BY DEF OnlineAnnounced, TypeOK, Connection, BrokerDrops, ClientDrops, ConnectSucceeds,
         ConnectFails, Announce, FlushEnds, Flush, edge, log, link
<1> QED BY <1>2, <1>4, <1>5

LEMMA RebootStep == ASSUME IInv, Reboot PROVE IInv'
<1>1. buffer' = <<>> /\ buffer' \in Seq(Samples) /\ Len(buffer') = 0
  BY EmptySeq DEF Reboot
<1>2. TypeOK'
  <2>1. seq' \in Samples /\ flushed' \in 0 .. MaxFlush /\ Len(buffer') <= Capacity
    BY <1>1 DEF Reboot, Samples
  <2>2. pc' = "connect" /\ resume' = "idle" /\ pending' = Nothing /\ connected' \in BOOLEAN
        /\ session' \in BOOLEAN /\ status' \in {"NONE", "ONLINE", "OFFLINE"}
    BY DEF Reboot, TypeOK, IInv
  <2>3. received' = {} /\ again' = {} /\ unacked' = {} /\ overflowed' = {}
    BY DEF Reboot
  <2> QED BY <1>1, <2>1, <2>2, <2>3 DEF TypeOK
<1>3. NothingLost' /\ OnlineAnnounced' /\ (pc' = "connect" => ~connected')
  BY DEF Reboot, NothingLost, OnlineAnnounced, Tracked
<1>4. Ordered'
  BY <1>1 DEF Reboot, Ordered, OldestGiveWay, Fresh, Behind, Unseen, NoIdleDuplicate
<1> QED BY <1>2, <1>3, <1>4 DEF IInv

\* A number is given: it is older than nothing, and the next one is new.
LEMMA NumberedFresh ==
    ASSUME TypeOK, Behind(seq), Numbered
    PROVE  /\ seq' \in Samples /\ \A x \in Samples : x < seq => x < seq'
           /\ seq < seq' \/ (seq = MaxSeq /\ seq' = MaxSeq)
           /\ \A s \in Tracked : s < seq' => s < seq \/ s = seq
BY DEF TypeOK, Numbered, Samples, Tracked

\* The buffer's samples come from the buffer or from what was kept, so they are behind
\* the next number.
LEMMA KeptBehind ==
    ASSUME TypeOK, OldestGiveWay, NEW x \in Samples, Behind(x), Keep(x),
           NEW next \in Samples, x < next \/ (x = MaxSeq /\ next = MaxSeq),
           \A s \in Samples : s < x => s < next,
           \A s \in received' : s < next
    PROVE  /\ \A s \in received' \cup overflowed' : s < next
           /\ next # MaxSeq => \A i \in 1 .. Len(buffer') : buffer'[i] < next
<1>1. /\ \A i \in 1 .. Len(buffer) : buffer[i] \in Samples
      /\ \A i \in 1 .. Len(buffer) : x # MaxSeq => buffer[i] < x
      /\ \A s \in overflowed : s \in Samples /\ s < x
  <2>1. buffer \in Seq(Samples) /\ overflowed \subseteq Tracked
    BY DEF TypeOK
  <2> QED BY <2>1, ElementOfSeq DEF Behind, Samples, Tracked
<1>2. \A s \in overflowed' : s < next
  <2> SUFFICES ASSUME NEW s \in overflowed' PROVE s < next
    OBVIOUS
  <2>1. CASE s \in overflowed
    BY <1>1, <2>1
  <2>2. CASE s \in Tracked /\ \E j \in 1 .. Len(buffer) : s = buffer[j]
    <3>1. CASE x = MaxSeq
      BY <2>2, <3>1 DEF Samples, Tracked
    <3>2. CASE x # MaxSeq
      BY <1>1, <2>2, <3>2
    <3> QED BY <3>1, <3>2
  <2> QED BY <2>1, <2>2, KeptOrder
<1>3. next # MaxSeq => \A i \in 1 .. Len(buffer') : buffer'[i] < next
  <2> SUFFICES ASSUME next # MaxSeq, NEW i \in 1 .. Len(buffer') PROVE buffer'[i] < next
    OBVIOUS
  <2>1. x # MaxSeq /\ x < next
    BY DEF Samples
  <2> QED BY <1>1, <2>1, KeptOrder
<1> QED BY <1>2, <1>3

-----------------------------------------------------------------------------
(* The steps that move samples *)

\* Deliver adds a tracked sample to those received; a failed publish may add it too, and
\* then it is among the unacknowledged.
LEMMA Delivered ==
    ASSUME TypeOK, NEW x \in Samples, PublishAcked(x) \/ PublishFailed(x)
    PROVE  /\ received \subseteq received' /\ received' \subseteq received \cup ({x} \cap Tracked)
           /\ again' \subseteq received' /\ again' \subseteq again \cup ({x} \cap received)
           /\ unacked \subseteq unacked' /\ unacked' \subseteq Tracked
           /\ PublishAcked(x) => (x \in Tracked => x \in received')
           /\ PublishFailed(x) => (x \in received' => x \in received \/ x \in unacked')
           /\ connected' \in BOOLEAN /\ (connected' => connected)
           /\ session' = session /\ status' = status
<1>1. CASE PublishAcked(x)
  BY <1>1 DEF PublishAcked, PublishFailed, Deliver, link, TypeOK, Tracked
<1>2. CASE PublishFailed(x)
  BY <1>2 DEF PublishFailed, PublishAcked, Deliver, link, TypeOK, Tracked
<1> QED BY <1>1, <1>2

\* A tick while connected: the sample numbered is held until it is published.
LEMMA TickConnectedStep == ASSUME IInv, TickConnected PROVE IInv'
<1> USE DEF IInv
<1>1. /\ UNCHANGED <<buffer, connected, session, status, received, again, unacked, overflowed>>
      /\ pc = "idle" /\ pc' = "flush" /\ resume' = "live" /\ flushed' = 0
      /\ pending = Nothing /\ pending' = seq /\ Numbered
  BY DEF TickConnected, Flush, link, log, TypeOK
<1>2. /\ seq \in Samples /\ seq' \in Samples /\ seq # Nothing
      /\ seq < seq' \/ (seq = MaxSeq /\ seq' = MaxSeq)
      /\ \A s \in Tracked : s < seq' => s < seq \/ s = seq
  BY <1>1, NumberedFresh DEF Ordered, Fresh, TypeOK, Samples
<1>3. TypeOK'
  BY <1>1, <1>2 DEF TypeOK
<1>4. NothingLost'
  <2> SUFFICES ASSUME NEW s \in Tracked, s < seq'
               PROVE  s \in received' \cup Range(buffer') \cup {pending'} \cup overflowed'
    BY DEF NothingLost
  <2>1. s \in received \cup Range(buffer) \cup {seq} \cup overflowed \/ s = Nothing
    BY <1>1, <1>2 DEF NothingLost
  <2>2. s # Nothing
    BY DEF Tracked
  <2> QED BY <1>1, <2>1, <2>2
<1>5. Behind(seq)'
  <2>1. /\ \A s \in received \cup overflowed : s \in Samples /\ s < seq
        /\ seq # MaxSeq => \A i \in 1 .. Len(buffer) : buffer[i] \in Samples /\ buffer[i] < seq
    <3>1. buffer \in Seq(Samples) /\ received \cup overflowed \subseteq Samples
      BY DEF TypeOK, Samples, Tracked
    <3> QED BY <3>1, ElementOfSeq DEF Ordered, Fresh, Behind
  <2> QED BY <1>1, <1>2, <2>1 DEF Behind, Samples
<1>6. Ordered'
  BY <1>1, <1>2, <1>5 DEF Ordered, OldestGiveWay, Fresh, Behind, Unseen, NoIdleDuplicate
<1>7. OnlineAnnounced' /\ (pc' = "connect" => ~connected')
  BY <1>1 DEF OnlineAnnounced
<1> QED BY <1>3, <1>4, <1>6, <1>7

\* A tick while offline: it goes to the buffer.
LEMMA TickOfflineStep ==
    ASSUME IInv, TickOffline \/ TickReconnect
    PROVE  IInv'
<1> USE DEF IInv
<1>1. /\ UNCHANGED <<resume, flushed, pending, connected, session, status, received, again, unacked>>
      /\ pc = "idle" /\ ~connected /\ pc' \in {"idle", "connect"}
      /\ pending = Nothing /\ Numbered /\ Keep(seq)
  BY DEF TickOffline, TickReconnect, link, TypeOK
<1>2. /\ seq \in Samples /\ seq' \in Samples
      /\ seq < seq' \/ (seq = MaxSeq /\ seq' = MaxSeq)
      /\ \A s \in Tracked : s < seq' => s < seq \/ s = seq
      /\ \A s \in Samples : s < seq => s < seq'
  BY <1>1, NumberedFresh DEF Ordered, Fresh, TypeOK, Samples
<1>3. TypeOK'
  <2>1. buffer' \in Seq(Samples) /\ Len(buffer') <= Capacity
    BY <1>1, <1>2, Kept
  <2>2. overflowed' \subseteq Tracked
    BY <1>1 DEF Keep, TypeOK
  <2> QED BY <1>1, <1>2, <2>1, <2>2 DEF TypeOK
<1>4. NothingLost'
  <2> SUFFICES ASSUME NEW s \in Tracked, s < seq'
               PROVE  s \in received' \cup Range(buffer') \cup {pending'} \cup overflowed'
    BY DEF NothingLost
  <2>1. s \in received \cup Range(buffer) \cup {seq} \cup overflowed \/ s = Nothing
    BY <1>1, <1>2 DEF NothingLost
  <2>2. s # Nothing
    BY DEF Tracked
  <2> QED BY <1>1, <1>2, <2>1, <2>2, KeptAll
<1>5. Behind(seq) /\ OldestGiveWay
  BY DEF Ordered, Fresh
<1>6. Behind(seq)'
  <2>1. \A s \in received' : s < seq'
    BY <1>1, <1>2, <1>5 DEF Behind, TypeOK, Samples, Tracked
  <2> QED BY <1>1, <1>2, <1>5, <2>1, KeptBehind DEF Behind
<1>7. OldestGiveWay'
  BY <1>1, <1>2, <1>5, KeptOrder
<1>8. Unseen'
  <2> SUFFICES ASSUME NEW i \in 1 .. Len(buffer'), buffer'[i] \in received
               PROVE  buffer'[i] \in unacked
    BY <1>1 DEF Unseen
  <2>1. seq \notin received
    BY <1>2, <1>5 DEF Behind, Samples
  <2> QED BY <1>1, <1>2, <1>5, <2>1, KeptOrder DEF Ordered, Unseen
<1>9. Ordered' /\ OnlineAnnounced' /\ (pc' = "connect" => ~connected')
  BY <1>1, <1>6, <1>7, <1>8 DEF Ordered, Fresh, NoIdleDuplicate, OnlineAnnounced
<1> QED BY <1>3, <1>4, <1>9

\* A flush publishes the front of the buffer and takes it out.
LEMMA FlushAckedStep == ASSUME IInv, FlushAcked PROVE IInv'
<1> USE DEF IInv
<1> DEFINE x == buffer[1]
<1>1. /\ UNCHANGED <<pc, resume, seq, pending, overflowed>>
      /\ pc = "flush" /\ flushed' = flushed + 1 /\ flushed < MaxFlush
      /\ buffer # <<>> /\ buffer' = Tail(buffer)
      /\ UNCHANGED <<connected, session, status, unacked>>
  BY DEF FlushAcked, MayFlush, PublishAcked, link
<1>2. /\ x \in Samples /\ PublishAcked(x) /\ Len(buffer) >= 1 /\ Len(buffer) \in Nat
      /\ buffer' \in Seq(Samples) /\ Len(buffer') = Len(buffer) - 1
      /\ \A i \in 1 .. Len(buffer') : buffer'[i] = buffer[i + 1] /\ i + 1 \in 1 .. Len(buffer) /\ 1 < i + 1
  <2>1. buffer \in Seq(Samples) /\ Len(buffer) \in Nat
    BY LenProperties DEF TypeOK
  <2> QED BY <1>1, <2>1, FrontLeaves DEF FlushAcked
<1>3. /\ received \subseteq received' /\ received' \subseteq received \cup ({x} \cap Tracked)
      /\ again' \subseteq received' /\ again' \subseteq again \cup ({x} \cap received)
      /\ x \in Tracked => x \in received'
  BY <1>2, Delivered
<1>4. 1 \in 1 .. Len(buffer) /\ \A i \in 1 .. Len(buffer) : buffer[i] \in Samples
  BY <1>2, ElementOfSeq DEF TypeOK
<1> HIDE DEF x
<1>5. TypeOK'
  <2>1. flushed' \in 0 .. MaxFlush /\ Len(buffer') <= Capacity /\ received' \subseteq Tracked
    BY <1>1, <1>2, <1>3 DEF TypeOK
  <2> QED BY <1>1, <1>2, <1>3, <2>1 DEF TypeOK
<1>6. NothingLost'
  <2> SUFFICES ASSUME NEW s \in Tracked, s < seq
               PROVE  s \in received' \cup Range(buffer') \cup {pending} \cup overflowed
    BY <1>1 DEF NothingLost
  <2>1. s \in received \cup Range(buffer) \cup {pending} \cup overflowed
    BY DEF NothingLost
  <2>2. CASE s \in Range(buffer)
    <3>1. PICK k \in 1 .. Len(buffer) : s = buffer[k]
      BY <2>2, RangeIs DEF TypeOK
    <3>2. CASE k = 1
      BY <1>3, <3>1, <3>2 DEF x
    <3>3. CASE k # 1
      <4>1. k - 1 \in 1 .. Len(buffer') /\ (k - 1) + 1 = k
        BY <1>2, <3>1, <3>3
      <4>2. s = buffer'[k - 1]
        BY <1>2, <3>1, <4>1
      <4> QED BY <1>2, <4>1, <4>2, RangeIs
    <3> QED BY <3>2, <3>3
  <2> QED BY <1>3, <2>1, <2>2
<1>7. OldestGiveWay'
  BY <1>1, <1>2 DEF Ordered, OldestGiveWay
<1>8. \A y : y \in {seq, pending} /\ y \in Samples /\ Behind(y) => Behind(y)'
  <2> SUFFICES ASSUME NEW y \in Samples, Behind(y) PROVE
        /\ \A s \in received' \cup overflowed' : s < y
        /\ y # MaxSeq => \A i \in 1 .. Len(buffer') : buffer'[i] < y
    BY <1>1 DEF Behind
  <2>1. x \in Tracked => x < y
    BY <1>2, <1>4 DEF Behind, Samples, Tracked, x
  <2> QED BY <1>1, <1>2, <1>3, <2>1 DEF Behind
<1>9. Fresh'
  BY <1>1, <1>8 DEF Ordered, Fresh, Behind, TypeOK
<1>10. Unseen' /\ NoIdleDuplicate'
  <2>1. x \in received => x \in unacked
    BY <1>4 DEF Ordered, Unseen, x
  <2>2. \A i \in 1 .. Len(buffer') : buffer'[i] \in Tracked => buffer'[i] # x
    <3> SUFFICES ASSUME NEW i \in 1 .. Len(buffer'), buffer'[i] \in Tracked
                 PROVE  buffer'[i] # x
      OBVIOUS
    <3>1. buffer'[i] = buffer[i + 1] /\ i + 1 \in 1 .. Len(buffer) /\ 1 < i + 1
      BY <1>2
    <3>2. buffer[i + 1] # MaxSeq
      BY <3>1 DEF Tracked
    <3>3. buffer[1] < buffer[i + 1]
      BY <1>4, <3>1, <3>2 DEF Ordered, OldestGiveWay
    <3> QED BY <1>4, <3>1, <3>3 DEF Samples, x
  <2>3. Unseen'
    BY <1>1, <1>2, <1>3, <2>2 DEF Ordered, Unseen, TypeOK
  <2> QED BY <1>1, <1>3, <2>1, <2>3 DEF Ordered, NoIdleDuplicate
<1>11. Ordered' /\ OnlineAnnounced' /\ (pc' = "connect" => ~connected')
  BY <1>1, <1>7, <1>9, <1>10 DEF Ordered, OnlineAnnounced
<1> QED BY <1>5, <1>6, <1>11

\* A flush that fails leaves the sample at the front; the broker may have it.
LEMMA FlushFailedStep == ASSUME IInv, FlushFailed PROVE IInv'
<1> USE DEF IInv
<1> DEFINE x == buffer[1]
<1>1. /\ UNCHANGED <<resume, flushed, seq, pending, buffer, overflowed, session, status>>
      /\ pc = "flush" /\ pc' = resume /\ connected' = FALSE /\ buffer # <<>>
  BY DEF FlushFailed, MayFlush, PublishFailed
<1>2. x \in Samples /\ PublishFailed(x) /\ 1 \in 1 .. Len(buffer)
  <2>1. Len(buffer) \in Nat
    BY LenProperties DEF TypeOK
  <2> QED BY <1>1, <2>1, FrontLeaves DEF FlushFailed
<1>3. /\ received \subseteq received' /\ received' \subseteq received \cup ({x} \cap Tracked)
      /\ again' \subseteq received' /\ again' \subseteq again \cup ({x} \cap received)
      /\ unacked \subseteq unacked' /\ unacked' \subseteq Tracked
      /\ x \in received' => x \in received \/ x \in unacked'
  BY <1>2, Delivered
<1>4. x \in received => x \in unacked
  BY <1>2 DEF Ordered, Unseen
<1>5. \A y \in Samples : Behind(y) => (x \in Tracked => x < y)
  BY <1>2 DEF Behind, Samples, Tracked
<1> HIDE DEF x
<1>6. TypeOK'
  <2>1. received' \subseteq Tracked
    BY <1>3 DEF TypeOK
  <2>2. pc' \in {"idle", "live"} /\ ((pending # Nothing) <=> pc' = "live")
    BY <1>1 DEF TypeOK
  <2> QED BY <1>1, <1>3, <2>1, <2>2 DEF TypeOK
<1>7. NothingLost'
  BY <1>1, <1>3 DEF NothingLost
<1>8. \A y \in Samples : Behind(y) =>
        /\ \A s \in received' \cup overflowed' : s < y
        /\ y # MaxSeq => \A i \in 1 .. Len(buffer') : buffer'[i] < y
  BY <1>1, <1>3, <1>5 DEF Behind
<1>9. Fresh'
  <2>1. seq \in Samples /\ pending \in Samples \cup {Nothing}
    BY DEF TypeOK
  <2>2. Behind(seq)'
    <3>1. Behind(seq) /\ seq \in Samples
      BY <2>1 DEF Ordered, Fresh
    <3>2. /\ \A s \in received' \cup overflowed' : s < seq
          /\ seq # MaxSeq => \A i \in 1 .. Len(buffer') : buffer'[i] < seq
      BY <1>8, <3>1
    <3> QED BY <1>1, <3>2 DEF Behind
  <2>3. pending # Nothing => Behind(pending)'
    <3> SUFFICES ASSUME pending # Nothing PROVE Behind(pending)'
      OBVIOUS
    <3>1. Behind(pending) /\ pending \in Samples
      BY <2>1 DEF Ordered, Fresh
    <3>2. /\ \A s \in received' \cup overflowed' : s < pending
          /\ pending # MaxSeq => \A i \in 1 .. Len(buffer') : buffer'[i] < pending
      BY <1>8, <3>1
    <3> QED BY <1>1, <3>2 DEF Behind
  <2> QED BY <1>1, <2>2, <2>3 DEF Ordered, Fresh
<1>10. Unseen' /\ NoIdleDuplicate' /\ OldestGiveWay'
  <2>1. Unseen' /\ OldestGiveWay'
    BY <1>1, <1>3 DEF Ordered, Unseen, OldestGiveWay
  <2>2. NoIdleDuplicate'
    BY <1>3, <1>4 DEF Ordered, NoIdleDuplicate
  <2> QED BY <2>1, <2>2
<1>11. Ordered' /\ OnlineAnnounced' /\ (pc' = "connect" => ~connected')
  BY <1>1, <1>9, <1>10 DEF Ordered, OnlineAnnounced
<1> QED BY <1>6, <1>7, <1>11

\* The sample of this tick is published, and the broker had not seen it.
LEMMA LiveAckedStep == ASSUME IInv, LiveAcked PROVE IInv'
<1> USE DEF IInv
<1>1. /\ UNCHANGED <<resume, flushed, seq, buffer, overflowed, connected, session, status, unacked>>
      /\ pc = "live" /\ pc' = "idle" /\ pending' = Nothing /\ PublishAcked(pending)
  BY DEF LiveAcked, LiveDone, PublishAcked, link
<1>2. /\ pending \in Samples /\ pending # Nothing
      /\ Behind(pending) /\ (pending < seq \/ (pending = MaxSeq /\ seq = MaxSeq))
  BY <1>1 DEF TypeOK, Ordered, Fresh
<1>3. /\ received \subseteq received' /\ received' \subseteq received \cup ({pending} \cap Tracked)
      /\ again' \subseteq received' /\ again' \subseteq again \cup ({pending} \cap received)
      /\ pending \in Tracked => pending \in received'
  BY <1>1, <1>2, Delivered
<1>4. pending \notin received /\ \A i \in 1 .. Len(buffer) : buffer[i] \in Tracked => buffer[i] # pending
  BY <1>2 DEF Behind, Samples, Tracked
<1>5. TypeOK'
  <2>1. received' \subseteq Tracked
    BY <1>3 DEF TypeOK
  <2> QED BY <1>1, <1>3, <2>1 DEF TypeOK
<1>6. NothingLost'
  BY <1>1, <1>3 DEF NothingLost
<1>7. Fresh'
  <2>1. \A s \in received' \cup overflowed' : s < seq
    BY <1>1, <1>2, <1>3 DEF Ordered, Fresh, Behind, Samples, Tracked
  <2> QED BY <1>1, <2>1 DEF Ordered, Fresh, Behind
<1>8. Unseen' /\ NoIdleDuplicate' /\ OldestGiveWay'
  BY <1>1, <1>3, <1>4 DEF Ordered, Unseen, NoIdleDuplicate, OldestGiveWay
<1>9. Ordered' /\ OnlineAnnounced' /\ (pc' = "connect" => ~connected')
  BY <1>1, <1>7, <1>8 DEF Ordered, OnlineAnnounced
<1> QED BY <1>5, <1>6, <1>9

\* It is not, and goes to the buffer behind the backlog.
LEMMA LiveFailedStep == ASSUME IInv, LiveFailed PROVE IInv'
<1> USE DEF IInv
<1>1. /\ UNCHANGED <<resume, flushed, seq, session, status>>
      /\ pc = "live" /\ pc' = "idle" /\ pending' = Nothing /\ connected' = FALSE
      /\ PublishFailed(pending) /\ Keep(pending)
  BY DEF LiveFailed, LiveDone, PublishFailed
<1>2. /\ pending \in Samples /\ pending # Nothing /\ seq \in Samples
      /\ Behind(pending) /\ (pending < seq \/ (pending = MaxSeq /\ seq = MaxSeq))
      /\ OldestGiveWay /\ Behind(seq)
  BY <1>1 DEF TypeOK, Ordered, Fresh
<1>3. /\ received \subseteq received' /\ received' \subseteq received \cup ({pending} \cap Tracked)
      /\ again' \subseteq received' /\ again' \subseteq again \cup ({pending} \cap received)
      /\ unacked \subseteq unacked' /\ unacked' \subseteq Tracked
      /\ pending \in received' => pending \in received \/ pending \in unacked'
  BY <1>1, <1>2, Delivered
<1>4. pending \notin received
  BY <1>2 DEF Behind, Samples
<1>5. TypeOK'
  <2>1. buffer' \in Seq(Samples) /\ Len(buffer') <= Capacity
    BY <1>1, <1>2, Kept
  <2>2. overflowed' \subseteq Tracked /\ received' \subseteq Tracked
    BY <1>1, <1>3 DEF Keep, TypeOK
  <2> QED BY <1>1, <1>3, <2>1, <2>2 DEF TypeOK
<1>6. NothingLost'
  <2> SUFFICES ASSUME NEW s \in Tracked, s < seq
               PROVE  s \in received' \cup Range(buffer') \cup overflowed'
    BY <1>1 DEF NothingLost
  <2>1. s \in received \cup Range(buffer) \cup {pending} \cup overflowed
    BY DEF NothingLost
  <2> QED BY <1>1, <1>2, <1>3, <2>1, KeptAll
<1>7. Fresh'
  <2>1. \A s \in received' : s < seq
    BY <1>2, <1>3 DEF Behind, Samples, Tracked
  <2>2. \A s \in Samples : s < pending => s < seq
    BY <1>2 DEF Samples
  <2> QED BY <1>1, <1>2, <2>1, <2>2, KeptBehind DEF Fresh, Behind
<1>8. OldestGiveWay'
  BY <1>1, <1>2, KeptOrder
<1>9. Unseen'
  <2> SUFFICES ASSUME NEW i \in 1 .. Len(buffer'), buffer'[i] \in received'
               PROVE  buffer'[i] \in unacked'
    BY DEF Unseen
  <2>1. CASE buffer'[i] = pending
    BY <1>3, <1>4, <2>1
  <2>2. CASE buffer'[i] # pending
    <3>1. PICK j \in 1 .. Len(buffer) : buffer'[i] = buffer[j]
      BY <1>1, <1>2, <2>2, KeptOrder
    <3> QED BY <1>3, <2>2, <3>1 DEF Ordered, Unseen
  <2> QED BY <2>1, <2>2
<1>10. NoIdleDuplicate'
  BY <1>3, <1>4 DEF Ordered, NoIdleDuplicate
<1>11. Ordered' /\ OnlineAnnounced' /\ (pc' = "connect" => ~connected')
  BY <1>1, <1>7, <1>8, <1>9, <1>10 DEF Ordered, OnlineAnnounced
<1> QED BY <1>5, <1>6, <1>11

-----------------------------------------------------------------------------
LEMMA StepInv == ASSUME IInv, [Next]_vars PROVE IInv'
<1>1. CASE UNCHANGED vars
  BY <1>1 DEF vars, edge, link, log, IInv, TypeOK, NothingLost, Ordered, OldestGiveWay, Fresh,
              Behind, Unseen, NoIdleDuplicate, OnlineAnnounced
<1> QED BY <1>1, ConnectionStep, RebootStep, TickConnectedStep, TickOfflineStep, FlushAckedStep,
           FlushFailedStep, LiveAckedStep, LiveFailedStep DEF Next, Loop, Connection

\* The inductive invariant holds for every capacity, flush bound and number of samples.
THEOREM Invariant == Spec => []IInv
<1>1. Init => IInv
  BY InitInv
<1>2. IInv /\ [Next]_vars => IInv'
  BY StepInv
<1> QED BY <1>1, <1>2, PTL DEF Spec

\* The types, the buffer's bound, and the sample pending between its tick and its publish.
THEOREM TypesKept == Spec => []TypeOK
<1>1. IInv => TypeOK
  BY DEF IInv
<1> QED BY <1>1, Invariant, PTL

\* A numbered sample is with the broker, held, or gave way in a full buffer.
THEOREM SamplesKept == Spec => []NothingLost
<1>1. IInv => NothingLost
  BY DEF IInv
<1> QED BY <1>1, Invariant, PTL

\* The backlog is in order and only its oldest gave way.
THEOREM OrderKept == Spec => []OldestGiveWay
<1>1. IInv => OldestGiveWay
  BY DEF IInv, Ordered
<1> QED BY <1>1, Invariant, PTL

\* Duplicates come from lost acknowledgements only.
THEOREM DuplicatesExplained == Spec => []NoIdleDuplicate
<1>1. IInv => NoIdleDuplicate
  BY DEF IInv, Ordered
<1> QED BY <1>1, Invariant, PTL

\* A connection both sides hold is announced, and no older will comes after it.
THEOREM Announced == Spec => []OnlineAnnounced
<1>1. IInv => OnlineAnnounced
  BY DEF IInv
<1> QED BY <1>1, Invariant, PTL
=============================================================================
