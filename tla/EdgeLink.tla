------------------------------ MODULE EdgeLink ------------------------------
(***************************************************************************)
(* The telemetry path of the ESP32 firmware: loop() numbers one sample per *)
(* tick and publishes it, or keeps it in the ring buffer while the broker  *)
(* is out of reach; connectMQTT() and every connected tick flush the       *)
(* buffer, a bounded number of samples at a time.  The broker, and what    *)
(* the network does to a publish, are modelled from how the firmware uses  *)
(* them: a QoS 1 publish returns true when its acknowledgement arrives,    *)
(* and otherwise returns false and leaves the client disconnected, whether *)
(* or not the message reached the broker.                                  *)
(*                                                                         *)
(* Samples are the sequence numbers of one boot.  Samples MaxSeq and later *)
(* are all written MaxSeq: the properties are about the earlier ones, and  *)
(* behaviours stay infinite with finitely many states.                     *)
(***************************************************************************)
EXTENDS Integers, Sequences, Functions

CONSTANTS
    Capacity,   \* RING_BUFFER_CAPACITY (50)
    MaxFlush,   \* MAX_FLUSH_PER_TICK (10)
    MaxSeq,     \* bound: the first sample that is not told from its successors
    Nothing     \* no sample

ASSUME LinkAssumption ==
    /\ Capacity \in Nat \ {0} /\ MaxFlush \in Nat \ {0} /\ MaxSeq \in Nat \ {0}
    /\ Nothing \notin 0 .. MaxSeq

VARIABLES
    pc,         \* where loop() is: "idle", "connect", "announce", "flush" or "live"
    resume,     \* where the flush in progress returns to
    flushed,    \* flushCount
    seq,        \* TelemetryFormatter's seq_
    pending,    \* payloadBuf, formatted in this tick and not yet published or buffered
    buffer,     \* the ring buffer, oldest first (RingBuffer implements it)
    connected,  \* mqttClient.connected()
    session,    \* does the broker hold the client's session?
    status,     \* the retained message on the status topic
    received,   \* the samples that reached the broker, and
    again,      \* those of them that reached it more than once
    unacked,    \* history: the samples a publish of which was received and not acknowledged
    overflowed  \* history: the samples a full ring buffer overwrote

edge == <<pc, resume, flushed, seq, pending, buffer>>
link == <<connected, session, status>>
log  == <<received, again, unacked, overflowed>>
vars == <<edge, link, log>>

Samples == 0 .. MaxSeq
Tracked == 0 .. MaxSeq - 1

Ring == INSTANCE BoundedFifo WITH Item <- Samples, queue <- buffer, out <- pending

-----------------------------------------------------------------------------
(* The broker *)

\* A sample reaches the broker.
Deliver(s) ==
    /\ received' = received \cup ({s} \cap Tracked)
    /\ again' = again \cup ({s} \cap received)

\* mqttClient.publish(sample, QoS 1) returns true.
PublishAcked(s) ==
    /\ connected /\ session
    /\ Deliver(s)
    /\ UNCHANGED <<link, unacked>>

\* It returns false: the acknowledgement was lost, or the message itself was.
PublishFailed(s) ==
    /\ \/ /\ connected /\ session
          /\ Deliver(s)
          /\ unacked' = unacked \cup ({s} \cap Tracked)
       \/ UNCHANGED <<received, again, unacked>>
    /\ connected' = FALSE
    /\ UNCHANGED <<session, status>>

\* The broker gives a session up (keepalive, socket error, its own restart) and
\* publishes the will.  The client need not know yet.
BrokerDrops ==
    /\ session
    /\ session' = FALSE
    /\ status' = "OFFLINE"
    /\ UNCHANGED <<edge, connected, log>>

\* The client finds its connection closed.
ClientDrops ==
    /\ connected
    /\ connected' = FALSE
    /\ UNCHANGED <<edge, session, status, log>>

-----------------------------------------------------------------------------
(* The ring buffer's push, with what it overwrites *)

\* Mutant: a full buffer is not made to give way.
KeepWithoutLimit(s) == buffer' = Append(buffer, s) /\ UNCHANGED overflowed

Keep(s) ==
    /\ buffer' = Ring!Pushed(buffer, s)
    /\ overflowed' = overflowed \cup
         (IF Len(buffer) = Capacity THEN {Head(buffer)} \cap Tracked ELSE {})

-----------------------------------------------------------------------------
(* loop() *)

Numbered == seq' = IF seq < MaxSeq THEN seq + 1 ELSE MaxSeq

Flush(next) == pc' = "flush" /\ resume' = next /\ flushed' = 0

\* Mutant: the backlog waits for the next reconnection.
TickConnectedNoFlush ==
    /\ pc = "idle" /\ connected
    /\ Numbered /\ pending' = seq
    /\ pc' = "live"
    /\ UNCHANGED <<resume, flushed, buffer, link, log>>

\* A tick while connected: number a sample, flush the backlog, then publish it.
TickConnected ==
    /\ pc = "idle" /\ connected
    /\ Numbered /\ pending' = seq
    /\ Flush("live")
    /\ UNCHANGED <<buffer, link, log>>

\* A tick while offline, less than 5 s after the last attempt to reconnect.
TickOffline ==
    /\ pc = "idle" /\ ~connected
    /\ Numbered /\ Keep(seq)
    /\ UNCHANGED <<pc, resume, flushed, pending, link, received, again, unacked>>

\* A tick while offline that also tries to reconnect.
TickReconnect ==
    /\ pc = "idle" /\ ~connected
    /\ Numbered /\ Keep(seq)
    /\ pc' = "connect"
    /\ UNCHANGED <<resume, flushed, pending, link, received, again, unacked>>

\* Mutant: a new session is not announced.
ConnectSucceedsUnannounced ==
    /\ pc = "connect"
    /\ connected' = TRUE /\ session' = TRUE
    /\ status' = IF session THEN "OFFLINE" ELSE status
    /\ Flush("idle")
    /\ UNCHANGED <<seq, pending, buffer, log>>

\* connectMQTT: the broker accepts.  If it still held the old session it ends that one
\* first, which publishes its will.
ConnectSucceeds ==
    /\ pc = "connect"
    /\ connected' = TRUE /\ session' = TRUE
    /\ status' = IF session THEN "OFFLINE" ELSE status
    /\ pc' = "announce"
    /\ UNCHANGED <<resume, flushed, seq, pending, buffer, log>>

\* connectMQTT: no WiFi, no broker, or it refuses.
ConnectFails ==
    /\ pc = "connect"
    /\ pc' = "idle"
    /\ UNCHANGED <<resume, flushed, seq, pending, buffer, link, log>>

\* connectMQTT, connected: publish the retained ONLINE and ignore what publish returns.
Announce ==
    /\ pc = "announce"
    /\ \/ connected /\ session /\ status' = "ONLINE" /\ connected' \in BOOLEAN
       \/ connected' = FALSE /\ UNCHANGED status
    /\ Flush("idle")
    /\ UNCHANGED <<seq, pending, buffer, session, log>>

MayFlush == pc = "flush" /\ buffer # <<>> /\ connected /\ flushed < MaxFlush

\* Mutant: the sample just published stays in the buffer.
FlushAckedKeeps ==
    /\ MayFlush
    /\ PublishAcked(Head(buffer))
    /\ flushed' = flushed + 1
    /\ UNCHANGED <<pc, resume, seq, pending, buffer, overflowed>>

\* flushBufferedTelemetry: one turn of the loop, acknowledged.
FlushAcked ==
    /\ MayFlush
    /\ PublishAcked(Head(buffer))
    /\ buffer' = Tail(buffer)
    /\ flushed' = flushed + 1
    /\ UNCHANGED <<pc, resume, seq, pending, overflowed>>

\* Mutant: the sample is taken out before it is published and put back at the end.
FlushFailedRequeues ==
    /\ MayFlush
    /\ PublishFailed(Head(buffer))
    /\ buffer' = Append(Tail(buffer), Head(buffer))
    /\ pc' = resume
    /\ UNCHANGED <<resume, flushed, seq, pending, overflowed>>

\* flushBufferedTelemetry: publish fails; the sample stays at the front.
FlushFailed ==
    /\ MayFlush
    /\ PublishFailed(Head(buffer))
    /\ pc' = resume
    /\ UNCHANGED <<resume, flushed, seq, pending, buffer, overflowed>>

\* flushBufferedTelemetry: nothing left, no connection, or the bound is reached.
FlushEnds ==
    /\ pc = "flush" /\ ~MayFlush
    /\ pc' = resume
    /\ UNCHANGED <<resume, flushed, seq, pending, buffer, link, log>>

LiveDone == pc' = "idle" /\ pending' = Nothing /\ UNCHANGED <<resume, flushed, seq>>

\* The sample of this tick is published.
LiveAcked ==
    /\ pc = "live"
    /\ PublishAcked(pending)
    /\ LiveDone /\ UNCHANGED <<buffer, overflowed>>

\* Mutant: only the serial log learns that the publish failed.
LiveFailedForgets ==
    /\ pc = "live"
    /\ PublishFailed(pending)
    /\ LiveDone /\ UNCHANGED <<buffer, overflowed>>

\* Or it is not, and goes to the buffer behind the backlog.
LiveFailed ==
    /\ pc = "live"
    /\ PublishFailed(pending)
    /\ Keep(pending)
    /\ LiveDone

\* The board restarts: RAM is lost, setup() connects, numbering starts again.
\* The broker only misses the old session later.
Reboot ==
    /\ pc' = "connect" /\ resume' = "idle" /\ flushed' = 0
    /\ seq' = 0 /\ pending' = Nothing /\ buffer' = <<>>
    /\ connected' = FALSE /\ UNCHANGED <<session, status>>
    /\ received' = {} /\ again' = {} /\ unacked' = {} /\ overflowed' = {}

-----------------------------------------------------------------------------
Init ==
    /\ pc = "connect" /\ resume = "idle" /\ flushed = 0
    /\ seq = 0 /\ pending = Nothing /\ buffer = <<>>
    /\ connected = FALSE /\ session = FALSE /\ status = "NONE"
    /\ received = {} /\ again = {} /\ unacked = {} /\ overflowed = {}

Loop ==
    \/ TickConnected \/ TickOffline \/ TickReconnect
    \/ ConnectSucceeds \/ ConnectFails \/ Announce
    \/ FlushAcked \/ FlushFailed \/ FlushEnds
    \/ LiveAcked \/ LiveFailed

Next == Loop \/ BrokerDrops \/ ClientDrops \/ Reboot

Spec == Init /\ [][Next]_vars

\* loop() runs for ever; an offline edge tries again every 5 s; and the network that
\* is tried again and again lets a connection, and a publish, through.
FairSpec ==
    /\ Spec
    /\ WF_vars(Loop)
    /\ SF_vars(TickReconnect) /\ SF_vars(ConnectSucceeds) /\ SF_vars(FlushAcked)

-----------------------------------------------------------------------------
(* Properties *)

\* The variables have their types, and a sample is pending exactly between the tick
\* that numbers it and its publication.
TypeOK ==
    /\ pc \in {"idle", "connect", "announce", "flush", "live"}
    /\ resume \in {"idle", "live"}
    /\ flushed \in 0 .. MaxFlush
    /\ seq \in Samples
    /\ pending \in Samples \cup {Nothing}
    /\ buffer \in Seq(Samples) /\ Len(buffer) <= Capacity
    /\ connected \in BOOLEAN /\ session \in BOOLEAN
    /\ status \in {"NONE", "ONLINE", "OFFLINE"}
    /\ received \subseteq Tracked /\ again \subseteq received
    /\ unacked \subseteq Tracked /\ overflowed \subseteq Tracked
    /\ (pending # Nothing) <=> (pc = "live" \/ (pc = "flush" /\ resume = "live"))

\* No sample of this boot vanishes: it reached the broker, or is still held, or gave
\* way in a full buffer, whatever connections and acknowledgements were lost.
NothingLost ==
    \A s \in Tracked : s < seq =>
        s \in received \cup Range(buffer) \cup {pending} \cup overflowed

\* The backlog is in the order of its numbers, and what it gave up is older than all
\* it holds: failed flushes and live publishes that fall back on it keep the order.
OldestGiveWay ==
    /\ \A i, j \in 1 .. Len(buffer) : i < j /\ buffer[j] # MaxSeq => buffer[i] < buffer[j]
    /\ \A s \in overflowed, i \in 1 .. Len(buffer) : s < buffer[i]

\* The broker sees a sample twice only if the acknowledgement of one of its publishes
\* was lost.
NoIdleDuplicate == again \subseteq unacked

\* When both sides hold the connection, and past the announcement, the retained status
\* says ONLINE: no will of an older session comes after it.
OnlineAnnounced ==
    connected /\ session /\ pc # "announce" => status = "ONLINE"

\* Every buffered sample leaves the buffer in the end, for the broker or because it
\* gives way, although a flush is bounded and new samples keep coming.
BacklogDrains == \A s \in Tracked : (s \in Range(buffer)) ~> (s \notin Range(buffer))
=============================================================================
