----------------------------- MODULE VirtualEdge -----------------------------
(***************************************************************************)
(* simulation/virtual_edge.py: the Python edge.  Its main thread steps the *)
(* simulated machine and publishes; paho's network thread connects, calls  *)
(* the callbacks, writes what was queued and reads the acknowledgements.   *)
(* Both flush the same deque: one in step, one in _on_connect.             *)
(*                                                                         *)
(* Of paho this is modelled: a QoS 1 message is kept until acknowledged    *)
(* and sent again after a reconnection; without a socket publish returns   *)
(* MQTT_ERR_NO_CONN, for which wait_for_publish raises; nothing is written *)
(* or read while the network thread is inside a callback.                  *)
(***************************************************************************)
EXTENDS SimulatedMachine, Sequences, FiniteSets, SequencesExt

CONSTANTS
    Scenarios,   \* the scenarios an edge may be started with
    Capacity,    \* maxlen of the deque
    MaxSamples,  \* bound: the samples that are followed; more are made, and left out
    MaxBreaks,   \* bound: how often the connection breaks
    MaxStrains   \* bound: how often a wait for an acknowledgement is given up

ASSUME CapacityAssumption == Capacity \in Nat \ {0}
ASSUME SamplesAssumption == MaxSamples \in Nat
ASSUME NoneAssumption == None \notin {"ONLINE", "OFFLINE"}

\* As the files of simulation/scenarios: a trip code belongs to a fault of the signals.
ASSUME ScenariosAssumption ==
    \A sc \in Scenarios :
      /\ sc.trigger \in Nat /\ sc.delay \in Nat
      /\ sc.trip # None => sc.fault \notin {"none", "offline"}

VARIABLES
    scenario, machine,
    seq,        \* the samples made
    buffer,     \* self.buffer
    connected,  \* self.connected
    main,       \* the main thread: where it is, the message it waits for
    net,        \* the network thread, likewise
    link,       \* whether the TCP connection still carries anything
    mid,        \* the last message identifier
    out,        \* paho: the messages that are not acknowledged, by identifier
    wire,       \* paho: the identifiers of those still to be written
    sent,       \* those written on this connection, in the order their PUBACKs come
    session,    \* the broker: whether it has a session of this client
    retained,   \* the broker: the retained status
    received,   \* the broker: how many copies of each sample
    evicted,    \* history: the samples that gave way in a full deque
    strained,   \* history: those a wait was given up for, or a break found unacknowledged
    given,      \* history: the waits given up
    breaks,     \* history: the breaks
    late        \* history: an ONLINE was sent after disconnect() had said OFFLINE

paho   == <<mid, out, wire, sent>>
broker == <<session, retained, received>>
vars == <<scenario, machine, seq, buffer, connected, main, net, link, paho, broker,
          evicted, strained, given, breaks, late>>

Samples == 1 .. MaxSamples

\* The messages, on the two topics.
Telemetry(k) == [sample |-> k, status |-> None]
Status(s)    == [sample |-> 0, status |-> s]
At(where) == [at |-> where, mid |-> 0]

\* paho has a socket from the connection until it finds it broken.
HasSocket == net.at \in {"connected", "flushing", "loop"}

-----------------------------------------------------------------------------
(* paho: publish, and the broker behind it *)

\* client.publish(..., qos=1), by either thread. Without a socket it is only kept.
Publish(body) ==
    /\ mid' = mid + 1
    /\ out' = [i \in DOMAIN out \cup {mid'} |-> IF i = mid' THEN body ELSE out[i]]
    /\ wire' = IF HasSocket THEN Append(wire, mid') ELSE wire
    /\ UNCHANGED sent

Without(f, i) == [j \in DOMAIN f \ {i} |-> f[j]]

\* The next message is written, and reaches the broker.
Write ==
    /\ net.at = "loop" /\ link /\ wire # <<>>
    /\ LET body == out[Head(wire)]
       IN  IF body.status # None
             THEN retained' = body.status /\ UNCHANGED received
             ELSE received' = [received EXCEPT ![body.sample] = @ + 1] /\ UNCHANGED retained
    /\ wire' = Tail(wire) /\ sent' = Append(sent, Head(wire))
    /\ UNCHANGED <<scenario, machine, seq, buffer, connected, main, net, link, mid, out,
                   session, evicted, strained, given, breaks, late>>

\* A PUBACK is read.
Acknowledged ==
    /\ net.at = "loop" /\ link /\ sent # <<>>
    /\ out' = Without(out, Head(sent)) /\ sent' = Tail(sent)
    /\ UNCHANGED <<scenario, machine, seq, buffer, connected, main, net, link, mid, wire,
                   broker, evicted, strained, given, breaks, late>>

Breaks ==
    /\ link /\ breaks < MaxBreaks
    /\ link' = FALSE /\ breaks' = breaks + 1
    /\ UNCHANGED <<scenario, machine, seq, buffer, connected, main, net, paho, broker,
                   evicted, strained, given, late>>

\* The broker misses the client and publishes its will.
Will ==
    /\ session /\ ~link
    /\ session' = FALSE /\ retained' = "OFFLINE"
    /\ UNCHANGED <<scenario, machine, seq, buffer, connected, main, net, link, paho,
                   received, evicted, strained, given, breaks, late>>

\* paho finds the socket broken and closes it.
Close ==
    /\ net.at = "loop" /\ ~link
    /\ net' = At("closed") /\ wire' = <<>> /\ sent' = <<>>
    /\ strained' = strained \cup {out[i].sample : i \in DOMAIN out \ ToSet(wire)}
    /\ UNCHANGED <<scenario, machine, seq, buffer, connected, main, link, mid, out, broker,
                   evicted, given, breaks, late>>

-----------------------------------------------------------------------------
(* The callbacks, on the network thread *)

_on_disconnect ==
    /\ net.at = "closed"
    /\ net' = At("offline") /\ connected' = FALSE
    /\ UNCHANGED <<scenario, machine, seq, buffer, main, link, paho, broker,
                   evicted, strained, given, breaks, late>>

\* A CONNACK; a session that is still open is taken over, which publishes its will.
_on_connect ==
    /\ net.at = "offline" /\ main.at # "stopped"
    /\ link' = TRUE /\ session' = TRUE
    /\ retained' = IF session THEN "OFFLINE" ELSE retained
    /\ net' = At("connected") /\ connected' = TRUE
    /\ mid' = mid + 1
    /\ out' = [i \in DOMAIN out \cup {mid'} |-> IF i = mid' THEN Status("ONLINE") ELSE out[i]]
    /\ wire' = <<mid'>> /\ UNCHANGED sent
    /\ late' = (late \/ main.at = "stopping")
    /\ UNCHANGED <<scenario, machine, seq, buffer, main, received, evicted, strained, given,
                   breaks>>

\* The members of a set of identifiers, the lowest first.
InOrder(S) ==
    [n \in 1 .. Cardinality(S) |-> CHOOSE i \in S : Cardinality({j \in S : j < i}) = n - 1]

\* After the callback paho sends again what it had kept.
Resume ==
    /\ net' = At("loop")
    /\ wire' = wire \o InOrder(DOMAIN out \ ToSet(wire))
    /\ UNCHANGED sent

\* _flush_buffer in _on_connect.
FlushOnConnect ==
    /\ net.at = "connected"
    /\ IF buffer # <<>> /\ connected
         THEN /\ Publish(Telemetry(Head(buffer)))
              /\ net' = [at |-> "flushing", mid |-> mid']
         ELSE Resume /\ UNCHANGED <<mid, out>>
    /\ UNCHANGED <<scenario, machine, seq, buffer, connected, main, link, broker,
                   evicted, strained, given, breaks, late>>

\* It waits on the very thread that would write its message: the wait always times out,
\* and never pops.
TimeoutOnConnect ==
    /\ net.at = "flushing"
    /\ strained' = strained \cup {out[net.mid].sample}
    /\ Resume
    /\ UNCHANGED <<scenario, machine, seq, buffer, connected, main, link, mid, out, broker,
                   evicted, given, breaks, late>>

-----------------------------------------------------------------------------
(* step, on the main thread *)

Main(at) == main' = [main EXCEPT !.at = at]

\* append on a deque with maxlen: the oldest gives way.
Buffer(k) ==
    /\ buffer' = IF Len(buffer) = Capacity THEN Append(Tail(buffer), k) ELSE Append(buffer, k)
    /\ evicted' = IF Len(buffer) = Capacity THEN evicted \cup {Head(buffer)} ELSE evicted

\* The machine's step, validation, which only logs, and the branch on self.connected.
Step ==
    /\ main.at = "idle" /\ seq < MaxSamples
    /\ \E exceeded \in Limits \cup {None} : machine' = Stepped(machine, scenario, exceeded)
    /\ IF Silent(machine, scenario)
         THEN Main("exit") /\ UNCHANGED <<seq, buffer, evicted>>
         ELSE /\ seq' = seq + 1
              /\ IF connected
                   THEN main' = [at |-> "flush", mid |-> 0, live |-> TRUE]
                        /\ UNCHANGED <<buffer, evicted>>
                   ELSE Buffer(seq') /\ UNCHANGED main
    /\ UNCHANGED <<scenario, connected, net, link, paho, broker, strained, given, breaks, late>>

\* The steps beyond the bound still flush.
StepBeyond ==
    /\ main.at = "idle" /\ seq = MaxSamples /\ connected
    /\ main' = [at |-> "flush", mid |-> 0, live |-> FALSE]
    /\ UNCHANGED <<scenario, machine, seq, buffer, connected, net, link, paho, broker,
                   evicted, strained, given, breaks, late>>

\* Mutant: step leaves the backlog to _on_connect.
FlushNothing ==
    /\ main.at = "flush"
    /\ Main("live")
    /\ UNCHANGED <<scenario, machine, seq, buffer, connected, net, link, paho, broker,
                   evicted, strained, given, breaks, late>>

\* One turn of _flush_buffer: without a socket wait_for_publish raises, and the sample
\* stays, here and in paho.
Flush ==
    /\ main.at = "flush"
    /\ IF buffer # <<>> /\ connected
         THEN /\ Publish(Telemetry(Head(buffer)))
              /\ IF HasSocket
                   THEN main' = [main EXCEPT !.at = "waiting", !.mid = mid']
                        /\ UNCHANGED <<strained, given>>
                   ELSE /\ given < MaxStrains
                        /\ given' = given + 1
                        /\ strained' = strained \cup {Head(buffer)}
                        /\ Main("live")
         ELSE Main("live") /\ UNCHANGED <<paho, strained, given>>
    /\ UNCHANGED <<scenario, machine, seq, buffer, connected, net, link, broker,
                   evicted, breaks, late>>

\* wait_for_publish returned, and the message is published: popleft.
Published ==
    /\ main.at = "waiting" /\ main.mid \notin DOMAIN out
    /\ buffer' = Tail(buffer)
    /\ Main("flush")
    /\ UNCHANGED <<scenario, machine, seq, connected, net, link, paho, broker,
                   evicted, strained, given, breaks, late>>

\* A second has passed.
Timeout ==
    /\ main.at = "waiting" /\ main.mid \in DOMAIN out /\ given < MaxStrains
    /\ given' = given + 1
    /\ strained' = strained \cup {out[main.mid].sample}
    /\ Main("live")
    /\ UNCHANGED <<scenario, machine, seq, buffer, connected, net, link, paho, broker,
                   evicted, breaks, late>>

\* Mutant: QoS 0, which is written or forgotten.
PublishLiveOnce ==
    /\ main.at = "live"
    /\ Main("idle")
    /\ received' = IF main.live /\ net.at = "loop" /\ link
                     THEN [received EXCEPT ![seq] = @ + 1] ELSE received
    /\ UNCHANGED <<scenario, machine, seq, buffer, connected, net, link, paho, session,
                   retained, evicted, strained, given, breaks, late>>

\* Mutant: it is put in the deque as well, whatever publish does.
PublishLiveAndBuffer ==
    /\ main.at = "live"
    /\ Main("idle")
    /\ IF main.live THEN Publish(Telemetry(seq)) /\ Buffer(seq)
                    ELSE UNCHANGED <<paho, buffer, evicted>>
    /\ UNCHANGED <<scenario, machine, seq, connected, net, link, broker,
                   strained, given, breaks, late>>

\* The new sample, published without waiting; what publish returns is not looked at.
PublishLive ==
    /\ main.at = "live"
    /\ Main("idle")
    /\ IF main.live THEN Publish(Telemetry(seq)) ELSE UNCHANGED paho
    /\ UNCHANGED <<scenario, machine, seq, buffer, connected, net, link, broker,
                   evicted, strained, given, breaks, late>>

-----------------------------------------------------------------------------
(* disconnect, at the end of main *)

\* Mutant: nothing is said.
DisconnectSilently ==
    /\ main.at \in {"idle", "exit"}
    /\ Main("stopping")
    /\ UNCHANGED <<scenario, machine, seq, buffer, connected, net, link, paho, broker,
                   evicted, strained, given, breaks, late>>

\* The scenario has ended, the count is reached, or the user interrupts. OFFLINE is
\* published if connected; the wait for it is limited and its outcome not looked at.
\* During _on_connect an ONLINE that paho kept from before the break is still to follow.
Disconnect ==
    /\ main.at \in {"idle", "exit"}
    /\ IF connected THEN Publish(Status("OFFLINE")) ELSE UNCHANGED paho
    /\ late' = (net.at \in {"connected", "flushing"}
                  /\ \E i \in DOMAIN out \ ToSet(wire) : out[i] = Status("ONLINE"))
    /\ Main("stopping")
    /\ UNCHANGED <<scenario, machine, seq, buffer, connected, net, link, broker,
                   evicted, strained, given, breaks>>

\* loop_stop joins the network thread, which first writes what is queued.
LoopStop ==
    /\ main.at = "stopping"
    /\ \/ net.at = "offline"
       \/ net.at = "loop" /\ link /\ wire = <<>>
    /\ net' = At("stopped")
    /\ Main("stopped")
    /\ UNCHANGED <<scenario, machine, seq, buffer, connected, link, paho, broker,
                   evicted, strained, given, breaks, late>>

\* The process ends, and its memory with it.
Ends ==
    /\ main' = [at |-> "gone", mid |-> 0, live |-> FALSE]
    /\ net' = At("stopped") /\ link' = FALSE /\ connected' = FALSE
    /\ machine' = Started /\ mid' = 0 /\ seq' = 0 /\ buffer' = <<>> /\ out' = <<>>
    /\ wire' = <<>> /\ sent' = <<>> /\ evicted' = {}

\* client.disconnect(): a DISCONNECT, where it can be sent, takes the will back.
Leave ==
    /\ main.at = "stopped"
    /\ session' = (session /\ ~link)
    /\ Ends
    /\ UNCHANGED <<scenario, retained, received, strained, given, breaks, late>>

Killed ==
    /\ main.at # "gone"
    /\ Ends
    /\ UNCHANGED <<scenario, broker, strained, given, breaks, late>>

-----------------------------------------------------------------------------
Init ==
    /\ scenario \in Scenarios /\ machine = Started
    /\ seq = 0 /\ buffer = <<>> /\ connected = FALSE
    /\ main = [at |-> "idle", mid |-> 0, live |-> FALSE]
    /\ net = At("offline") /\ link = FALSE
    /\ mid = 0 /\ out = <<>> /\ wire = <<>> /\ sent = <<>>
    /\ session = FALSE /\ retained = "OFFLINE" /\ received = [k \in Samples |-> 0]
    /\ evicted = {} /\ strained = {} /\ given = 0 /\ breaks = 0 /\ late = FALSE

NetThread ==
    \/ Write \/ Acknowledged \/ Close \/ _on_disconnect
    \/ _on_connect \/ FlushOnConnect \/ TimeoutOnConnect
MainThread ==
    \/ Step \/ StepBeyond \/ Flush \/ Published \/ PublishLive
    \/ main.at = "exit" /\ Disconnect
    \/ LoopStop \/ Leave

Next == NetThread \/ MainThread \/ Timeout \/ Disconnect \/ Breaks \/ Will \/ Killed

Spec == Init /\ [][Next]_vars

\* Both threads run on, and the broker acknowledges what it has.
FairSpec == Spec /\ WF_vars(NetThread) /\ WF_vars(MainThread)

-----------------------------------------------------------------------------
(* Properties *)

InHand(k) == main.live /\ k = seq /\ main.at \in {"flush", "waiting", "live"}

\* While the edge runs no sample vanishes: the broker has it, paho keeps it, or the deque
\* does, in the order of their numbers; and those that gave way were older than all in it.
NothingLost ==
    main.at # "gone" =>
      /\ \A k \in 1 .. seq : \/ received[k] > 0 \/ Telemetry(k) \in Range(out)
                             \/ k \in Range(buffer) \/ k \in evicted \/ InHand(k)
      /\ \A i, j \in DOMAIN buffer : i < j => buffer[i] < buffer[j]
      /\ \A k \in evicted, i \in DOMAIN buffer : k < buffer[i]

\* A sample reaches the broker twice only when a wait for it was given up, or a break
\* left it unacknowledged: two threads over one deque do not send it twice.
RepeatsCaused == \A k \in Samples : received[k] > 1 => k \in strained

\* The retained status is true: ONLINE once an edge that connected has been heard, and
\* OFFLINE once the broker has no session, unless disconnect() raced a reconnection, so
\* that an ONLINE was sent after it had said OFFLINE, or had found nobody to tell.
StatusTruthful ==
    /\ net.at = "loop" /\ link /\ main.at \in {"idle", "flush", "waiting", "live"}
         /\ Status("ONLINE") \notin Range(out) => retained = "ONLINE"
    /\ ~session /\ ~late => retained = "OFFLINE"

\* A scenario's trip comes, and not later than its delay allows, also when its fault
\* begins while the machine still starts.
ScenarioTripsInTime ==
    LET due == scenario.trigger + scenario.delay
    IN  scenario.trip # None /\ machine.step > due /\ machine.step > RampTicks
          => machine.state = "TRIPPED"

\* Every sample is delivered, unless it gave way in the full deque or the edge ended.
Delivered ==
    \A k \in Samples :
      seq >= k ~> (received[k] > 0 \/ k \in evicted \/ main.at = "gone")
=============================================================================
