-------------------------- MODULE VirtualEdgeProofs --------------------------
(***************************************************************************)
(* For every capacity, number of samples, breaks and waits given up, and   *)
(* for every set of scenarios: no sample of a running virtual edge         *)
(* vanishes, the broker sees one twice only for a reason, the retained     *)
(* status is true, and a scenario's trip comes in time.                    *)
(***************************************************************************)
EXTENDS VirtualEdge, SequenceTheorems, FiniteSetTheorems, TLAPS

USE SamplesAssumption
    DEF CapacityAssumption, SamplesAssumption, NoneAssumption, ScenariosAssumption, RampAssumption

Statuses == {Status("ONLINE"), Status("OFFLINE")}
Bodies   == {Telemetry(k) : k \in Samples} \cup Statuses

TypeOK ==
    /\ seq \in 0 .. MaxSamples /\ buffer \in Seq(Samples) /\ Len(buffer) <= Capacity
    /\ connected \in BOOLEAN /\ link \in BOOLEAN /\ session \in BOOLEAN /\ late \in BOOLEAN
    /\ main \in [at : {"idle", "flush", "waiting", "live", "exit", "stopping", "stopped", "gone"},
                 mid : Nat, live : BOOLEAN]
    /\ net \in [at : {"offline", "connected", "flushing", "loop", "closed", "stopped"}, mid : Nat]
    /\ mid \in Nat /\ DOMAIN out \subseteq 1 .. mid /\ \A i \in DOMAIN out : out[i] \in Bodies
    /\ wire \in Seq(Nat) /\ sent \in Seq(Nat)
    /\ retained \in {"ONLINE", "OFFLINE"} /\ received \in [Samples -> Nat]
    /\ evicted \subseteq Samples /\ strained \subseteq 0 .. MaxSamples

Distinct(q) == \A a, b \in 1 .. Len(q) : q[a] = q[b] => a = b

\* paho's queues hold kept messages, each once; what is sent has reached the broker.
Queues ==
    /\ ToSet(wire) \subseteq DOMAIN out /\ ToSet(sent) \subseteq DOMAIN out
    /\ ToSet(wire) \cap ToSet(sent) = {}
    /\ Distinct(wire) /\ Distinct(sent)
    /\ net.at \in {"closed", "offline", "connected", "flushing"} => sent = <<>>
    /\ net.at \in {"closed", "offline"} => wire = <<>>
    /\ \A i \in ToSet(sent), k \in Samples : out[i] = Telemetry(k) => received[k] > 0

\* What each thread says of the other, and the connection of both.
Threads ==
    /\ HasSocket \/ net.at = "closed" => connected
    /\ net.at = "offline" => ~connected
    /\ link => session /\ (HasSocket \/ net.at = "stopped")
    /\ main.at \in {"stopped", "gone"} <=> net.at = "stopped"
    /\ main.at = "gone" => ~link /\ out = <<>> /\ seq = 0 /\ buffer = <<>>
    /\ net.at = "flushing" => net.mid \in DOMAIN out /\ \E k \in Samples : out[net.mid] = Telemetry(k)

\* The message the main thread waits for is the front of the deque, until it is acknowledged.
Peeked ==
    main.at = "waiting" =>
      /\ buffer # <<>> /\ main.mid \in 1 .. mid
      /\ IF main.mid \in DOMAIN out THEN out[main.mid] = Telemetry(buffer[1])
         ELSE received[buffer[1]] > 0

\* The samples in the deque are in order, and older than the one to come; those that it
\* gave up are older still.
Backlog ==
    /\ \A i \in 1 .. Len(buffer) : buffer[i] <= seq /\ ~InHand(buffer[i])
    /\ \A i, j \in 1 .. Len(buffer) : i < j => buffer[i] < buffer[j]
    /\ \A k \in evicted : k <= seq /\ \A i \in 1 .. Len(buffer) : k < buffer[i]
    /\ main.at \in {"flush", "waiting", "live"} /\ main.live => seq > 0

InDeque(k) == \E i \in 1 .. Len(buffer) : buffer[i] = k
InPaho(k)  == \E i \in DOMAIN out : out[i] = Telemetry(k)

Accounted ==
    main.at # "gone" =>
      \A k \in 1 .. seq : received[k] > 0 \/ InPaho(k) \/ InDeque(k) \/ k \in evicted \/ InHand(k)

-----------------------------------------------------------------------------
\* Nobody has sent it yet.
Unpublished(k) == received[k] = 0 /\ \A i \in DOMAIN out : out[i] # Telemetry(k)

\* Kept by paho and not on its way: it will be written.
Unsent(k, i) == i \in DOMAIN out /\ i \notin ToSet(sent) /\ out[i] = Telemetry(k)

\* The network thread sends it, though the main thread may as well.
Twofold(k) == net.at = "flushing" /\ out[net.mid] = Telemetry(k)

\* Without strain a sample is written once: it is received, or is kept in one message.
Once(k) ==
    /\ received[k] <= 1
    /\ ~Twofold(k) => /\ \A i, j : Unsent(k, i) /\ Unsent(k, j) => i = j
                      /\ received[k] = 1 => \A i : ~Unsent(k, i)

\* The front of the deque, while its acknowledgement is waited for.
Awaited(k) ==
    main.at = "waiting" /\ k = buffer[1] /\ \A i \in DOMAIN out : out[i] = Telemetry(k) => i = main.mid

\* Nothing but that has left the deque.
Copies ==
    /\ \A k \in Samples : k \in strained \/ Once(k)
    /\ \A i \in 1 .. Len(buffer) : \/ buffer[i] \in strained \/ Twofold(buffer[i])
                                    \/ Awaited(buffer[i]) \/ Unpublished(buffer[i])
    /\ main.at # "gone" => \A k \in Samples : k > seq \/ InHand(k) => Unpublished(k)

-----------------------------------------------------------------------------
Running == main.at \in {"idle", "flush", "waiting", "live", "exit"}

\* OFFLINE is the last that will be heard.
Parting ==
    /\ \/ \E p \in 1 .. Len(wire) :
            /\ out[wire[p]] = Status("OFFLINE")
            /\ \A q \in p + 1 .. Len(wire) : out[wire[q]] # Status("ONLINE")
       \/ retained = "OFFLINE" /\ \A i \in ToSet(wire) : out[i] # Status("ONLINE")
    /\ net.at # "loop" => \A i \in DOMAIN out \ ToSet(wire) : out[i] # Status("ONLINE")

Heard ==
    /\ Running => ~late /\ \A i \in DOMAIN out : out[i] # Status("OFFLINE")
    /\ Running /\ HasSocket /\ link =>
         retained = "ONLINE" \/ \E i \in ToSet(wire) : out[i] = Status("ONLINE")
    /\ main.at = "stopping" /\ HasSocket /\ link /\ ~late => Parting
    /\ main.at = "stopped" /\ link /\ ~late => retained = "OFFLINE"
    /\ ~session /\ ~late => retained = "OFFLINE"

IsMachine(m) ==
    /\ DOMAIN m = {"step", "state", "ramp", "fault", "trip"}
    /\ m.step \in Nat /\ m.ramp \in Nat
    /\ m.state \in {"STARTING", "RUNNING", "DEGRADING", "TRIPPED"}

\* A scenario that trips: the machine still starts, or its trip is not due, or it has come.
Trips ==
    /\ scenario \in Scenarios
    /\ IsMachine(machine)
    /\ scenario.trip # None =>
         /\ machine.state = "STARTING" => machine.ramp = machine.step /\ machine.step < RampTicks
         /\ machine.state \in {"RUNNING", "DEGRADING"} =>
              machine.step <= scenario.trigger + scenario.delay \/ machine.step <= RampTicks

IInv ==
    /\ TypeOK /\ Queues /\ Threads /\ Peeked /\ Backlog /\ Accounted /\ Copies /\ Heard /\ Trips

-----------------------------------------------------------------------------
(* Sequences of identifiers *)

LEMMA ToSetIs ==
    ASSUME NEW S, NEW q \in Seq(S)
    PROVE  ToSet(q) = {q[a] : a \in 1 .. Len(q)}
BY LenProperties DEF ToSet

LEMMA Appended ==
    ASSUME NEW q \in Seq(Nat), NEW x \in Nat
    PROVE  /\ Append(q, x) \in Seq(Nat)
           /\ ToSet(Append(q, x)) = ToSet(q) \cup {x}
           /\ Distinct(q) /\ x \notin ToSet(q) => Distinct(Append(q, x))
<1> DEFINE r == Append(q, x)
<1>1. /\ r \in Seq(Nat) /\ Len(r) = Len(q) + 1 /\ Len(q) \in Nat
      /\ \A a \in 1 .. Len(q) : r[a] = q[a]
      /\ r[Len(q) + 1] = x
  BY AppendProperties, LenProperties
<1>2. ToSet(r) = {r[a] : a \in 1 .. Len(r)} /\ ToSet(q) = {q[a] : a \in 1 .. Len(q)}
  BY <1>1, ToSetIs
<1> HIDE DEF r
<1>3. \A a \in 1 .. Len(q) + 1 : a \in 1 .. Len(q) \/ a = Len(q) + 1
  BY <1>1
<1>4. ToSet(r) = ToSet(q) \cup {x}
  <2>1. ToSet(r) \subseteq ToSet(q) \cup {x}
    BY <1>1, <1>2, <1>3
  <2>2. Len(q) + 1 \in 1 .. Len(r) /\ 1 .. Len(q) \subseteq 1 .. Len(r)
    BY <1>1
  <2>3. ToSet(q) \cup {x} \subseteq ToSet(r)
    BY <1>1, <1>2, <2>2
  <2> QED BY <2>1, <2>3
<1>5. ASSUME Distinct(q), x \notin ToSet(q) PROVE Distinct(r)
  <2> SUFFICES ASSUME NEW a \in 1 .. Len(r), NEW b \in 1 .. Len(r), r[a] = r[b] PROVE a = b
    BY DEF Distinct
  <2>1. \A c \in 1 .. Len(q) : r[c] \in ToSet(q)
    BY <1>1, <1>2
  <2>2. a \in 1 .. Len(q) + 1 /\ b \in 1 .. Len(q) + 1
    BY <1>1
  <2>3. CASE a \in 1 .. Len(q) /\ b \in 1 .. Len(q)
    BY <1>1, <1>5, <2>3 DEF Distinct
  <2> QED BY <1>1, <1>3, <1>5, <2>1, <2>2, <2>3
<1> QED BY <1>1, <1>4, <1>5 DEF r

LEMMA Shortened ==
    ASSUME NEW q \in Seq(Nat), q # <<>>
    PROVE  /\ Tail(q) \in Seq(Nat) /\ Head(q) = q[1] /\ Head(q) \in ToSet(q)
           /\ Len(q) >= 1 /\ Len(Tail(q)) = Len(q) - 1
           /\ \A a \in 1 .. Len(q) - 1 : Tail(q)[a] = q[a + 1]
           /\ Distinct(q) => ToSet(Tail(q)) = ToSet(q) \ {Head(q)} /\ Distinct(Tail(q))
<1> DEFINE r == Tail(q)
<1>1. Len(q) \in Nat \ {0}
  BY EmptySeq
<1>2. /\ r \in Seq(Nat) /\ Len(r) = Len(q) - 1 /\ \A a \in 1 .. Len(q) - 1 : r[a] = q[a + 1]
  BY <1>1, HeadTailProperties
<1>6. ToSet(r) = {r[a] : a \in 1 .. Len(r)} /\ ToSet(q) = {q[a] : a \in 1 .. Len(q)}
  BY <1>2, ToSetIs
<1>3. Head(q) = q[1]
  OBVIOUS
<1> HIDE DEF r
<1>4. Head(q) \in ToSet(q)
  BY <1>1, <1>3, <1>6
<1>5. ASSUME Distinct(q) PROVE ToSet(r) = ToSet(q) \ {q[1]} /\ Distinct(r)
  <2>1. \A a \in 1 .. Len(q) - 1 : a + 1 \in 1 .. Len(q) /\ a + 1 # 1
    BY <1>1
  <2>2. \A a \in 1 .. Len(q) : a # 1 => a - 1 \in 1 .. Len(q) - 1 /\ (a - 1) + 1 = a
    BY <1>1
  <2>3. \A a \in 1 .. Len(q) - 1 : r[a] \in ToSet(q) /\ r[a] # q[1]
    <3> SUFFICES ASSUME NEW a \in 1 .. Len(q) - 1 PROVE r[a] \in ToSet(q) /\ r[a] # q[1]
      OBVIOUS
    <3>1. r[a] = q[a + 1] /\ a + 1 \in 1 .. Len(q) /\ a + 1 # 1 /\ 1 \in 1 .. Len(q)
      BY <1>1, <1>2, <2>1
    <3>2. q[a + 1] # q[1]
      BY <1>5, <3>1 DEF Distinct
    <3> QED BY <1>6, <3>1, <3>2
  <2>4. \A a \in 1 .. Len(q) : q[a] # q[1] => \E b \in 1 .. Len(q) - 1 : r[b] = q[a]
    BY <1>1, <1>2, <2>2
  <2>5. Distinct(r)
    <3> SUFFICES ASSUME NEW a \in 1 .. Len(r), NEW b \in 1 .. Len(r), r[a] = r[b] PROVE a = b
      BY DEF Distinct
    <3>1. a \in 1 .. Len(q) - 1 /\ b \in 1 .. Len(q) - 1 /\ a \in Int /\ b \in Int
      BY <1>2
    <3>2. a + 1 = b + 1
      BY <1>2, <1>5, <2>1, <3>1 DEF Distinct
    <3> QED BY <3>1, <3>2
  <2>6. ToSet(r) \subseteq ToSet(q) \ {q[1]}
    BY <1>2, <1>6, <2>3
  <2>7. ToSet(q) \ {q[1]} \subseteq ToSet(r)
    <3> SUFFICES ASSUME NEW i \in ToSet(q), i # q[1] PROVE i \in ToSet(r)
      OBVIOUS
    <3>1. PICK a \in 1 .. Len(q) : i = q[a]
      BY <1>6
    <3>2. PICK b \in 1 .. Len(q) - 1 : r[b] = q[a]
      BY <2>4, <3>1
    <3> QED BY <1>2, <1>6, <3>1, <3>2
  <2> QED BY <2>5, <2>6, <2>7
<1> QED BY <1>1, <1>2, <1>3, <1>4, <1>5 DEF r

-----------------------------------------------------------------------------
(* What InOrder returns: the rank of a number in a finite set takes each value once. *)

LEMMA Ranks ==
    ASSUME NEW S \in SUBSET Nat, IsFiniteSet(S)
    PROVE  /\ Cardinality(S) \in Nat
           /\ \A n \in 1 .. Cardinality(S) : \E i \in S : Cardinality({j \in S : j < i}) = n - 1
           /\ \A i \in S : Cardinality({j \in S : j < i}) + 1 \in 1 .. Cardinality(S)
           /\ \A h, i \in S : Cardinality({j \in S : j < h}) = Cardinality({j \in S : j < i})
                                => h = i
<1> DEFINE Below(i) == {j \in S : j < i}
           rank == [i \in S |-> Cardinality(Below(i))]
           T == 0 .. Cardinality(S) - 1
<1>1. Cardinality(S) \in Nat
  BY FS_CardinalityType
<1>2. \A i \in S : /\ IsFiniteSet(Below(i)) /\ Cardinality(Below(i)) \in Nat
                   /\ Cardinality(Below(i)) < Cardinality(S)
  <2> SUFFICES ASSUME NEW i \in S
               PROVE  /\ IsFiniteSet(Below(i)) /\ Cardinality(Below(i)) \in Nat
                      /\ Cardinality(Below(i)) < Cardinality(S)
    OBVIOUS
  <2>1. Below(i) \in SUBSET S /\ i \notin Below(i)
    OBVIOUS
  <2> HIDE DEF Below
  <2>2. /\ IsFiniteSet(Below(i)) /\ Cardinality(Below(i)) <= Cardinality(S)
        /\ Cardinality(S) = Cardinality(Below(i)) => S = Below(i)
    BY <2>1, FS_Subset
  <2>3. Cardinality(Below(i)) \in Nat
    BY <2>2, FS_CardinalityType
  <2> QED BY <1>1, <2>1, <2>2, <2>3
<1>3. \A h, i \in S : h < i => Cardinality(Below(h)) < Cardinality(Below(i))
  <2> SUFFICES ASSUME NEW h \in S, NEW i \in S, h < i
               PROVE  Cardinality(Below(h)) < Cardinality(Below(i))
    OBVIOUS
  <2>1. Below(h) \in SUBSET Below(i) /\ h \in Below(i) /\ h \notin Below(h)
    <3>1. \A j \in S : j \in Nat
      OBVIOUS
    <3>2. \A j \in Below(h) : j \in Below(i)
      BY <3>1
    <3>3. h \in Below(i) /\ h \notin Below(h)
      BY <3>1
    <3> QED BY <3>2, <3>3
  <2> HIDE DEF Below
  <2>2. /\ Cardinality(Below(h)) <= Cardinality(Below(i))
        /\ Cardinality(Below(i)) = Cardinality(Below(h)) => Below(i) = Below(h)
    BY <1>2, <2>1, FS_Subset
  <2> QED BY <1>2, <2>1, <2>2
<1>4. \A h, i \in S : Cardinality(Below(h)) = Cardinality(Below(i)) => h = i
  <2> SUFFICES ASSUME NEW h \in S, NEW i \in S, Cardinality(Below(h)) = Cardinality(Below(i)), h # i
               PROVE  FALSE
    OBVIOUS
  <2>1. h < i \/ i < h
    OBVIOUS
  <2> HIDE DEF Below
  <2> QED BY <1>2, <1>3, <2>1
<1> HIDE DEF Below
<1>5. rank \in [S -> T]
  BY <1>1, <1>2
<1>6. rank \in Injection(S, T)
  <2>1. \A i \in S : rank[i] = Cardinality(Below(i))
    OBVIOUS
  <2>2. DOMAIN rank = S
    OBVIOUS
  <2> HIDE DEF rank, T
  <2>3. IsInjective(rank)
    BY <1>4, <2>1, <2>2 DEF IsInjective
  <2> QED BY <1>5, <2>3 DEF Injection
<1>7. IsFiniteSet(T) /\ Cardinality(T) = Cardinality(S)
  <2> DEFINE c == Cardinality(S)
  <2>1. 0 \in Int /\ c - 1 \in Int /\ c \in Nat
    BY <1>1
  <2> HIDE DEF c
  <2>2. IsFiniteSet(0 .. c - 1) /\ Cardinality(0 .. c - 1) = IF 0 > c - 1 THEN 0 ELSE (c - 1) - 0 + 1
    BY <2>1, FS_Interval, Zenon
  <2>3. (IF 0 > c - 1 THEN 0 ELSE (c - 1) - 0 + 1) = c
    BY <2>1
  <2> QED BY <2>2, <2>3 DEF c
<1>8. rank \in Surjection(S, T)
  <2> HIDE DEF rank, T
  <2> QED BY <1>6, <1>7, FS_Injection
<1>9. \A n \in 1 .. Cardinality(S) : \E i \in S : Cardinality(Below(i)) = n - 1
  <2> SUFFICES ASSUME NEW n \in 1 .. Cardinality(S)
               PROVE  \E i \in S : Cardinality(Below(i)) = n - 1
    OBVIOUS
  <2>1. n - 1 \in T
    BY <1>1
  <2>2. \E i \in S : rank[i] = n - 1
    BY <1>8, <2>1 DEF Surjection
  <2> QED BY <2>2
<1>10. \A i \in S : Cardinality(Below(i)) + 1 \in 1 .. Cardinality(S)
  BY <1>1, <1>2
<1> QED BY <1>1, <1>4, <1>9, <1>10 DEF Below

LEMMA Ordered ==
    ASSUME NEW S \in SUBSET Nat, IsFiniteSet(S)
    PROVE  InOrder(S) \in Seq(Nat) /\ ToSet(InOrder(S)) = S /\ Distinct(InOrder(S))
<1> DEFINE Rank(i) == Cardinality({j \in S : j < i})
           c == Cardinality(S)
           pick == [n \in 1 .. c |-> CHOOSE i \in S : Rank(i) = n - 1]
<1>1. /\ c \in Nat
      /\ \A n \in 1 .. c : \E i \in S : Rank(i) = n - 1
      /\ \A i \in S : Rank(i) + 1 \in 1 .. c
      /\ \A h, i \in S : Rank(h) = Rank(i) => h = i
  BY Ranks
<1>2. InOrder(S) = pick
  BY DEF InOrder
<1> HIDE DEF Rank, c
<1>3. \A n \in 1 .. c : pick[n] \in S /\ Rank(pick[n]) = n - 1
  BY <1>1
<1>4. DOMAIN pick = 1 .. c
  OBVIOUS
<1> HIDE DEF pick
<1>5. pick \in [1 .. c -> Nat]
  BY <1>2, <1>3, <1>4 DEF pick
<1>6. pick \in Seq(Nat)
  BY <1>1, <1>5, SeqDef
<1>9. Len(pick) = c
  BY <1>1, <1>4
<1>7. Distinct(pick)
  <2> SUFFICES ASSUME NEW a \in 1 .. c, NEW b \in 1 .. c, pick[a] = pick[b] PROVE a = b
    BY <1>9 DEF Distinct
  <2> QED BY <1>1, <1>3
<1>8. \A i \in S : \E n \in 1 .. c : pick[n] = i
  <2> SUFFICES ASSUME NEW i \in S PROVE \E n \in 1 .. c : pick[n] = i
    OBVIOUS
  <2>1. Rank(i) + 1 \in 1 .. c
    BY <1>1
  <2>2. pick[Rank(i) + 1] \in S /\ Rank(pick[Rank(i) + 1]) = (Rank(i) + 1) - 1
    BY <1>3, <2>1
  <2>3. Rank(i) + 1 \in Nat /\ Rank(i) = (Rank(i) + 1) - 1
    <3>1. IsFiniteSet({j \in S : j < i})
      BY FS_Subset
    <3> QED BY <3>1, FS_CardinalityType DEF Rank
  <2>4. pick[Rank(i) + 1] = i
    BY <1>1, <2>2, <2>3
  <2> QED BY <2>1, <2>4
<1>10. ToSet(pick) = {pick[n] : n \in 1 .. c}
  BY <1>6, <1>9, ToSetIs
<1>11. ToSet(pick) = S
  <2>1. \A i \in ToSet(pick) : i \in S
    BY <1>3, <1>10
  <2>2. \A i \in S : i \in ToSet(pick)
    BY <1>8, <1>10
  <2> QED BY <2>1, <2>2
<1> QED BY <1>2, <1>6, <1>7, <1>11

-----------------------------------------------------------------------------
(* What the parts of the actions do to paho's queues *)

LEMMA Messages ==
    /\ \A k \in Samples : Telemetry(k) \in Bodies /\ Telemetry(k).status = None /\ Telemetry(k).sample = k
    /\ \A s \in Statuses : s \in Bodies /\ s.status # None /\ s.status \in {"ONLINE", "OFFLINE"}
    /\ \A k \in Samples, s \in Statuses : Telemetry(k) # s
    /\ \A j, k \in Samples : Telemetry(j) = Telemetry(k) => j = k
    /\ \A b \in Bodies : b.status = None => b.sample \in Samples /\ b = Telemetry(b.sample)
    /\ \A b \in Bodies : b.status # None => b = Status(b.status) /\ b \in Statuses /\ b.sample = 0
    /\ Status("ONLINE") \in Statuses /\ Status("OFFLINE") \in Statuses
    /\ Status("ONLINE") # Status("OFFLINE")
BY NoneAssumption DEF Bodies, Statuses, Telemetry, Status

\* A message is kept, under the next identifier.
Keeps(body) ==
    /\ mid' = mid + 1
    /\ out' = [i \in DOMAIN out \cup {mid'} |-> IF i = mid' THEN body ELSE out[i]]

LEMMA KeepsIt ==
    ASSUME TypeOK, NEW body \in Bodies, Keeps(body)
    PROVE  /\ mid' \in Nat /\ mid \in Nat /\ mid' = mid + 1 /\ mid' \notin DOMAIN out
           /\ DOMAIN out' = DOMAIN out \cup {mid'} /\ DOMAIN out' \subseteq 1 .. mid'
           /\ out'[mid'] = body /\ \A i \in DOMAIN out : out'[i] = out[i]
           /\ \A i \in DOMAIN out' : out'[i] \in Bodies
<1>1. mid \in Nat /\ DOMAIN out \subseteq 1 .. mid /\ \A i \in DOMAIN out : out[i] \in Bodies
  BY DEF TypeOK
<1>2. mid' = mid + 1 /\ mid' \in Nat
  BY <1>1 DEF Keeps
<1>3. mid' \notin DOMAIN out /\ DOMAIN out \cup {mid'} \subseteq 1 .. mid'
  BY <1>1, <1>2
<1>4. DOMAIN out' = DOMAIN out \cup {mid'}
  BY DEF Keeps
<1>5. out'[mid'] = body /\ \A i \in DOMAIN out : out'[i] = out[i]
  BY <1>3 DEF Keeps
<1>6. \A i \in DOMAIN out' : out'[i] \in Bodies
  BY <1>1, <1>4, <1>5
<1> QED BY <1>1, <1>2, <1>3, <1>4, <1>5, <1>6

LEMMA PublishIt ==
    ASSUME TypeOK, Queues, NEW body \in Bodies, Publish(body)
    PROVE  /\ Keeps(body) /\ sent' = sent
           /\ wire' \in Seq(Nat) /\ Distinct(wire')
           /\ IF HasSocket THEN ToSet(wire') = ToSet(wire) \cup {mid'} /\ wire' = Append(wire, mid')
                           ELSE wire' = wire
<1>1. Keeps(body) /\ sent' = sent
  BY DEF Publish, Keeps
<1>2. mid' \in Nat /\ mid' \notin DOMAIN out
  BY <1>1, KeepsIt
<1>3. wire \in Seq(Nat) /\ Distinct(wire) /\ mid' \notin ToSet(wire)
  BY <1>2 DEF TypeOK, Queues
<1>4. CASE HasSocket
  <2>1. wire' = Append(wire, mid')
    BY <1>4 DEF Publish
  <2> QED BY <1>1, <1>2, <1>3, <1>4, <2>1, Appended
<1>5. CASE ~HasSocket
  BY <1>1, <1>3, <1>5 DEF Publish
<1> QED BY <1>4, <1>5

LEMMA WriteIt ==
    ASSUME TypeOK, Queues, Write
    PROVE  LET h == Head(wire)
           IN  /\ h \in DOMAIN out /\ h \in ToSet(wire) /\ h \notin ToSet(sent)
               /\ h = wire[1] /\ Len(wire) >= 1 /\ Len(wire') = Len(wire) - 1
               /\ \A a \in 1 .. Len(wire) - 1 : wire'[a] = wire[a + 1]
               /\ wire' \in Seq(Nat) /\ ToSet(wire') = ToSet(wire) \ {h} /\ Distinct(wire')
               /\ sent' \in Seq(Nat) /\ ToSet(sent') = ToSet(sent) \cup {h} /\ Distinct(sent')
               /\ \/ /\ out[h] \in Statuses /\ retained' = out[h].status /\ received' = received
                  \/ \E k \in Samples :
                       /\ out[h] = Telemetry(k) /\ retained' = retained
                       /\ received' = [received EXCEPT ![k] = @ + 1]
<1> DEFINE h == Head(wire)
<1>1. /\ wire \in Seq(Nat) /\ wire # <<>> /\ sent \in Seq(Nat) /\ Distinct(wire) /\ Distinct(sent)
      /\ ToSet(wire) \subseteq DOMAIN out /\ ToSet(wire) \cap ToSet(sent) = {}
      /\ wire' = Tail(wire) /\ sent' = Append(sent, h)
      /\ \A i \in DOMAIN out : out[i] \in Bodies
  BY DEF TypeOK, Queues, Write
<1>2. /\ wire' \in Seq(Nat) /\ h = wire[1] /\ h \in ToSet(wire)
      /\ Len(wire) >= 1 /\ Len(wire') = Len(wire) - 1
      /\ \A a \in 1 .. Len(wire) - 1 : wire'[a] = wire[a + 1]
      /\ ToSet(wire') = ToSet(wire) \ {h} /\ Distinct(wire')
  BY <1>1, Shortened
<1>3. h \in DOMAIN out /\ h \notin ToSet(sent)
  BY <1>1, <1>2
<1>4. h \in Nat
  BY <1>3 DEF TypeOK
<1> HIDE DEF h
<1>5. sent' \in Seq(Nat) /\ ToSet(sent') = ToSet(sent) \cup {h} /\ Distinct(sent')
  BY <1>1, <1>3, <1>4, Appended
<1>6. CASE out[h].status # None
  <2>1. out[h] \in Statuses
    BY <1>1, <1>3, <1>6, Messages
  <2>2. retained' = out[h].status /\ received' = received
    BY <1>6 DEF Write, h
  <2> QED BY <1>2, <1>3, <1>5, <2>1, <2>2 DEF h
<1>7. CASE out[h].status = None
  <2>1. out[h].sample \in Samples /\ out[h] = Telemetry(out[h].sample)
    BY <1>1, <1>3, <1>7, Messages
  <2>2. retained' = retained /\ received' = [received EXCEPT ![out[h].sample] = @ + 1]
    BY <1>7 DEF Write, h
  <2> QED BY <1>2, <1>3, <1>5, <2>1, <2>2 DEF h
<1> QED BY <1>6, <1>7

LEMMA AcknowledgeIt ==
    ASSUME TypeOK, Queues, Acknowledged
    PROVE  LET h == Head(sent)
           IN  /\ h \in DOMAIN out /\ h \in ToSet(sent) /\ h \notin ToSet(wire)
               /\ DOMAIN out' = DOMAIN out \ {h} /\ \A i \in DOMAIN out' : out'[i] = out[i]
               /\ sent' \in Seq(Nat) /\ ToSet(sent') = ToSet(sent) \ {h} /\ Distinct(sent')
<1>1. /\ sent \in Seq(Nat) /\ sent # <<>> /\ Distinct(sent) /\ sent' = Tail(sent)
      /\ ToSet(sent) \subseteq DOMAIN out /\ ToSet(wire) \cap ToSet(sent) = {}
  BY DEF TypeOK, Queues, Acknowledged
<1>2. /\ sent' \in Seq(Nat) /\ Head(sent) \in ToSet(sent)
      /\ ToSet(sent') = ToSet(sent) \ {Head(sent)} /\ Distinct(sent')
  BY <1>1, Shortened
<1>3. DOMAIN out' = DOMAIN out \ {Head(sent)} /\ \A i \in DOMAIN out' : out'[i] = out[i]
  BY DEF Acknowledged, Without
<1> QED BY <1>1, <1>2, <1>3

LEMMA ResumeIt ==
    ASSUME TypeOK, Queues, sent = <<>>, Resume
    PROVE  /\ net' = At("loop") /\ sent' = sent
           /\ wire' \in Seq(Nat) /\ ToSet(wire') = DOMAIN out /\ Distinct(wire')
           /\ Len(wire) \in Nat /\ Len(wire') \in Nat /\ Len(wire') >= Len(wire)
           /\ \A a \in 1 .. Len(wire) : wire'[a] = wire[a]
           /\ \A a \in Len(wire) + 1 .. Len(wire') : wire'[a] \in DOMAIN out \ ToSet(wire)
<1> DEFINE rest == DOMAIN out \ ToSet(wire)
           q == InOrder(rest)
<1>1. /\ wire \in Seq(Nat) /\ Distinct(wire) /\ ToSet(wire) \subseteq DOMAIN out
      /\ mid \in Nat /\ DOMAIN out \subseteq 1 .. mid
  BY DEF TypeOK, Queues
<1>2. rest \in SUBSET Nat /\ IsFiniteSet(rest)
  <2>1. rest \in SUBSET (1 .. mid) /\ 1 .. mid \subseteq Nat
    BY <1>1
  <2>2. IsFiniteSet(1 .. mid)
    BY <1>1, FS_Interval
  <2> HIDE DEF rest
  <2> QED BY <2>1, <2>2, FS_Subset
<1> HIDE DEF rest
<1>3. q \in Seq(Nat) /\ ToSet(q) = rest /\ Distinct(q)
  BY <1>2, Ordered
<1> HIDE DEF q
<1>4. wire' = wire \o q /\ net' = At("loop") /\ sent' = sent
  BY DEF Resume, q, rest
<1>5. /\ wire' \in Seq(Nat) /\ Len(wire') = Len(wire) + Len(q)
      /\ \A a \in 1 .. Len(wire) + Len(q) :
           wire'[a] = IF a <= Len(wire) THEN wire[a] ELSE q[a - Len(wire)]
  BY <1>1, <1>3, <1>4, ConcatProperties
<1>6. Len(wire) \in Nat /\ Len(q) \in Nat
  BY <1>1, <1>3, LenProperties
<1>7. /\ ToSet(wire') = {wire'[a] : a \in 1 .. Len(wire')}
      /\ ToSet(wire) = {wire[a] : a \in 1 .. Len(wire)}
      /\ ToSet(q) = {q[a] : a \in 1 .. Len(q)}
  BY <1>1, <1>3, <1>5, ToSetIs
<1>8. \A a \in 1 .. Len(wire) : wire'[a] = wire[a] /\ wire[a] \in ToSet(wire)
  BY <1>5, <1>6, <1>7
<1>9. \A a \in Len(wire) + 1 .. Len(wire') :
        /\ a - Len(wire) \in 1 .. Len(q)
        /\ wire'[a] = q[a - Len(wire)] /\ q[a - Len(wire)] \in rest
  <2> SUFFICES ASSUME NEW a \in Len(wire) + 1 .. Len(wire')
               PROVE  /\ a - Len(wire) \in 1 .. Len(q)
                      /\ wire'[a] = q[a - Len(wire)] /\ q[a - Len(wire)] \in rest
    OBVIOUS
  <2>1. a \in 1 .. Len(wire) + Len(q) /\ ~(a <= Len(wire)) /\ a - Len(wire) \in 1 .. Len(q)
    BY <1>5, <1>6
  <2>2. wire'[a] = q[a - Len(wire)]
    BY <1>5, <2>1
  <2>3. q[a - Len(wire)] \in ToSet(q)
    BY <1>7, <2>1
  <2> QED BY <1>3, <2>1, <2>2, <2>3
<1>10. \A a \in 1 .. Len(wire') : a \in 1 .. Len(wire) \/ a \in Len(wire) + 1 .. Len(wire')
  BY <1>5, <1>6
<1>11. ToSet(wire') = DOMAIN out
  <2>1. \A i \in ToSet(wire') : i \in DOMAIN out
    BY <1>1, <1>7, <1>8, <1>9, <1>10 DEF rest
  <2>2. \A i \in ToSet(wire) : i \in ToSet(wire')
    <3>1. \A a \in 1 .. Len(wire) : a \in 1 .. Len(wire')
      BY <1>5, <1>6
    <3> QED BY <1>7, <1>8, <3>1
  <2>3. \A i \in rest : i \in ToSet(wire')
    <3> SUFFICES ASSUME NEW i \in rest PROVE i \in ToSet(wire')
      OBVIOUS
    <3>1. PICK a \in 1 .. Len(q) : i = q[a]
      BY <1>3, <1>7
    <3>2. a + Len(wire) \in Len(wire) + 1 .. Len(wire') /\ (a + Len(wire)) - Len(wire) = a
      BY <1>5, <1>6
    <3>3. wire'[a + Len(wire)] = q[a]
      BY <1>9, <3>2
    <3>4. a + Len(wire) \in 1 .. Len(wire')
      BY <1>6, <3>2
    <3> QED BY <1>7, <3>1, <3>3, <3>4
  <2> QED BY <1>1, <2>1, <2>2, <2>3 DEF rest
<1>12. Distinct(wire')
  <2> SUFFICES ASSUME NEW a \in 1 .. Len(wire'), NEW b \in 1 .. Len(wire'), wire'[a] = wire'[b]
               PROVE  a = b
    BY DEF Distinct
  <2>1. CASE a \in 1 .. Len(wire) /\ b \in 1 .. Len(wire)
    BY <1>1, <1>8, <2>1 DEF Distinct
  <2>2. CASE a \in Len(wire) + 1 .. Len(wire') /\ b \in Len(wire) + 1 .. Len(wire')
    <3>1. a - Len(wire) = b - Len(wire)
      BY <1>3, <1>9, <2>2 DEF Distinct
    <3> QED BY <1>6, <3>1
  <2>3. CASE a \in 1 .. Len(wire) /\ b \in Len(wire) + 1 .. Len(wire')
    BY <1>8, <1>9, <2>3 DEF rest
  <2>4. CASE b \in 1 .. Len(wire) /\ a \in Len(wire) + 1 .. Len(wire')
    BY <1>8, <1>9, <2>4 DEF rest
  <2> QED BY <1>10, <2>1, <2>2, <2>3, <2>4
<1> QED BY <1>4, <1>5, <1>6, <1>8, <1>9, <1>11, <1>12 DEF rest

-----------------------------------------------------------------------------
(* Actions that touch neither paho's queues nor the samples *)

Aside == Breaks \/ Will \/ _on_disconnect \/ LoopStop

LEMMA AsideStep == ASSUME IInv, Aside PROVE IInv'
<1> USE DEF IInv
<1>1. /\ UNCHANGED <<scenario, machine, seq, buffer, mid, out, wire, sent, received, evicted,
                     strained, late>>
      /\ main' = main \/ (main.at = "stopping" /\ main' = [main EXCEPT !.at = "stopped"])
      /\ net' = net \/ net' = At("offline") \/ net' = At("stopped")
      /\ net'.at = "offline" => net.at \in {"closed", "offline"}
      /\ net.at = "flushing" => net' = net
  BY DEF Aside, Breaks, Will, _on_disconnect, LoopStop, Main, At, paho, broker
<1>2. TypeOK'
  <2>1. main' \in [at : {"idle", "flush", "waiting", "live", "exit", "stopping", "stopped", "gone"},
                   mid : Nat, live : BOOLEAN]
    BY <1>1 DEF TypeOK
  <2>2. net' \in [at : {"offline", "connected", "flushing", "loop", "closed", "stopped"}, mid : Nat]
    BY <1>1 DEF TypeOK, At
  <2>3. connected' \in BOOLEAN /\ link' \in BOOLEAN /\ session' \in BOOLEAN
        /\ retained' \in {"ONLINE", "OFFLINE"}
    BY DEF TypeOK, Aside, Breaks, Will, _on_disconnect, LoopStop, broker
  <2> QED BY <1>1, <2>1, <2>2, <2>3 DEF TypeOK
<1>3. Queues'
  BY <1>1 DEF Queues, Distinct, At
<1>4. Threads'
  BY DEF Threads, TypeOK, HasSocket, Aside, Breaks, Will, _on_disconnect, LoopStop, Main, At,
         paho, broker
<1>5. Peeked'
  BY <1>1 DEF Peeked, TypeOK
<1>6. Backlog' /\ Accounted'
  BY <1>1 DEF Backlog, Accounted, InDeque, InPaho, InHand, TypeOK
<1>7. Copies'
  <2>1. \A k : (Twofold(k) <=> Twofold(k)') /\ (InHand(k)' => InHand(k)) /\ (Awaited(k) => Awaited(k)')
    BY <1>1 DEF Twofold, InHand, Awaited, At, TypeOK
  <2>2. \A k : (Unpublished(k) => Unpublished(k)') /\ (Once(k) => Once(k)')
    BY <1>1, <2>1 DEF Unpublished, Once, Unsent
  <2> QED BY <1>1, <2>1, <2>2 DEF Copies
<1>8. Heard'
  <2>1. CASE Breaks \/ Will \/ _on_disconnect
    BY <2>1 DEF Heard, Threads, Running, Parting, HasSocket, TypeOK, Breaks, Will, _on_disconnect,
                At, paho, broker
  <2>2. CASE LoopStop
    <3>1. /\ link => net.at = "loop" /\ wire = <<>> 
          /\ main.at = "stopping" /\ main'.at = "stopped" /\ net'.at = "stopped"
          /\ UNCHANGED <<link, retained, session, late>>
      BY <2>2 DEF LoopStop, Threads, HasSocket, TypeOK, Main, At, broker
    <3>2. link /\ ~late => retained = "OFFLINE"
      BY <3>1, EmptySeq DEF Heard, HasSocket, Parting
    <3> QED BY <1>1, <3>1, <3>2 DEF Heard, Running, HasSocket
  <2> QED BY <2>1, <2>2 DEF Aside
<1>9. Trips'
  BY <1>1 DEF Trips
<1> QED BY <1>2, <1>3, <1>4, <1>5, <1>6, <1>7, <1>8, <1>9

-----------------------------------------------------------------------------
(* The end of the process *)

LEMMA EndStep == ASSUME IInv, Leave \/ Killed PROVE IInv'
<1> USE DEF IInv
<1>1. /\ main' = [at |-> "gone", mid |-> 0, live |-> FALSE] /\ net' = At("stopped")
      /\ link' = FALSE /\ connected' = FALSE /\ machine' = Started
      /\ mid' = 0 /\ seq' = 0 /\ buffer' = <<>> /\ out' = <<>> /\ wire' = <<>> /\ sent' = <<>>
      /\ evicted' = {} /\ UNCHANGED <<scenario, retained, received, strained, late>>
      /\ session' = session \/ (main.at = "stopped" /\ session' = (session /\ ~link))
  BY DEF Leave, Killed, Ends, broker
<1>2. /\ DOMAIN out' = {} /\ Len(buffer') = 0 /\ Len(wire') = 0 /\ Len(sent') = 0
      /\ ToSet(wire') = {} /\ ToSet(sent') = {}
      /\ buffer' \in Seq(Samples) /\ wire' \in Seq(Nat) /\ sent' \in Seq(Nat)
  <2>1. DOMAIN <<>> = {} /\ Len(<<>>) = 0
    OBVIOUS
  <2>2. ToSet(<<>>) = {}
    BY <2>1 DEF ToSet
  <2> QED BY <1>1, <2>1, <2>2, EmptySeq
<1>3. TypeOK'
  <2>1. Len(buffer') <= Capacity
    BY <1>2, CapacityAssumption
  <2>2. session' \in BOOLEAN
    BY <1>1 DEF TypeOK
  <2>3. main' \in [at : {"idle", "flush", "waiting", "live", "exit", "stopping", "stopped", "gone"},
                   mid : Nat, live : BOOLEAN]
        /\ net' \in [at : {"offline", "connected", "flushing", "loop", "closed", "stopped"}, mid : Nat]
    BY <1>1 DEF At
  <2>4. seq' \in 0 .. MaxSamples /\ connected' \in BOOLEAN /\ link' \in BOOLEAN /\ late' \in BOOLEAN
        /\ mid' \in Nat /\ retained' \in {"ONLINE", "OFFLINE"} /\ received' \in [Samples -> Nat]
        /\ evicted' \subseteq Samples /\ strained' \subseteq 0 .. MaxSamples
    <3>2. seq' \in 0 .. MaxSamples /\ mid' \in Nat /\ evicted' \subseteq Samples
      BY <1>1
    <3>4. connected' \in BOOLEAN /\ link' \in BOOLEAN
      BY <1>1
    <3>3. retained' \in {"ONLINE", "OFFLINE"} /\ received' \in [Samples -> Nat]
          /\ late' \in BOOLEAN /\ strained' \subseteq 0 .. MaxSamples
      BY <1>1 DEF TypeOK
    <3> QED BY <3>2, <3>3, <3>4
  <2>5. DOMAIN out' \subseteq 1 .. mid' /\ \A i \in DOMAIN out' : out'[i] \in Bodies'
    BY <1>2
  <2> QED BY <1>2, <2>1, <2>2, <2>3, <2>4, <2>5 DEF TypeOK
<1>4. Queues'
  BY <1>1, <1>2 DEF Queues, Distinct
<1>5. Threads'
  BY <1>1 DEF Threads, HasSocket, At
<1>6. Peeked' /\ Backlog' /\ Accounted'
  BY <1>1, <1>2 DEF Peeked, Backlog, Accounted, InHand
<1>7. Copies'
  BY <1>1, <1>2 DEF Copies, Once, Unsent, Twofold, TypeOK, At
<1>8. Heard'
  BY <1>1 DEF Heard, Running
<1>9. Trips'
  <2>1. machine' = Started /\ scenario' = scenario /\ scenario \in Scenarios
    BY <1>1 DEF Trips
  <2>2. IsMachine(Started) /\ Started.step = 0 /\ Started.ramp = 0 /\ Started.state = "STARTING"
    BY DEF IsMachine, Started
  <2> QED BY <2>1, <2>2, RampAssumption DEF Trips
<1> QED BY <1>3, <1>4, <1>5, <1>6, <1>7, <1>8, <1>9

-----------------------------------------------------------------------------
(* A step of the machine *)

LEMMA MachineStep ==
    ASSUME Trips, NEW exceeded \in Limits \cup {None},
           machine' = Stepped(machine, scenario, exceeded), UNCHANGED scenario
    PROVE  Trips'
<1> USE DEF IsMachine
<1> DEFINE sc == scenario
           m == BeginFault(machine, sc)
           n == machine.step
<1>1. sc \in Scenarios /\ IsMachine(machine)
  BY DEF Trips
<1>2. sc.trip # None => sc.trigger \in Nat /\ sc.delay \in Nat /\ sc.fault # "none" /\ ~Silent(machine, sc)
  BY <1>1, ScenariosAssumption DEF Silent
<1>3. CASE Silent(machine, sc)
  <2>1. machine' = [machine EXCEPT !.step = @ + 1]
    BY <1>3 DEF Stepped
  <2>2. IsMachine(machine')
    BY <1>1, <2>1
  <2> QED BY <1>1, <1>2, <1>3, <2>2 DEF Trips
<1>4. CASE ~Silent(machine, sc)
  <2>1. machine' = [Evolve(m, sc, exceeded) EXCEPT !.step = @ + 1]
    BY <1>4 DEF Stepped
  <2>2. /\ IsMachine(m) /\ m.step = n /\ m.ramp = machine.ramp
        /\ m.state = machine.state \/ (machine.state = "RUNNING" /\ m.state = "DEGRADING")
        /\ sc.trip # None /\ n >= sc.trigger => m.fault
    <3> DEFINE begins == n >= sc.trigger /\ ~machine.fault /\ sc.fault # "none"
    <3>1. CASE begins
      <4>1. m = [machine EXCEPT !.fault = TRUE, !.state = IF @ = "RUNNING" THEN "DEGRADING" ELSE @]
        BY <3>1 DEF BeginFault
      <4> QED BY <1>1, <4>1
    <3>2. CASE ~begins
      <4>1. m = machine
        BY <3>2 DEF BeginFault
      <4>2. sc.trip # None /\ n >= sc.trigger => machine.fault
        BY <1>2, <3>2
      <4> QED BY <1>1, <4>1, <4>2
    <3> QED BY <3>1, <3>2
  <2> HIDE DEF m
  <2> DEFINE e == Evolve(m, sc, exceeded)
  <2>3. /\ IsMachine(e) /\ e.step = n
        /\ e.state = "STARTING" => m.state = "STARTING" /\ m.ramp + 1 < RampTicks /\ e.ramp = m.ramp + 1
        /\ e.state \in {"RUNNING", "DEGRADING"} =>
             \/ m.state = "STARTING"
             \/ m.state = e.state /\ (sc.trip # None /\ m.fault => n - sc.trigger < sc.delay)
    <3>1. CASE m.state = "STARTING"
      <4>1. e = [m EXCEPT !.ramp = @ + 1,
                          !.state = IF m.ramp + 1 >= RampTicks THEN "RUNNING" ELSE @]
        BY <3>1 DEF Evolve, RampUp
      <4>2. CASE m.ramp + 1 >= RampTicks
        BY <2>2, <3>1, <4>1, <4>2
      <4>3. CASE ~(m.ramp + 1 >= RampTicks)
        <5>1. m.ramp + 1 < RampTicks
          BY <2>2, <4>3, RampAssumption
        <5> QED BY <2>2, <3>1, <4>1, <4>3, <5>1
      <4> QED BY <4>2, <4>3
    <3>2. CASE m.state \in {"RUNNING", "DEGRADING"}
      <4>1. e = SafetyTrips(m, sc, exceeded)
        BY <3>2 DEF Evolve
      <4>2. CASE sc.trip # None /\ m.fault
        <5>1. e = IF n - sc.trigger >= sc.delay THEN trigger_trip(m, sc.trip) ELSE m
          BY <2>2, <4>1, <4>2 DEF SafetyTrips
        <5>2. CASE n - sc.trigger >= sc.delay
          <6>1. e = [m EXCEPT !.state = "TRIPPED", !.trip = sc.trip]
            BY <5>1, <5>2 DEF trigger_trip
          <6> QED BY <2>2, <6>1
        <5>3. CASE ~(n - sc.trigger >= sc.delay)
          <6>1. e = m /\ n \in Nat /\ sc.trigger \in Nat /\ sc.delay \in Nat
            BY <1>1, <1>2, <4>2, <5>1, <5>3
          <6>2. n - sc.trigger < sc.delay
            BY <5>3, <6>1
          <6> QED BY <2>2, <3>2, <6>1, <6>2
        <5> QED BY <5>2, <5>3
      <4>3. CASE ~(sc.trip # None /\ m.fault)
        BY <2>2, <3>2, <4>1, <4>3 DEF SafetyTrips, trigger_trip
      <4> QED BY <4>2, <4>3
    <3>3. CASE m.state = "TRIPPED"
      BY <2>2, <3>3 DEF Evolve
    <3> QED BY <2>2, <3>1, <3>2, <3>3
  <2> HIDE DEF e
  <2>4. IsMachine(machine') /\ machine'.step = n + 1 /\ machine'.state = e.state /\ machine'.ramp = e.ramp
    BY <2>1, <2>3 DEF e
  <2>5. ASSUME sc.trip # None
        PROVE  /\ machine'.state = "STARTING" => machine'.ramp = n + 1 /\ n + 1 < RampTicks
               /\ machine'.state \in {"RUNNING", "DEGRADING"} =>
                    n + 1 <= sc.trigger + sc.delay \/ n + 1 <= RampTicks
    <3>1. /\ machine.state = "STARTING" => machine.ramp = n /\ n < RampTicks
          /\ n \in Nat /\ sc.trigger \in Nat /\ sc.delay \in Nat /\ RampTicks \in Nat
      BY <1>1, <1>2, <2>5, RampAssumption DEF Trips
    <3>2. CASE e.state = "STARTING"
      BY <2>2, <2>3, <2>4, <3>1, <3>2
    <3>3. CASE e.state \in {"RUNNING", "DEGRADING"}
      <4>1. CASE m.state = "STARTING"
        BY <2>2, <2>4, <3>1, <3>3, <4>1
      <4>2. CASE n < sc.trigger
        BY <2>4, <3>1, <3>3, <4>2
      <4>3. CASE m.state # "STARTING" /\ n >= sc.trigger
        BY <2>2, <2>3, <2>4, <2>5, <3>1, <3>3, <4>3
      <4> QED BY <3>1, <4>1, <4>2, <4>3
    <3> QED BY <2>4, <3>2, <3>3
  <2> QED BY <1>1, <2>4, <2>5 DEF Trips
<1> QED BY <1>3, <1>4

-----------------------------------------------------------------------------
(* The deque *)

\* Append moves a full deque up by one, and its front is gone.
LEMMA BufferIt ==
    ASSUME TypeOK, NEW k \in Samples, Buffer(k)
    PROVE  /\ Len(buffer) \in Nat /\ Len(buffer') \in Nat /\ Len(buffer') >= 1
           /\ buffer' \in Seq(Samples) /\ Len(buffer') <= Capacity /\ buffer'[Len(buffer')] = k
           /\ \E d \in {0, 1} :
                /\ Len(buffer') = Len(buffer) + 1 - d /\ d <= Len(buffer)
                /\ \A i \in 1 .. Len(buffer) - d : buffer'[i] = buffer[i + d]
                /\ evicted' = IF d = 1 THEN evicted \cup {buffer[1]} ELSE evicted
<1>1. buffer \in Seq(Samples) /\ Len(buffer) \in Nat /\ Len(buffer) <= Capacity
  BY LenProperties DEF TypeOK
<1>2. CASE Len(buffer) = Capacity
  <2> DEFINE kept == Tail(buffer)
  <2>1. Len(buffer) >= 1 /\ buffer # <<>>
    BY <1>1, <1>2, CapacityAssumption, EmptySeq
  <2>2. /\ kept \in Seq(Samples) /\ Len(kept) = Len(buffer) - 1 /\ Head(buffer) = buffer[1]
        /\ \A i \in 1 .. Len(buffer) - 1 : kept[i] = buffer[i + 1]
    BY <1>1, <2>1, HeadTailProperties
  <2>3. buffer' = Append(kept, k) /\ evicted' = evicted \cup {buffer[1]}
    BY <1>2, <2>2 DEF Buffer
  <2> HIDE DEF kept
  <2>4. /\ buffer' \in Seq(Samples) /\ Len(buffer') = Len(kept) + 1 /\ buffer'[Len(kept) + 1] = k
        /\ \A i \in 1 .. Len(kept) : buffer'[i] = kept[i]
    BY <2>2, <2>3, AppendProperties
  <2>5. /\ Len(buffer') = Len(buffer) + 1 - 1 /\ 1 <= Len(buffer)
        /\ \A i \in 1 .. Len(buffer) - 1 : buffer'[i] = buffer[i + 1]
        /\ evicted' = IF 1 = 1 THEN evicted \cup {buffer[1]} ELSE evicted
    BY <1>1, <2>1, <2>2, <2>3, <2>4
  <2>6. /\ Len(buffer') \in Nat /\ Len(buffer') >= 1 /\ Len(buffer') <= Capacity
        /\ buffer'[Len(buffer')] = k
    BY <1>1, <2>1, <2>2, <2>4
  <2> QED BY <1>1, <2>4, <2>5, <2>6
<1>3. CASE Len(buffer) # Capacity
  <2>1. buffer' = Append(buffer, k) /\ evicted' = evicted
    BY <1>3 DEF Buffer
  <2>2. /\ buffer' \in Seq(Samples) /\ Len(buffer') = Len(buffer) + 1 /\ buffer'[Len(buffer) + 1] = k
        /\ \A i \in 1 .. Len(buffer) : buffer'[i] = buffer[i]
    BY <1>1, <2>1, AppendProperties
  <2>3. /\ Len(buffer') = Len(buffer) + 1 - 0 /\ 0 <= Len(buffer)
        /\ \A i \in 1 .. Len(buffer) - 0 : buffer'[i] = buffer[i + 0]
        /\ evicted' = IF 0 = 1 THEN evicted \cup {buffer[1]} ELSE evicted
    BY <1>1, <2>1, <2>2
  <2>4. /\ Len(buffer') \in Nat /\ Len(buffer') >= 1 /\ Len(buffer') <= Capacity
        /\ buffer'[Len(buffer')] = k
    BY <1>1, <1>3, <2>2, CapacityAssumption
  <2> QED BY <1>1, <2>2, <2>3, <2>4
<1> QED BY <1>2, <1>3

\* popleft.
LEMMA PopIt ==
    ASSUME TypeOK, buffer # <<>>, buffer' = Tail(buffer)
    PROVE  /\ Len(buffer) \in Nat \ {0} /\ Len(buffer') = Len(buffer) - 1
           /\ buffer' \in Seq(Samples) /\ Len(buffer') <= Capacity
           /\ Head(buffer) = buffer[1] /\ buffer[1] \in Samples
           /\ \A i \in 1 .. Len(buffer) - 1 : buffer'[i] = buffer[i + 1]
<1>1. buffer \in Seq(Samples) /\ Len(buffer) \in Nat \ {0} /\ Len(buffer) <= Capacity
  BY EmptySeq DEF TypeOK
<1>2. buffer[1] \in Samples
  BY <1>1, ElementOfSeq
<1> QED BY <1>1, <1>2, HeadTailProperties, CapacityAssumption

LEMMA Deque ==
    ASSUME TypeOK
    PROVE  /\ buffer \in Seq(Samples) /\ Len(buffer) \in Nat /\ DOMAIN buffer = 1 .. Len(buffer)
           /\ \A i \in 1 .. Len(buffer) : buffer[i] \in Samples
           /\ buffer # <<>> => Len(buffer) >= 1 /\ Head(buffer) = buffer[1] /\ buffer[1] \in Samples
<1>1. buffer \in Seq(Samples)
  BY DEF TypeOK
<1> QED BY <1>1, LenProperties, ElementOfSeq, EmptySeq

-----------------------------------------------------------------------------
(* The machine's steps *)

LEMMA SilentStep == ASSUME IInv, Step, Silent(machine, scenario) PROVE IInv'
<1> USE DEF IInv
<1>1. /\ main.at = "idle" /\ main' = [main EXCEPT !.at = "exit"]
      /\ UNCHANGED <<seq, buffer, evicted, scenario, connected, net, link, mid, out, wire, sent,
                     session, retained, received, strained, late>>
  BY DEF Step, Main, paho, broker
<1>2. main'.at = "exit"
  BY <1>1 DEF TypeOK
<1>3. TypeOK'
  BY <1>1 DEF TypeOK
<1>4. Queues' /\ Threads' /\ Peeked'
  BY <1>1, <1>2 DEF Queues, Distinct, Threads, HasSocket, Peeked
<1>5. \A k : ~InHand(k)' /\ ~InHand(k) /\ ~Awaited(k) /\ (Twofold(k) <=> Twofold(k)')
             /\ (Unpublished(k) <=> Unpublished(k)') /\ (Once(k) <=> Once(k)')
  BY <1>1, <1>2 DEF InHand, Awaited, Twofold, Unpublished, Once, Unsent
<1>6. Backlog' /\ Accounted'
  BY <1>1, <1>2, <1>5 DEF Backlog, Accounted, InDeque, InPaho
<1>7. Copies'
  BY <1>1, <1>2, <1>5 DEF Copies
<1>8. Heard'
  BY <1>1, <1>2 DEF Heard, Running, HasSocket
<1>9. Trips'
  BY <1>1, MachineStep DEF Step
<1> QED BY <1>3, <1>4, <1>6, <1>7, <1>8, <1>9

\* What a new sample changes, wherever it goes.
LEMMA SampleStep ==
    ASSUME IInv, Step, ~Silent(machine, scenario)
    PROVE  /\ main.at = "idle" /\ seq \in Nat /\ seq' = seq + 1 /\ seq' \in Samples
           /\ UNCHANGED <<scenario, connected, net, link, mid, out, wire, sent, session, retained,
                          received, strained, late>>
           /\ \/ /\ connected /\ main' = [at |-> "flush", mid |-> 0, live |-> TRUE]
                 /\ UNCHANGED <<buffer, evicted>>
              \/ Buffer(seq') /\ main' = main
           /\ Queues' /\ Threads' /\ Peeked' /\ Heard' /\ Trips'
           /\ Unpublished(seq') /\ \A k \in Samples : k > seq' => k > seq
<1> USE DEF IInv
<1>1. /\ main.at = "idle" /\ seq' = seq + 1 /\ seq < MaxSamples
      /\ UNCHANGED <<scenario, connected, net, link, mid, out, wire, sent, session, retained,
                     received, strained, late>>
      /\ \/ /\ connected /\ main' = [at |-> "flush", mid |-> 0, live |-> TRUE]
            /\ UNCHANGED <<buffer, evicted>>
         \/ Buffer(seq') /\ main' = main
  BY DEF Step, paho, broker
<1>2. main'.at \in {"idle", "flush"}
  BY <1>1
<1>3. seq \in Nat /\ seq' \in Samples /\ \A k \in Samples : k > seq' => k > seq
  BY <1>1 DEF TypeOK, Samples
<1>4. Queues' /\ Threads' /\ Peeked'
  BY <1>1, <1>2 DEF Queues, Distinct, Threads, HasSocket, Peeked
<1>5. Heard'
  BY <1>1, <1>2 DEF Heard, Running, HasSocket
<1>6. Trips'
  BY <1>1, MachineStep DEF Step
<1>7. Unpublished(seq')
  BY <1>1, <1>3 DEF Copies
<1> QED BY <1>1, <1>3, <1>4, <1>5, <1>6, <1>7

LEMMA LiveStep ==
    ASSUME IInv, Step, ~Silent(machine, scenario), connected, UNCHANGED <<buffer, evicted>>,
           main' = [at |-> "flush", mid |-> 0, live |-> TRUE]
    PROVE  IInv'
<1> USE DEF IInv
<1>1. /\ main.at = "idle" /\ seq \in Nat /\ seq' = seq + 1 /\ seq' \in Samples
      /\ UNCHANGED <<scenario, connected, net, link, mid, out, wire, sent, session, retained,
                     received, strained, late>>
      /\ Queues' /\ Threads' /\ Peeked' /\ Heard' /\ Trips'
      /\ Unpublished(seq') /\ \A k \in Samples : k > seq' => k > seq
  BY SampleStep
<1>2. TypeOK'
  <2>1. seq' \in 0 .. MaxSamples
    BY <1>1 DEF Samples
  <2>2. main' \in [at : {"idle", "flush", "waiting", "live", "exit", "stopping", "stopped", "gone"},
                   mid : Nat, live : BOOLEAN]
    OBVIOUS
  <2> QED BY <1>1, <2>1, <2>2 DEF TypeOK
<1>3. \A k : /\ ~InHand(k) /\ ~Awaited(k) /\ (InHand(k)' <=> k = seq')
             /\ (Twofold(k) <=> Twofold(k)')
             /\ (Unpublished(k) <=> Unpublished(k)') /\ (Once(k) <=> Once(k)')
             /\ (InPaho(k) <=> InPaho(k)') /\ (InDeque(k) <=> InDeque(k)')
  BY <1>1 DEF InHand, Awaited, Twofold, Unpublished, Once, Unsent, InPaho, InDeque
<1>4. Backlog'
  <2>1. \A k \in Nat : k <= seq => k <= seq' /\ k # seq'
    BY <1>1
  <2>2. \A i \in 1 .. Len(buffer) : buffer[i] \in Nat
    BY Deque DEF Samples
  <2>3. \A k \in evicted : k \in Nat
    BY DEF TypeOK, Samples
  <2>4. seq' > 0
    BY <1>1
  <2> QED BY <1>1, <1>3, <2>1, <2>2, <2>3, <2>4 DEF Backlog
<1>5. Accounted'
  <2>1. \A k \in 1 .. seq' : k \in 1 .. seq \/ k = seq'
    BY <1>1
  <2> QED BY <1>1, <1>3, <2>1 DEF Accounted
<1>6. Copies'
  BY <1>1, <1>3 DEF Copies
<1> QED BY <1>1, <1>2, <1>4, <1>5, <1>6

LEMMA BufferStep ==
    ASSUME IInv, Step, ~Silent(machine, scenario), Buffer(seq'), UNCHANGED main
    PROVE  IInv'
<1> USE DEF IInv
<1>1. /\ main.at = "idle" /\ seq \in Nat /\ seq' = seq + 1 /\ seq' \in Samples
      /\ UNCHANGED <<scenario, connected, net, link, mid, out, wire, sent, session, retained,
                     received, strained, late>>
      /\ Queues' /\ Threads' /\ Peeked' /\ Heard' /\ Trips'
      /\ Unpublished(seq') /\ \A k \in Samples : k > seq' => k > seq
  BY SampleStep
<1> DEFINE n == Len(buffer)
           m == Len(buffer')
<1>2. /\ n \in Nat /\ m \in Nat /\ m >= 1
      /\ buffer' \in Seq(Samples) /\ m <= Capacity /\ buffer'[m] = seq'
  BY <1>1, BufferIt
<1>3. PICK d \in {0, 1} :
        /\ m = n + 1 - d /\ d <= n
        /\ \A i \in 1 .. n - d : buffer'[i] = buffer[i + d]
        /\ evicted' = IF d = 1 THEN evicted \cup {buffer[1]} ELSE evicted
  BY <1>1, BufferIt
<1>4. \A i \in 1 .. n : buffer[i] \in Samples /\ buffer[i] \in Nat
  BY Deque DEF Samples
<1> HIDE DEF n, m
\* Where the samples of the deque come from, and where they go.
<1>5. \A i \in 1 .. m : i = m \/ (i \in 1 .. n - d /\ i + d \in 1 .. n /\ buffer'[i] = buffer[i + d])
  BY <1>2, <1>3
<1>6. \A i \in 1 .. n : \/ d = 1 /\ i = 1
                        \/ i - d \in 1 .. m /\ buffer'[i - d] = buffer[i]
  <2> SUFFICES ASSUME NEW i \in 1 .. n, ~(d = 1 /\ i = 1)
               PROVE  i - d \in 1 .. m /\ buffer'[i - d] = buffer[i]
    OBVIOUS
  <2>1. i - d \in 1 .. n - d /\ i - d \in 1 .. m /\ (i - d) + d = i
    BY <1>2, <1>3
  <2> QED BY <1>3, <2>1
<1>7. \A k : /\ ~InHand(k) /\ ~InHand(k)' /\ ~Awaited(k)
             /\ (Twofold(k) <=> Twofold(k)') /\ (InPaho(k) <=> InPaho(k)')
             /\ (Unpublished(k) <=> Unpublished(k)') /\ (Once(k) <=> Once(k)')
  BY <1>1 DEF InHand, Awaited, Twofold, Unpublished, Once, Unsent, InPaho
<1>8. TypeOK'
  <2>1. seq' \in 0 .. MaxSamples
    BY <1>1 DEF Samples
  <2>2. evicted' \subseteq Samples
    <3>1. d = 1 => buffer[1] \in Samples
      BY <1>2, <1>3, <1>4
    <3> QED BY <1>3, <3>1 DEF TypeOK
  <2> QED BY <1>1, <1>2, <2>1, <2>2 DEF TypeOK, m
<1>9. Backlog'
  <2>1. /\ \A i \in 1 .. n : buffer[i] <= seq
        /\ \A i, j \in 1 .. n : i < j => buffer[i] < buffer[j]
        /\ \A k \in evicted : k <= seq /\ \A i \in 1 .. n : k < buffer[i]
    BY DEF Backlog, n
  <2>2. \A k \in evicted : k \in Nat
    BY DEF TypeOK, Samples
  <2>3. \A i \in 1 .. m : buffer'[i] <= seq'
    BY <1>1, <1>2, <1>4, <1>5, <2>1
  <2>4. \A i, j \in 1 .. m : i < j => buffer'[i] < buffer'[j]
    <3> SUFFICES ASSUME NEW i \in 1 .. m, NEW j \in 1 .. m, i < j PROVE buffer'[i] < buffer'[j]
      OBVIOUS
    <3>1. i + d \in 1 .. n /\ buffer'[i] = buffer[i + d]
      BY <1>2, <1>5
    <3>2. CASE j = m
      BY <1>1, <1>2, <1>4, <2>1, <3>1, <3>2
    <3>3. CASE j # m
      <4>1. j + d \in 1 .. n /\ buffer'[j] = buffer[j + d] /\ i + d < j + d
        BY <1>2, <1>3, <1>5, <3>3
      <4> QED BY <2>1, <3>1, <4>1
    <3> QED BY <3>2, <3>3
  <2>5. \A k \in evicted' : k <= seq' /\ \A i \in 1 .. m : k < buffer'[i]
    <3> SUFFICES ASSUME NEW k \in evicted', NEW i \in 1 .. m PROVE k <= seq' /\ k < buffer'[i]
      BY <1>2
    <3>1. k \in evicted \/ (d = 1 /\ k = buffer[1] /\ 1 \in 1 .. n)
      BY <1>2, <1>3
    <3>2. k \in Nat /\ k <= seq
      BY <1>4, <2>1, <2>2, <3>1
    <3>3. CASE i = m
      BY <1>1, <1>2, <3>2, <3>3
    <3>4. CASE i # m
      <4>1. i + d \in 1 .. n /\ buffer'[i] = buffer[i + d] /\ (d = 1 => 1 < i + d)
        BY <1>2, <1>3, <1>5, <3>4
      <4> QED BY <1>1, <2>1, <3>1, <3>2, <4>1
    <3> QED BY <3>3, <3>4
  <2> QED BY <1>1, <1>7, <2>3, <2>4, <2>5 DEF Backlog, m
<1>10. Accounted'
  <2>1. \A k : InDeque(k) => InDeque(k)' \/ k \in evicted'
    <3> SUFFICES ASSUME NEW k, InDeque(k) PROVE InDeque(k)' \/ k \in evicted'
      OBVIOUS
    <3>1. PICK i \in 1 .. n : k = buffer[i]
      BY DEF InDeque, n
    <3> QED BY <1>3, <1>6, <3>1 DEF InDeque, m
  <2>2. \A k : k = seq' => InDeque(k)'
    <3>1. m \in 1 .. m
      BY <1>2
    <3> QED BY <1>2, <3>1 DEF InDeque, m
  <2>3. evicted \subseteq evicted'
    BY <1>3
  <2>4. \A k \in 1 .. seq' : k \in 1 .. seq \/ k = seq'
    BY <1>1
  <2> QED BY <1>1, <1>7, <2>1, <2>2, <2>3, <2>4 DEF Accounted
<1>11. Copies'
  <2>1. \A i \in 1 .. m : \/ buffer'[i] \in strained \/ Twofold(buffer'[i])
                          \/ Unpublished(buffer'[i])
    BY <1>1, <1>2, <1>5, <1>7 DEF Copies, n
  <2> QED BY <1>1, <1>7, <2>1 DEF Copies, m
<1> QED BY <1>1, <1>8, <1>9, <1>10, <1>11

-----------------------------------------------------------------------------
(* The main thread, without a publication *)

LEMMA BeyondStep == ASSUME IInv, StepBeyond PROVE IInv'
<1> USE DEF IInv
<1>1. /\ main.at = "idle" /\ main' = [at |-> "flush", mid |-> 0, live |-> FALSE]
      /\ UNCHANGED <<scenario, machine, seq, buffer, connected, net, link, mid, out, wire, sent,
                     session, retained, received, evicted, strained, late>>
  BY DEF StepBeyond, paho, broker
<1>2. main'.at = "flush" /\ ~main'.live
  BY <1>1
<1>3. TypeOK'
  <2>1. main' \in [at : {"idle", "flush", "waiting", "live", "exit", "stopping", "stopped", "gone"},
                   mid : Nat, live : BOOLEAN]
    BY <1>1
  <2> QED BY <1>1, <2>1 DEF TypeOK
<1>4. Queues' /\ Threads' /\ Peeked'
  BY <1>1, <1>2 DEF Queues, Distinct, Threads, HasSocket, Peeked
<1>5. \A k : ~InHand(k)' /\ ~InHand(k) /\ ~Awaited(k) /\ (Twofold(k) <=> Twofold(k)')
             /\ (Unpublished(k) <=> Unpublished(k)') /\ (Once(k) <=> Once(k)')
  BY <1>1, <1>2 DEF InHand, Awaited, Twofold, Unpublished, Once, Unsent
<1>6. Backlog' /\ Accounted'
  BY <1>1, <1>2, <1>5 DEF Backlog, Accounted, InDeque, InPaho
<1>7. Copies'
  BY <1>1, <1>2, <1>5 DEF Copies
<1>8. Heard' /\ Trips'
  BY <1>1, <1>2 DEF Heard, Running, HasSocket, Trips
<1> QED BY <1>3, <1>4, <1>6, <1>7, <1>8

LEMMA TimeoutStep == ASSUME IInv, Timeout PROVE IInv'
<1> USE DEF IInv
<1>1. /\ main.at = "waiting" /\ main.mid \in DOMAIN out /\ main' = [main EXCEPT !.at = "live"]
      /\ strained' = strained \cup {out[main.mid].sample}
      /\ UNCHANGED <<scenario, machine, seq, buffer, connected, net, link, mid, out, wire, sent,
                     session, retained, received, evicted, late>>
  BY DEF Timeout, Main, paho, broker
<1>2. main'.at = "live" /\ (main'.live <=> main.live)
  BY <1>1 DEF TypeOK
<1>3. buffer # <<>> /\ buffer[1] \in Samples /\ out[main.mid] = Telemetry(buffer[1])
  BY <1>1, Deque DEF Peeked
<1>4. strained' = strained \cup {buffer[1]}
  BY <1>1, <1>3, Messages
<1>5. TypeOK'
  <2>1. main' \in [at : {"idle", "flush", "waiting", "live", "exit", "stopping", "stopped", "gone"},
                   mid : Nat, live : BOOLEAN]
    BY <1>1 DEF TypeOK
  <2>2. strained' \subseteq 0 .. MaxSamples
    <3>1. buffer[1] \in 0 .. MaxSamples
      BY <1>3 DEF Samples
    <3> QED BY <1>4, <3>1 DEF TypeOK
  <2> QED BY <1>1, <2>1, <2>2 DEF TypeOK
<1>6. Queues' /\ Threads' /\ Peeked'
  BY <1>1, <1>2 DEF Queues, Distinct, Threads, HasSocket, Peeked
<1>7. \A k : /\ (InHand(k)' <=> InHand(k)) /\ (Twofold(k) <=> Twofold(k)')
             /\ (Unpublished(k) <=> Unpublished(k)') /\ (Once(k) <=> Once(k)')
             /\ (Awaited(k) => k \in strained')
  BY <1>1, <1>2, <1>4 DEF InHand, Awaited, Twofold, Unpublished, Once, Unsent
<1>8. Backlog' /\ Accounted'
  BY <1>1, <1>2, <1>7 DEF Backlog, Accounted, InDeque, InPaho
<1>9. Copies'
  BY <1>1, <1>2, <1>4, <1>7 DEF Copies
<1>10. Heard' /\ Trips'
  BY <1>1, <1>2 DEF Heard, Running, HasSocket, Trips
<1> QED BY <1>5, <1>6, <1>8, <1>9, <1>10

LEMMA PublishedStep == ASSUME IInv, Published PROVE IInv'
<1> USE DEF IInv
<1>1. /\ main.at = "waiting" /\ main.mid \notin DOMAIN out /\ main' = [main EXCEPT !.at = "flush"]
      /\ buffer' = Tail(buffer)
      /\ UNCHANGED <<scenario, machine, seq, connected, net, link, mid, out, wire, sent,
                     session, retained, received, evicted, strained, late>>
  BY DEF Published, Main, paho, broker
<1>2. main'.at = "flush" /\ (main'.live <=> main.live)
  BY <1>1 DEF TypeOK
<1> DEFINE n == Len(buffer)
           m == Len(buffer')
<1>3. buffer # <<>> /\ received[buffer[1]] > 0
  BY <1>1 DEF Peeked
<1>4. /\ n \in Nat \ {0} /\ m = n - 1 /\ buffer' \in Seq(Samples) /\ m <= Capacity
      /\ \A i \in 1 .. n - 1 : buffer'[i] = buffer[i + 1]
  BY <1>1, <1>3, PopIt
<1> HIDE DEF n, m
<1>5. \A i \in 1 .. m : i + 1 \in 1 .. n /\ i + 1 # 1 /\ buffer'[i] = buffer[i + 1]
  BY <1>4
<1>6. \A i \in 1 .. n : i = 1 \/ (i - 1 \in 1 .. m /\ buffer'[i - 1] = buffer[i])
  <2> SUFFICES ASSUME NEW i \in 1 .. n, i # 1 PROVE i - 1 \in 1 .. m /\ buffer'[i - 1] = buffer[i]
    OBVIOUS
  <2>1. i - 1 \in 1 .. n - 1 /\ i - 1 \in 1 .. m /\ (i - 1) + 1 = i
    BY <1>4
  <2> QED BY <1>4, <2>1
<1>7. TypeOK'
  <2>1. main' \in [at : {"idle", "flush", "waiting", "live", "exit", "stopping", "stopped", "gone"},
                   mid : Nat, live : BOOLEAN]
    BY <1>1 DEF TypeOK
  <2> QED BY <1>1, <1>4, <2>1 DEF TypeOK, m
<1>8. Queues' /\ Threads' /\ Peeked'
  BY <1>1, <1>2 DEF Queues, Distinct, Threads, HasSocket, Peeked
<1>9. \A k : /\ (InHand(k)' <=> InHand(k)) /\ (Twofold(k) <=> Twofold(k)')
             /\ (Unpublished(k) <=> Unpublished(k)') /\ (Once(k) <=> Once(k)')
             /\ (InPaho(k) <=> InPaho(k)')
  BY <1>1, <1>2 DEF InHand, Twofold, Unpublished, Once, Unsent, InPaho
<1>10. Backlog'
  <2>1. /\ \A i \in 1 .. n : buffer[i] <= seq /\ ~InHand(buffer[i])
        /\ \A i, j \in 1 .. n : i < j => buffer[i] < buffer[j]
        /\ \A k \in evicted : k <= seq /\ \A i \in 1 .. n : k < buffer[i]
        /\ main.live => seq > 0
    BY <1>1 DEF Backlog, n
  <2>2. /\ \A i \in 1 .. m : buffer'[i] <= seq /\ ~InHand(buffer'[i])
        /\ \A k \in evicted : \A i \in 1 .. m : k < buffer'[i]
    BY <1>5, <2>1
  <2>3. \A i, j \in 1 .. m : i < j => buffer'[i] < buffer'[j]
    <3>1. \A i, j \in 1 .. m : i < j => i + 1 < j + 1
      BY <1>4
    <3> QED BY <1>5, <2>1, <3>1
  <2> QED BY <1>1, <1>2, <1>9, <2>1, <2>2, <2>3 DEF Backlog, m
<1>11. Accounted'
  <2>1. \A k : InDeque(k) => InDeque(k)' \/ received[k] > 0
    <3> SUFFICES ASSUME NEW k, InDeque(k) PROVE InDeque(k)' \/ received[k] > 0
      OBVIOUS
    <3>1. PICK i \in 1 .. n : buffer[i] = k
      BY DEF InDeque, n
    <3> QED BY <1>3, <1>6, <3>1 DEF InDeque, m
  <2>2. \A k \in 1 .. seq : received[k] > 0 \/ InPaho(k) \/ InDeque(k) \/ k \in evicted \/ InHand(k)
    BY <1>1 DEF Accounted
  <2> QED BY <1>1, <1>9, <2>1, <2>2 DEF Accounted
<1>12. Copies'
  <2>1. \A i \in 1 .. m : ~Awaited(buffer'[i])
    <3> SUFFICES ASSUME NEW i \in 1 .. m PROVE buffer'[i] # buffer[1]
      BY DEF Awaited
    <3>1. 1 \in 1 .. n /\ i + 1 \in 1 .. n /\ 1 < i + 1 /\ buffer'[i] = buffer[i + 1]
      BY <1>4, <1>5
    <3>2. buffer[1] < buffer[i + 1]
      BY <3>1 DEF Backlog, n
    <3>3. buffer[1] \in Nat
      BY <3>1, Deque DEF n, Samples
    <3> QED BY <3>1, <3>2, <3>3
  <2>2. \A i \in 1 .. m : \/ buffer'[i] \in strained \/ Twofold(buffer'[i])
                          \/ Unpublished(buffer'[i])
    BY <1>5, <2>1 DEF Copies, n
  <2> QED BY <1>1, <1>2, <1>9, <2>2 DEF Copies, m
<1>13. Heard' /\ Trips'
  BY <1>1, <1>2 DEF Heard, Running, HasSocket, Trips
<1> QED BY <1>7, <1>8, <1>10, <1>11, <1>12, <1>13

-----------------------------------------------------------------------------
(* The network thread: writing, reading, and finding the socket broken *)

LEMMA WriteStep == ASSUME IInv, Write PROVE IInv'
<1> USE DEF IInv
<1> DEFINE h == Head(wire)
<1>1. /\ net.at = "loop" /\ link
      /\ UNCHANGED <<scenario, machine, seq, buffer, connected, main, net, link, mid, out,
                     session, evicted, strained, late>>
  BY DEF Write
<1>2. /\ h \in DOMAIN out /\ h \in ToSet(wire) /\ h \notin ToSet(sent)
      /\ h = wire[1] /\ Len(wire) >= 1 /\ Len(wire') = Len(wire) - 1
      /\ \A a \in 1 .. Len(wire) - 1 : wire'[a] = wire[a + 1]
      /\ wire' \in Seq(Nat) /\ ToSet(wire') = ToSet(wire) \ {h} /\ Distinct(wire')
      /\ sent' \in Seq(Nat) /\ ToSet(sent') = ToSet(sent) \cup {h} /\ Distinct(sent')
      /\ \/ /\ out[h] \in Statuses /\ retained' = out[h].status /\ received' = received
         \/ \E k \in Samples :
              /\ out[h] = Telemetry(k) /\ retained' = retained
              /\ received' = [received EXCEPT ![k] = @ + 1]
  BY WriteIt
<1> HIDE DEF h
<1>3. /\ received' \in [Samples -> Nat]
      /\ \A k \in Samples : /\ received[k] \in Nat /\ received[k] <= received'[k]
                            /\ out[h] = Telemetry(k) => received'[k] = received[k] + 1
                            /\ out[h] # Telemetry(k) => received'[k] = received[k]
  <2>1. received \in [Samples -> Nat]
    BY DEF TypeOK
  <2>2. CASE out[h] \in Statuses /\ received' = received
    BY <2>1, <2>2, Messages
  <2>3. ASSUME NEW k \in Samples, out[h] = Telemetry(k), received' = [received EXCEPT ![k] = @ + 1]
        PROVE  <1>3
    BY <2>1, <2>3, Messages
  <2> QED BY <1>2, <2>2, <2>3
<1>4. retained' \in {"ONLINE", "OFFLINE"}
  BY <1>2, Messages DEF TypeOK
<1>5. TypeOK'
  BY <1>1, <1>2, <1>3, <1>4 DEF TypeOK
<1>6. Queues'
  <2>1. \A i \in ToSet(sent'), k \in Samples : out[i] = Telemetry(k) => received'[k] > 0
    <3> SUFFICES ASSUME NEW i \in ToSet(sent'), NEW k \in Samples, out[i] = Telemetry(k)
                 PROVE  received'[k] > 0
      OBVIOUS
    <3>1. CASE i = h
      BY <1>3, <3>1
    <3>2. CASE i # h
      BY <1>2, <1>3, <3>2 DEF Queues
    <3> QED BY <3>1, <3>2
  <2>2. /\ ToSet(wire') \subseteq DOMAIN out /\ ToSet(sent') \subseteq DOMAIN out
        /\ ToSet(wire') \cap ToSet(sent') = {}
    BY <1>2 DEF Queues
  <2> QED BY <1>1, <1>2, <2>1, <2>2 DEF Queues
<1>7. Threads'
  BY <1>1 DEF Threads, HasSocket
<1>8. Peeked'
  <2>1. buffer # <<>> => buffer[1] \in Samples
    BY Deque
  <2> QED BY <1>1, <1>3, <2>1 DEF Peeked
<1>9. Backlog'
  BY <1>1 DEF Backlog, InHand
<1>10. Accounted'
  <2>1. \A k \in 1 .. seq : k \in Samples
    BY DEF TypeOK, Samples
  <2>2. \A k : (InHand(k) <=> InHand(k)') /\ (InPaho(k) <=> InPaho(k)') /\ (InDeque(k) <=> InDeque(k)')
    BY <1>1 DEF InHand, InPaho, InDeque
  <2> QED BY <1>1, <1>3, <2>1, <2>2 DEF Accounted
<1>11. Copies'
  <2>1. \A k : /\ ~Twofold(k) /\ (InHand(k) <=> InHand(k)') /\ (Awaited(k) <=> Awaited(k)')
               /\ \A i : Unsent(k, i)' => Unsent(k, i) /\ i # h
    BY <1>1, <1>2 DEF Twofold, InHand, Awaited, Unsent
  <2>2. \A k \in Samples : Unpublished(k) => Unpublished(k)'
    BY <1>1, <1>2, <1>3 DEF Unpublished
  <2>3. ASSUME NEW k \in Samples, Once(k) PROVE Once(k)'
    <3>1. CASE out[h] = Telemetry(k)
      <4>1. Unsent(k, h)
        BY <1>2, <3>1 DEF Unsent
      <4>2. received[k] = 0 /\ \A i : Unsent(k, i) => i = h
        BY <1>3, <2>1, <2>3, <4>1 DEF Once
      <4>3. received'[k] = 1
        BY <1>3, <3>1, <4>2
      <4>4. \A i : ~Unsent(k, i)'
        BY <2>1, <4>2
      <4> QED BY <4>3, <4>4 DEF Once
    <3>2. CASE out[h] # Telemetry(k)
      BY <1>3, <2>1, <2>3, <3>2 DEF Once
    <3> QED BY <3>1, <3>2
  <2>4. \A i \in 1 .. Len(buffer) : buffer[i] \in Samples
    BY Deque
  <2> QED BY <1>1, <2>1, <2>2, <2>3, <2>4 DEF Copies
<1>12. Heard'
  <2>1. HasSocket /\ session /\ main.at # "stopped"
    BY <1>1 DEF HasSocket, Threads
  <2>2. /\ out[h] = Status("OFFLINE") => retained' = "OFFLINE"
        /\ out[h] = Status("ONLINE") => retained' = "ONLINE"
        /\ out[h] \notin Statuses => retained' = retained
    BY <1>2, Messages DEF Statuses, Status
  <2>3. Running => retained' = "ONLINE" \/ \E i \in ToSet(wire') : out[i] = Status("ONLINE")
    BY <1>1, <1>2, <2>1, <2>2 DEF Heard, Statuses
  <2>4. ASSUME Parting PROVE Parting'
    <3>1. ASSUME NEW p \in 1 .. Len(wire), out[wire[p]] = Status("OFFLINE"),
                 \A q \in p + 1 .. Len(wire) : out[wire[q]] # Status("ONLINE")
          PROVE  Parting'
      <4>0. Len(wire) \in Nat
        BY LenProperties DEF TypeOK
      <4>1. CASE p = 1
        <5>1. retained' = "OFFLINE"
          BY <1>2, <2>2, <3>1, <4>1
        <5>2. \A i \in ToSet(wire') : out[i] # Status("ONLINE")
          <6>1. ToSet(wire') = {wire'[a] : a \in 1 .. Len(wire')}
            BY <1>2, ToSetIs
          <6>2. \A a \in 1 .. Len(wire') : a + 1 \in p + 1 .. Len(wire) /\ wire'[a] = wire[a + 1]
            BY <1>2, <4>0, <4>1
          <6> QED BY <3>1, <6>1, <6>2
        <5> QED BY <1>1, <5>1, <5>2 DEF Parting
      <4>2. CASE p # 1
        <5>1. p - 1 \in 1 .. Len(wire) - 1 /\ (p - 1) + 1 = p /\ p - 1 \in 1 .. Len(wire')
          BY <1>2, <4>0, <4>2
        <5>2. wire'[p - 1] = wire[p]
          BY <1>2, <5>1
        <5>3. \A q \in (p - 1) + 1 .. Len(wire') : out[wire'[q]] # Status("ONLINE")
          <6>1. \A q \in (p - 1) + 1 .. Len(wire') :
                  q \in 1 .. Len(wire) - 1 /\ q + 1 \in p + 1 .. Len(wire)
            BY <1>2, <4>0
          <6> QED BY <1>2, <3>1, <6>1
        <5> QED BY <1>1, <3>1, <5>1, <5>2, <5>3 DEF Parting
      <4> QED BY <4>1, <4>2
    <3>2. CASE retained = "OFFLINE" /\ \A i \in ToSet(wire) : out[i] # Status("ONLINE")
      <4>1. retained' = "OFFLINE"
        BY <1>2, <2>2, <3>2 DEF Statuses
      <4> QED BY <1>1, <1>2, <3>2, <4>1 DEF Parting
    <3> QED BY <2>4, <3>1, <3>2 DEF Parting
  <2> QED BY <1>1, <2>1, <2>3, <2>4 DEF Heard, Running, HasSocket
<1>13. Trips'
  BY <1>1 DEF Trips
<1> QED BY <1>5, <1>6, <1>7, <1>8, <1>9, <1>10, <1>11, <1>12, <1>13

LEMMA AcknowledgedStep == ASSUME IInv, Acknowledged PROVE IInv'
<1> USE DEF IInv
<1> DEFINE h == Head(sent)
<1>1. /\ net.at = "loop" /\ link
      /\ UNCHANGED <<scenario, machine, seq, buffer, connected, main, net, link, mid, wire,
                     session, retained, received, evicted, strained, late>>
  BY DEF Acknowledged, broker
<1>2. /\ h \in DOMAIN out /\ h \in ToSet(sent) /\ h \notin ToSet(wire)
      /\ DOMAIN out' = DOMAIN out \ {h} /\ \A i \in DOMAIN out' : out'[i] = out[i]
      /\ sent' \in Seq(Nat) /\ ToSet(sent') = ToSet(sent) \ {h} /\ Distinct(sent')
  BY AcknowledgeIt
<1> HIDE DEF h
<1>3. TypeOK'
  <2>1. DOMAIN out' \subseteq 1 .. mid /\ \A i \in DOMAIN out' : out'[i] \in Bodies
    BY <1>2 DEF TypeOK
  <2> QED BY <1>1, <1>2, <2>1 DEF TypeOK
<1>4. \A i \in ToSet(wire) : i \in DOMAIN out'
  BY <1>2 DEF Queues
<1>5. Queues'
  BY <1>1, <1>2, <1>4 DEF Queues
<1>6. main.at # "gone" /\ main.at # "stopped"
  BY <1>1 DEF Threads
<1>7. Threads'
  BY <1>1, <1>6 DEF Threads, HasSocket
<1>8. \A k \in Samples : out[h] = Telemetry(k) => received[k] > 0
  BY <1>2 DEF Queues
<1>9. Peeked'
  <2>1. buffer # <<>> => buffer[1] \in Samples
    BY Deque
  <2> QED BY <1>1, <1>2, <1>8, <2>1 DEF Peeked
<1>10. \A k : /\ ~Twofold(k) /\ ~Twofold(k)' /\ (InHand(k) <=> InHand(k)')
              /\ (InDeque(k) <=> InDeque(k)') /\ (Awaited(k) => Awaited(k)')
              /\ (Unpublished(k) => Unpublished(k)')
              /\ \A i : Unsent(k, i)' => Unsent(k, i)
  BY <1>1, <1>2 DEF Twofold, InHand, InDeque, Awaited, Unpublished, Unsent
<1>11. Backlog'
  BY <1>1, <1>10 DEF Backlog
<1>12. Accounted'
  <2>1. \A k \in 1 .. seq : k \in Samples
    BY DEF TypeOK, Samples
  <2>2. \A k \in Samples : InPaho(k) => InPaho(k)' \/ received[k] > 0
    BY <1>2, <1>8 DEF InPaho
  <2> QED BY <1>1, <1>10, <2>1, <2>2 DEF Accounted
<1>13. Copies'
  <2>1. \A k \in Samples : Once(k) => Once(k)'
    BY <1>1, <1>10 DEF Once
  <2> QED BY <1>1, <1>10, <2>1 DEF Copies
<1>14. Heard'
  <2>1. HasSocket /\ session
    BY <1>1 DEF HasSocket, Threads
  <2>2. \A i \in ToSet(wire) : out'[i] = out[i]
    BY <1>2, <1>4
  <2>3. ToSet(wire) = {wire[a] : a \in 1 .. Len(wire)}
    BY ToSetIs DEF TypeOK
  <2>4. \A a \in 1 .. Len(wire) : out'[wire[a]] = out[wire[a]]
    BY <2>2, <2>3
  <2>5. Parting => Parting'
    <3>1. ASSUME NEW p \in 1 .. Len(wire), out[wire[p]] = Status("OFFLINE"),
                 \A q \in p + 1 .. Len(wire) : out[wire[q]] # Status("ONLINE")
          PROVE  Parting'
      <4>1. \A q \in p + 1 .. Len(wire) : q \in 1 .. Len(wire)
        BY LenProperties DEF TypeOK
      <4> QED BY <1>1, <2>4, <3>1, <4>1 DEF Parting
    <3>2. CASE retained = "OFFLINE" /\ \A i \in ToSet(wire) : out[i] # Status("ONLINE")
      BY <1>1, <2>2, <3>2 DEF Parting
    <3> QED BY <3>1, <3>2 DEF Parting
  <2> QED BY <1>1, <1>2, <1>6, <2>1, <2>2, <2>5 DEF Heard, Running, HasSocket
<1>15. Trips'
  BY <1>1 DEF Trips
<1> QED BY <1>3, <1>5, <1>7, <1>9, <1>11, <1>12, <1>13, <1>14, <1>15

LEMMA CloseStep == ASSUME IInv, Close PROVE IInv'
<1> USE DEF IInv
<1> DEFINE unacked == {out[i].sample : i \in DOMAIN out \ ToSet(wire)}
<1>1. /\ net.at = "loop" /\ ~link /\ net' = At("closed") /\ wire' = <<>> /\ sent' = <<>>
      /\ strained' = strained \cup unacked
      /\ UNCHANGED <<scenario, machine, seq, buffer, connected, main, link, mid, out,
                     session, retained, received, evicted, late>>
  BY DEF Close, broker
<1>2. net'.at = "closed" /\ net' \in [at : {"closed"}, mid : Nat]
  BY <1>1 DEF At
<1>3. /\ wire' \in Seq(Nat) /\ sent' \in Seq(Nat) /\ Len(wire') = 0 /\ Len(sent') = 0
      /\ ToSet(wire') = {} /\ ToSet(sent') = {}
  BY <1>1, EmptySeq DEF ToSet
<1>4. \A i \in DOMAIN out \ ToSet(wire), k \in Samples : out[i] = Telemetry(k) => k \in strained'
  BY <1>1, Messages
<1>5. TypeOK'
  <2>1. \A i \in DOMAIN out : out[i].sample \in 0 .. MaxSamples
    <3> SUFFICES ASSUME NEW i \in DOMAIN out PROVE out[i].sample \in 0 .. MaxSamples
      OBVIOUS
    <3>1. out[i].sample \in Samples \cup {0}
      BY Messages DEF TypeOK
    <3> QED BY <3>1 DEF Samples
  <2>2. strained' \subseteq 0 .. MaxSamples
    BY <1>1, <2>1 DEF TypeOK
  <2>3. net' \in [at : {"offline", "connected", "flushing", "loop", "closed", "stopped"}, mid : Nat]
    BY <1>2
  <2> QED BY <1>1, <1>3, <2>2, <2>3 DEF TypeOK
<1>6. Queues'
  BY <1>1, <1>2, <1>3 DEF Queues, Distinct
<1>7. Threads'
  BY <1>1, <1>2 DEF Threads, HasSocket
<1>8. Peeked'
  BY <1>1 DEF Peeked
<1>9. \A k : /\ ~Twofold(k) /\ ~Twofold(k)' /\ (InHand(k) <=> InHand(k)')
             /\ (Awaited(k) <=> Awaited(k)') /\ (Unpublished(k) <=> Unpublished(k)')
  BY <1>1, <1>2 DEF Twofold, InHand, Awaited, Unpublished
<1>10. Backlog' /\ Accounted'
  BY <1>1, <1>9 DEF Backlog, Accounted, InPaho, InDeque
<1>11. Copies'
  <2>1. ASSUME NEW k \in Samples, k \notin strained', Once(k) PROVE Once(k)'
    <3>1. \A i : Unsent(k, i)' => Unsent(k, i)
      BY <1>1, <1>4, <2>1 DEF Unsent, Queues
    <3> QED BY <1>1, <1>9, <2>1, <3>1 DEF Once
  <2> QED BY <1>1, <1>9, <2>1 DEF Copies
<1>12. Heard'
  BY <1>1, <1>2 DEF Heard, Running, HasSocket, Threads
<1>13. Trips'
  BY <1>1 DEF Trips
<1> QED BY <1>5, <1>6, <1>7, <1>8, <1>10, <1>11, <1>12, <1>13

-----------------------------------------------------------------------------
(* Publishing *)

LEMMA PublishKeeps ==
    ASSUME TypeOK, Queues, NEW body \in Bodies, Publish(body), received' = received,
           net' = net \/ (net.at = "connected" /\ net'.at = "flushing")
    PROVE  /\ Queues' /\ mid' \in Nat /\ mid' \in 1 .. mid' /\ mid' > mid /\ mid \in Nat
           /\ DOMAIN out' \subseteq 1 .. mid' /\ \A i \in DOMAIN out' : out'[i] \in Bodies
           /\ wire' \in Seq(Nat) /\ sent' \in Seq(Nat) /\ sent' = sent
           /\ mid' \notin DOMAIN out /\ DOMAIN out' = DOMAIN out \cup {mid'}
           /\ out'[mid'] = body /\ \A i \in DOMAIN out : out'[i] = out[i]
<1>1. /\ Keeps(body) /\ sent' = sent /\ wire' \in Seq(Nat) /\ Distinct(wire')
      /\ IF HasSocket THEN ToSet(wire') = ToSet(wire) \cup {mid'} ELSE wire' = wire
  BY PublishIt
<1>2. /\ mid' \in Nat /\ mid \in Nat /\ mid' = mid + 1 /\ mid' \notin DOMAIN out
      /\ DOMAIN out' = DOMAIN out \cup {mid'} /\ DOMAIN out' \subseteq 1 .. mid'
      /\ out'[mid'] = body /\ \A i \in DOMAIN out : out'[i] = out[i]
      /\ \A i \in DOMAIN out' : out'[i] \in Bodies
  BY <1>1, KeepsIt
<1>3. mid' \in 1 .. mid' /\ mid' > mid
  BY <1>2
<1>4. /\ ToSet(wire') \subseteq DOMAIN out' /\ ToSet(sent') \subseteq DOMAIN out'
      /\ ToSet(wire') \cap ToSet(sent') = {}
  BY <1>1, <1>2 DEF Queues
<1>5. /\ net'.at \in {"closed", "offline", "connected", "flushing"} => sent' = <<>>
      /\ net'.at \in {"closed", "offline"} => wire' = <<>>
  BY <1>1 DEF Queues, HasSocket
<1>6. \A i \in ToSet(sent'), k \in Samples : out'[i] = Telemetry(k) => received'[k] > 0
  BY <1>1, <1>2 DEF Queues
<1>7. Distinct(sent')
  BY <1>1 DEF Queues
<1>8. Queues'
  BY <1>1, <1>4, <1>5, <1>6, <1>7 DEF Queues
<1>9. sent' \in Seq(Nat)
  BY <1>1 DEF TypeOK
<1> QED BY <1>1, <1>2, <1>3, <1>8, <1>9

\* Only the sample published gains a message; if nobody had sent it, it has that one alone.
LEMMA PublishCopies ==
    ASSUME TypeOK, Queues, NEW body \in Bodies, Publish(body), received' = received,
           net' = net \/ (net.at = "connected" /\ net'.at = "flushing"),
           NEW k \in Samples
    PROVE  /\ InPaho(k) => InPaho(k)'
           /\ body = Telemetry(k) =>
                /\ InPaho(k)'
                /\ Unpublished(k) => received[k] = 0 /\ \A i : Unsent(k, i)' => i = mid'
           /\ body # Telemetry(k) =>
                /\ Unpublished(k) => Unpublished(k)'
                /\ \A i : Unsent(k, i)' => Unsent(k, i)
<1>1. /\ mid' \notin DOMAIN out /\ DOMAIN out' = DOMAIN out \cup {mid'}
      /\ out'[mid'] = body /\ (\A i \in DOMAIN out : out'[i] = out[i]) /\ sent' = sent
  BY PublishKeeps
<1>2. InPaho(k) => InPaho(k)'
  BY <1>1 DEF InPaho
<1>3. ASSUME body = Telemetry(k)
      PROVE  /\ InPaho(k)'
             /\ Unpublished(k) => received[k] = 0 /\ \A i : Unsent(k, i)' => i = mid'
  BY <1>1, <1>3 DEF InPaho, Unpublished, Unsent
<1>4. ASSUME body # Telemetry(k)
      PROVE  /\ Unpublished(k) => Unpublished(k)'
             /\ \A i : Unsent(k, i)' => Unsent(k, i)
  BY <1>1, <1>4 DEF Unpublished, Unsent
<1> QED BY <1>2, <1>3, <1>4

\* A sample published says nothing of the status.
LEMMA PublishHeard ==
    ASSUME IInv, NEW k \in Samples, Publish(Telemetry(k)), received' = received,
           net' = net \/ (net.at = "connected" /\ net'.at = "flushing"),
           main' = main \/ (Running /\ Running'),
           UNCHANGED <<link, session, retained, late>>
    PROVE  Heard'
<1> USE DEF IInv
<1>1. /\ Telemetry(k) \in Bodies /\ Telemetry(k) # Status("ONLINE") /\ Telemetry(k) # Status("OFFLINE")
  BY Messages
<1>2. /\ mid' \notin DOMAIN out /\ DOMAIN out' = DOMAIN out \cup {mid'}
      /\ out'[mid'] = Telemetry(k) /\ (\A i \in DOMAIN out : out'[i] = out[i])
      /\ wire' \in Seq(Nat) /\ mid' \in Nat
  BY <1>1, PublishKeeps
<1>3. IF HasSocket THEN ToSet(wire') = ToSet(wire) \cup {mid'} /\ wire' = Append(wire, mid')
                   ELSE wire' = wire
  BY <1>1, PublishIt
<1>4. HasSocket' <=> HasSocket
  BY DEF HasSocket
<1>5. ToSet(wire) \subseteq DOMAIN out /\ wire \in Seq(Nat)
  BY DEF Queues, TypeOK
<1>6. (\A i \in DOMAIN out : out[i] # Status("OFFLINE")) => \A i \in DOMAIN out' : out'[i] # Status("OFFLINE")
  BY <1>1, <1>2
<1>7. HasSocket =>
        ((\E i \in ToSet(wire) : out[i] = Status("ONLINE"))
           => \E i \in ToSet(wire') : out'[i] = Status("ONLINE"))
  BY <1>2, <1>3, <1>5
<1>8. ASSUME HasSocket, Parting PROVE Parting'
  <2>1. /\ Len(wire') = Len(wire) + 1 /\ Len(wire) \in Nat /\ wire'[Len(wire) + 1] = mid'
        /\ \A a \in 1 .. Len(wire) : wire'[a] = wire[a]
    BY <1>2, <1>3, <1>5, <1>8, AppendProperties, LenProperties
  <2>2. \A a \in 1 .. Len(wire) : wire[a] \in DOMAIN out
    BY <1>5, ToSetIs
  <2>3. \A a \in 1 .. Len(wire) : out'[wire'[a]] = out[wire[a]]
    BY <1>2, <2>1, <2>2
  <2>4. net'.at # "loop" => \A i \in DOMAIN out' \ ToSet(wire') : out'[i] # Status("ONLINE")
    <3>1. net'.at # "loop" => net.at # "loop"
      OBVIOUS
    <3>2. net.at # "loop" => \A i \in DOMAIN out \ ToSet(wire) : out[i] # Status("ONLINE")
      BY <1>8 DEF Parting
    <3>3. \A i \in DOMAIN out' \ ToSet(wire') : i \in DOMAIN out \ ToSet(wire) /\ out'[i] = out[i]
      BY <1>2, <1>3, <1>8
    <3> QED BY <3>1, <3>2, <3>3
  <2>5. ASSUME NEW p \in 1 .. Len(wire), out[wire[p]] = Status("OFFLINE"),
               \A q \in p + 1 .. Len(wire) : out[wire[q]] # Status("ONLINE")
        PROVE  Parting'
    <3>1. p \in 1 .. Len(wire') /\ out'[wire'[p]] = Status("OFFLINE")
      BY <2>1, <2>3, <2>5
    <3>2. \A q \in p + 1 .. Len(wire') : out'[wire'[q]] # Status("ONLINE")
      <4>1. \A q \in p + 1 .. Len(wire') :
              q = Len(wire) + 1 \/ (q \in p + 1 .. Len(wire) /\ q \in 1 .. Len(wire))
        BY <2>1
      <4>2. out'[wire'[Len(wire) + 1]] # Status("ONLINE")
        BY <1>1, <1>2, <2>1
      <4>3. \A q \in p + 1 .. Len(wire) : q \in 1 .. Len(wire) => out'[wire'[q]] # Status("ONLINE")
        BY <2>3, <2>5
      <4> QED BY <4>1, <4>2, <4>3
    <3> QED BY <2>4, <3>1, <3>2 DEF Parting
  <2>6. CASE retained = "OFFLINE" /\ \A i \in ToSet(wire) : out[i] # Status("ONLINE")
    BY <1>1, <1>2, <1>3, <1>5, <1>8, <2>4, <2>6 DEF Parting
  <2> QED BY <1>8, <2>5, <2>6 DEF Parting
<1>9. CASE main' = main
  BY <1>4, <1>6, <1>7, <1>8, <1>9 DEF Heard, Running
<1>10. CASE Running /\ Running'
  <2>1. main'.at \notin {"stopping", "stopped"}
    BY <1>10 DEF Running
  <2> QED BY <1>4, <1>6, <1>7, <1>10, <2>1 DEF Heard
<1> QED BY <1>9, <1>10

-----------------------------------------------------------------------------
(* The main thread publishes *)

\* The front of the deque is neither the sample in hand, nor one to come.
LEMMA Foremost ==
    ASSUME IInv, buffer # <<>>
    PROVE  /\ Head(buffer) = buffer[1] /\ buffer[1] \in Samples /\ buffer[1] <= seq
           /\ ~InHand(buffer[1]) /\ 1 \in 1 .. Len(buffer)
           /\ \A i \in 1 .. Len(buffer) : buffer[i] \in Samples /\ (i # 1 => buffer[i] # buffer[1])
<1> USE DEF IInv
<1>1. /\ Len(buffer) \in Nat /\ Len(buffer) >= 1 /\ Head(buffer) = buffer[1] /\ buffer[1] \in Samples
      /\ \A i \in 1 .. Len(buffer) : buffer[i] \in Samples /\ buffer[i] \in Nat
  BY Deque DEF Samples
<1>2. \A i \in 1 .. Len(buffer) : 1 \in 1 .. Len(buffer) /\ (i # 1 => 1 < i)
  BY <1>1
<1>3. 1 \in 1 .. Len(buffer)
  BY <1>1
<1>4. buffer[1] <= seq /\ ~InHand(buffer[1])
  BY <1>3 DEF Backlog
<1>5. \A i \in 1 .. Len(buffer) : i # 1 => buffer[1] < buffer[i]
  BY <1>2 DEF Backlog
<1>6. \A i \in 1 .. Len(buffer) : i # 1 => buffer[i] # buffer[1]
  BY <1>1, <1>5
<1> QED BY <1>1, <1>3, <1>4, <1>6

LEMMA FlushStep == ASSUME IInv, Flush PROVE IInv'
<1> USE DEF IInv
<1>1. /\ main.at = "flush"
      /\ UNCHANGED <<scenario, machine, seq, buffer, connected, net, link, session, retained,
                     received, evicted, late>>
  BY DEF Flush, broker
<1>2. \A at \in {"waiting", "live"}, i \in Nat :
        \/ main' = [main EXCEPT !.at = at, !.mid = i]
        \/ main' = [main EXCEPT !.at = at]
        => main'.at = at /\ (main'.live <=> main.live)
           /\ main' \in [at : {"idle", "flush", "waiting", "live", "exit", "stopping", "stopped", "gone"},
                         mid : Nat, live : BOOLEAN]
  BY DEF TypeOK
<1>3. CASE ~(buffer # <<>> /\ connected)
  <2>1. main' = [main EXCEPT !.at = "live"] /\ UNCHANGED <<mid, out, wire, sent, strained>>
    BY <1>3 DEF Flush, Main, paho
  <2>2. /\ main'.at = "live" /\ (main'.live <=> main.live)
        /\ main' \in [at : {"idle", "flush", "waiting", "live", "exit", "stopping", "stopped", "gone"},
                      mid : Nat, live : BOOLEAN]
    BY <1>2, <2>1
  <2>3. TypeOK'
    BY <1>1, <2>1, <2>2 DEF TypeOK
  <2>4. Queues' /\ Threads' /\ Peeked'
    BY <1>1, <2>1, <2>2 DEF Queues, Distinct, Threads, HasSocket, Peeked
  <2>5. \A k : (InHand(k) <=> InHand(k)') /\ ~Awaited(k) /\ (Twofold(k) <=> Twofold(k)')
               /\ (Unpublished(k) <=> Unpublished(k)') /\ (Once(k) <=> Once(k)')
    BY <1>1, <2>1, <2>2 DEF InHand, Awaited, Twofold, Unpublished, Once, Unsent
  <2>6. Backlog' /\ Accounted'
    BY <1>1, <2>1, <2>2, <2>5 DEF Backlog, Accounted, InDeque, InPaho
  <2>7. Copies'
    BY <1>1, <2>1, <2>2, <2>5 DEF Copies
  <2>8. Heard' /\ Trips'
    BY <1>1, <2>1, <2>2 DEF Heard, Running, HasSocket, Trips
  <2> QED BY <2>3, <2>4, <2>6, <2>7, <2>8
<1>4. CASE buffer # <<>> /\ connected
  <2> DEFINE k0 == buffer[1]
             body == Telemetry(k0)
  <2>1. /\ Head(buffer) = k0 /\ k0 \in Samples /\ k0 <= seq /\ ~InHand(k0) /\ 1 \in 1 .. Len(buffer)
        /\ \A i \in 1 .. Len(buffer) : buffer[i] \in Samples /\ (i # 1 => buffer[i] # k0)
    BY <1>4, Foremost
  <2>2. body \in Bodies /\ \A k \in Samples : Telemetry(k) = body => k = k0
    BY <2>1, Messages
  <2>3. Publish(body)
    BY <1>4, <2>1 DEF Flush
  <2> HIDE DEF k0
  <2>4. /\ Queues' /\ mid' \in Nat /\ mid' \in 1 .. mid' /\ mid \in Nat
        /\ DOMAIN out' \subseteq 1 .. mid' /\ \A i \in DOMAIN out' : out'[i] \in Bodies
        /\ wire' \in Seq(Nat) /\ sent' \in Seq(Nat)
        /\ mid' \notin DOMAIN out /\ DOMAIN out' = DOMAIN out \cup {mid'}
        /\ out'[mid'] = body /\ \A i \in DOMAIN out : out'[i] = out[i]
    BY <1>1, <2>2, <2>3, PublishKeeps
  <2>5. /\ main'.at \in {"waiting", "live"} /\ (main'.live <=> main.live)
        /\ main' \in [at : {"idle", "flush", "waiting", "live", "exit", "stopping", "stopped", "gone"},
                      mid : Nat, live : BOOLEAN]
        /\ strained \subseteq strained' /\ strained' \subseteq strained \cup {k0}
        /\ \/ main'.at = "waiting" /\ main'.mid = mid'
           \/ main'.at = "live" /\ k0 \in strained'
    <3>1. CASE HasSocket
      <4>1. main' = [main EXCEPT !.at = "waiting", !.mid = mid'] /\ strained' = strained
        BY <1>4, <3>1 DEF Flush
      <4>2. main'.mid = mid'
        BY <4>1 DEF TypeOK
      <4> QED BY <1>2, <2>4, <4>1, <4>2
    <3>2. CASE ~HasSocket
      <4>1. main' = [main EXCEPT !.at = "live"] /\ strained' = strained \cup {k0}
        BY <1>4, <2>1, <3>2 DEF Flush, Main
      <4> QED BY <1>2, <2>4, <4>1
    <3> QED BY <3>1, <3>2
  <2>6. TypeOK'
    <3>1. strained' \subseteq 0 .. MaxSamples
      <4>1. k0 \in 0 .. MaxSamples
        BY <2>1 DEF Samples
      <4> QED BY <2>5, <4>1 DEF TypeOK
    <3> QED BY <1>1, <2>4, <2>5, <3>1 DEF TypeOK
  <2>7. Threads'
    <3>1. main'.at \notin {"stopped", "gone"} /\ main.at \notin {"stopped", "gone"}
      BY <1>1, <2>5
    <3>2. net.at = "flushing" => net.mid \in DOMAIN out' /\ out'[net.mid] = out[net.mid]
      BY <2>4 DEF Threads
    <3> QED BY <1>1, <3>1, <3>2 DEF Threads, HasSocket
  <2>8. Peeked'
    BY <1>1, <1>4, <2>4, <2>5 DEF Peeked, k0
  <2>9. \A k : (InHand(k) <=> InHand(k)') /\ ~Awaited(k) /\ (InDeque(k) <=> InDeque(k)')
               /\ (Twofold(k) <=> Twofold(k)')
    <3>1. \A k : (InHand(k) <=> InHand(k)') /\ ~Awaited(k) /\ (InDeque(k) <=> InDeque(k)')
      BY <1>1, <2>5 DEF InHand, Awaited, InDeque
    <3>2. net.at = "flushing" => out'[net.mid] = out[net.mid]
      BY <2>4 DEF Threads
    <3> QED BY <1>1, <3>1, <3>2 DEF Twofold
  <2>10. \A k \in Samples :
           /\ InPaho(k) => InPaho(k)'
           /\ k = k0 /\ Unpublished(k) => received[k] = 0 /\ \A i : Unsent(k, i)' => i = mid'
           /\ k # k0 => (Unpublished(k) => Unpublished(k)') /\ \A i : Unsent(k, i)' => Unsent(k, i)
    BY <1>1, <2>2, <2>3, PublishCopies
  <2>11. Backlog'
    BY <1>1, <2>5, <2>9 DEF Backlog
  <2>12. Accounted'
    <3>1. \A k \in 1 .. seq : k \in Samples
      BY DEF TypeOK, Samples
    <3> QED BY <1>1, <2>5, <2>9, <2>10, <3>1 DEF Accounted
  <2>13. Copies'
    <3>1. ASSUME NEW k \in Samples PROVE k \in strained' \/ Once(k)'
      <4>1. CASE k # k0
        BY <1>1, <2>5, <2>9, <2>10, <4>1 DEF Copies, Once
      <4>2. CASE k = k0
        <5>1. k0 \in strained \/ Twofold(k0) \/ Unpublished(k0)
          BY <2>1, <2>9 DEF Copies, k0
        <5>2. CASE Unpublished(k0)
          <6>1. received[k] = 0 /\ \A i : Unsent(k, i)' => i = mid'
            BY <2>10, <4>2, <5>2
          <6>2. received'[k] = 0
            BY <1>1, <6>1
          <6> QED BY <6>1, <6>2 DEF Once
        <5>3. CASE Twofold(k0) /\ k0 \notin strained
          BY <1>1, <2>9, <4>2, <5>3 DEF Copies, Once
        <5> QED BY <2>5, <4>2, <5>1, <5>2, <5>3
      <4> QED BY <4>1, <4>2
    <3>2. ASSUME NEW i \in 1 .. Len(buffer)
          PROVE  \A k : k = buffer[i] => k \in strained' \/ Twofold(k)' \/ Awaited(k)' \/ Unpublished(k)'
      <4>1. buffer[i] \in strained \/ Twofold(buffer[i]) \/ Unpublished(buffer[i])
        BY <2>9 DEF Copies
      <4>2. CASE i # 1
        BY <2>1, <2>5, <2>9, <2>10, <4>1, <4>2
      <4>3. CASE i = 1 /\ Unpublished(k0) /\ main'.at = "waiting"
        <5>1. \A j \in DOMAIN out' : out'[j] = Telemetry(k0) => j = main'.mid
          BY <2>4, <2>5, <4>3 DEF Unpublished
        <5>2. buffer' = buffer /\ buffer'[1] = k0 /\ main'.at = "waiting"
          BY <1>1, <4>3 DEF k0
        <5> QED BY <4>3, <5>1, <5>2 DEF Awaited
      <4>4. i = 1 => buffer[i] = k0
        BY DEF k0
      <4> QED BY <2>5, <2>9, <4>1, <4>2, <4>3, <4>4
    <3>3. \A k \in Samples : k > seq \/ InHand(k) => k # k0
      <4>1. k0 \in Nat /\ seq \in Nat
        BY <2>1 DEF TypeOK, Samples
      <4> QED BY <2>1, <4>1 DEF Samples
    <3>4. \A k \in Samples : k > seq \/ InHand(k) => Unpublished(k)
      BY <1>1 DEF Copies
    <3>5. \A k \in Samples : k > seq \/ InHand(k) => Unpublished(k)'
      BY <2>10, <3>3, <3>4
    <3> QED BY <1>1, <2>9, <3>1, <3>2, <3>5 DEF Copies
  <2>14. Heard'
    <3>1. Running /\ Running'
      BY <1>1, <2>5 DEF Running
    <3> QED BY <1>1, <2>1, <2>3, <3>1, PublishHeard
  <2>15. Trips'
    BY <1>1 DEF Trips
  <2> QED BY <2>4, <2>6, <2>7, <2>8, <2>11, <2>12, <2>13, <2>14, <2>15
<1> QED BY <1>3, <1>4

LEMMA PublishLiveStep == ASSUME IInv, PublishLive PROVE IInv'
<1> USE DEF IInv
<1>1. /\ main.at = "live" /\ main' = [main EXCEPT !.at = "idle"]
      /\ UNCHANGED <<scenario, machine, seq, buffer, connected, net, link, session, retained,
                     received, evicted, strained, late>>
  BY DEF PublishLive, Main, broker
<1>2. /\ main'.at = "idle"
      /\ main' \in [at : {"idle", "flush", "waiting", "live", "exit", "stopping", "stopped", "gone"},
                    mid : Nat, live : BOOLEAN]
  BY <1>1 DEF TypeOK
<1>3. \A k : ~InHand(k)' /\ ~Awaited(k) /\ (InDeque(k) <=> InDeque(k)') /\ (InHand(k) <=> main.live /\ k = seq)
  BY <1>1, <1>2 DEF InHand, Awaited, InDeque
<1>4. Running /\ Running'
  BY <1>1, <1>2 DEF Running
<1>5. Trips'
  BY <1>1 DEF Trips
<1>6. Backlog'
  BY <1>1, <1>2, <1>3 DEF Backlog
<1>7. Peeked'
  BY <1>2 DEF Peeked
<1>8. CASE ~main.live
  <2>1. UNCHANGED <<mid, out, wire, sent>>
    BY <1>8 DEF PublishLive, paho
  <2>2. TypeOK'
    BY <1>1, <1>2, <2>1 DEF TypeOK
  <2>3. Queues' /\ Threads'
    BY <1>1, <1>2, <2>1 DEF Queues, Distinct, Threads, HasSocket
  <2>4. \A k : ~InHand(k) /\ (Twofold(k) <=> Twofold(k)')
               /\ (Unpublished(k) <=> Unpublished(k)') /\ (Once(k) <=> Once(k)')
    BY <1>1, <1>3, <1>8, <2>1 DEF Twofold, Unpublished, Once, Unsent
  <2>5. Accounted'
    BY <1>1, <1>2, <1>3, <2>1, <2>4 DEF Accounted, InPaho
  <2>6. Copies'
    BY <1>1, <1>2, <1>3, <2>1, <2>4 DEF Copies
  <2>7. Heard'
    BY <1>1, <1>2, <2>1 DEF Heard, Running, HasSocket
  <2> QED BY <1>5, <1>6, <1>7, <2>2, <2>3, <2>5, <2>6, <2>7
<1>9. CASE main.live
  <2> DEFINE body == Telemetry(seq)
  <2>1. seq \in Samples /\ InHand(seq) /\ Unpublished(seq) /\ \A k \in Samples : k > seq => k # seq
    <3>1. seq > 0
      BY <1>1, <1>9 DEF Backlog
    <3>2. seq \in Samples
      BY <3>1 DEF TypeOK, Samples
    <3>3. InHand(seq)
      BY <1>3, <1>9
    <3>4. Unpublished(seq)
      BY <1>1, <3>2, <3>3 DEF Copies
    <3>5. \A k \in Samples : k > seq => k # seq
      BY <3>2 DEF Samples
    <3> QED BY <3>2, <3>3, <3>4, <3>5
  <2>2. body \in Bodies /\ \A k \in Samples : Telemetry(k) = body => k = seq
    BY <2>1, Messages
  <2>3. Publish(body)
    BY <1>9 DEF PublishLive
  <2>4. /\ Queues' /\ mid' \in Nat
        /\ DOMAIN out' \subseteq 1 .. mid' /\ \A i \in DOMAIN out' : out'[i] \in Bodies
        /\ wire' \in Seq(Nat) /\ sent' \in Seq(Nat)
        /\ DOMAIN out' = DOMAIN out \cup {mid'} /\ \A i \in DOMAIN out : out'[i] = out[i]
    BY <1>1, <2>2, <2>3, PublishKeeps
  <2>5. TypeOK'
    BY <1>1, <1>2, <2>4 DEF TypeOK
  <2>6. net.at = "flushing" => net.mid \in DOMAIN out' /\ out'[net.mid] = out[net.mid]
    BY <2>4 DEF Threads
  <2>7. Threads'
    BY <1>1, <1>2, <2>6 DEF Threads, HasSocket
  <2>8. \A k : Twofold(k) <=> Twofold(k)'
    BY <1>1, <2>6 DEF Twofold
  <2>9. \A k \in Samples :
          /\ InPaho(k) => InPaho(k)'
          /\ k = seq => InPaho(k)' /\ (Unpublished(k) => received[k] = 0 /\ \A i : Unsent(k, i)' => i = mid')
          /\ k # seq => (Unpublished(k) => Unpublished(k)') /\ \A i : Unsent(k, i)' => Unsent(k, i)
    BY <1>1, <2>2, <2>3, PublishCopies
  <2>10. Accounted'
    <3>1. \A k \in 1 .. seq : k \in Samples
      BY DEF TypeOK, Samples
    <3> QED BY <1>1, <1>2, <1>3, <2>9, <3>1 DEF Accounted
  <2>11. Copies'
    <3>1. ASSUME NEW k \in Samples PROVE k \in strained' \/ Once(k)'
      <4>1. CASE k # seq
        BY <1>1, <2>8, <2>9, <4>1 DEF Copies, Once
      <4>2. CASE k = seq
        <5>1. received[k] = 0 /\ \A i : Unsent(k, i)' => i = mid'
          BY <2>1, <2>9, <4>2
        <5>2. received'[k] = 0
          BY <1>1, <5>1
        <5> QED BY <5>1, <5>2 DEF Once
      <4> QED BY <4>1, <4>2
    <3>2. \A i \in 1 .. Len(buffer) : buffer[i] \in Samples /\ buffer[i] # seq
      BY <2>1, Deque DEF Backlog
    <3>3. \A i \in 1 .. Len(buffer) :
            buffer[i] \in strained \/ Twofold(buffer[i]) \/ Unpublished(buffer[i])
      BY <1>3 DEF Copies
    <3>4. \A k \in Samples : k > seq => Unpublished(k)'
      BY <1>1, <2>1, <2>9 DEF Copies
    <3> QED BY <1>1, <1>3, <2>8, <2>9, <3>1, <3>2, <3>3, <3>4 DEF Copies
  <2>12. Heard'
    BY <1>1, <1>4, <2>1, <2>3, PublishHeard
  <2> QED BY <1>5, <1>6, <1>7, <2>4, <2>5, <2>7, <2>10, <2>11, <2>12
<1> QED BY <1>8, <1>9

LEMMA DisconnectStep == ASSUME IInv, Disconnect PROVE IInv'
<1> USE DEF IInv
<1> DEFINE body == Status("OFFLINE")
<1>1. /\ main.at \in {"idle", "exit"} /\ main' = [main EXCEPT !.at = "stopping"]
      /\ (late' <=> /\ net.at \in {"connected", "flushing"}
                    /\ \E i \in DOMAIN out \ ToSet(wire) : out[i] = Status("ONLINE"))
      /\ UNCHANGED <<scenario, machine, seq, buffer, connected, net, link, session, retained,
                     received, evicted, strained>>
  BY DEF Disconnect, Main, broker
<1>2. /\ main'.at = "stopping"
      /\ main' \in [at : {"idle", "flush", "waiting", "live", "exit", "stopping", "stopped", "gone"},
                    mid : Nat, live : BOOLEAN]
  BY <1>1 DEF TypeOK
<1>3. late' \in BOOLEAN
  BY DEF Disconnect
<1>4. \A k : ~InHand(k)' /\ ~InHand(k) /\ ~Awaited(k) /\ (InDeque(k) <=> InDeque(k)')
  BY <1>1, <1>2 DEF InHand, Awaited, InDeque
<1>5. Trips' /\ Peeked'
  BY <1>1, <1>2 DEF Trips, Peeked
<1>6. Backlog'
  BY <1>1, <1>2, <1>4 DEF Backlog
<1>7. ~session => retained = "OFFLINE"
  BY <1>1 DEF Heard, Running
<1>8. CASE ~connected
  <2>1. UNCHANGED <<mid, out, wire, sent>>
    BY <1>8 DEF Disconnect, paho
  <2>2. TypeOK'
    BY <1>1, <1>2, <1>3, <2>1 DEF TypeOK
  <2>3. Queues' /\ Threads'
    BY <1>1, <1>2, <2>1 DEF Queues, Distinct, Threads, HasSocket
  <2>4. \A k : (Twofold(k) <=> Twofold(k)') /\ (Unpublished(k) <=> Unpublished(k)') /\ (Once(k) <=> Once(k)')
    BY <1>1, <2>1 DEF Twofold, Unpublished, Once, Unsent
  <2>5. Accounted'
    BY <1>1, <1>2, <1>4, <2>1 DEF Accounted, InPaho
  <2>6. Copies'
    BY <1>1, <1>2, <1>4, <2>1, <2>4 DEF Copies
  <2>7. Heard'
    <3>1. ~HasSocket
      BY <1>8 DEF Threads
    <3> QED BY <1>1, <1>2, <1>7, <3>1 DEF Heard, Running, HasSocket
  <2> QED BY <1>5, <1>6, <2>2, <2>3, <2>5, <2>6, <2>7
<1>9. CASE connected
  <2>1. body \in Bodies /\ \A k \in Samples : Telemetry(k) # body
    BY Messages DEF Bodies
  <2>2. Publish(body)
    BY <1>9 DEF Disconnect
  <2>3. /\ Queues' /\ mid' \in Nat
        /\ DOMAIN out' \subseteq 1 .. mid' /\ \A i \in DOMAIN out' : out'[i] \in Bodies
        /\ wire' \in Seq(Nat) /\ sent' \in Seq(Nat)
        /\ DOMAIN out' = DOMAIN out \cup {mid'} /\ \A i \in DOMAIN out : out'[i] = out[i]
        /\ out'[mid'] = body
    BY <1>1, <2>1, <2>2, PublishKeeps
  <2>4. TypeOK'
    BY <1>1, <1>2, <1>3, <2>3 DEF TypeOK
  <2>5. net.at = "flushing" => net.mid \in DOMAIN out' /\ out'[net.mid] = out[net.mid]
    BY <2>3 DEF Threads
  <2>6. Threads'
    BY <1>1, <1>2, <2>5 DEF Threads, HasSocket
  <2>7. \A k : Twofold(k) <=> Twofold(k)'
    BY <1>1, <2>5 DEF Twofold
  <2>8. \A k \in Samples :
          /\ InPaho(k) => InPaho(k)'
          /\ Unpublished(k) => Unpublished(k)'
          /\ \A i : Unsent(k, i)' => Unsent(k, i)
    BY <1>1, <2>1, <2>2, PublishCopies
  <2>9. Accounted'
    <3>1. \A k \in 1 .. seq : k \in Samples
      BY DEF TypeOK, Samples
    <3> QED BY <1>1, <1>2, <1>4, <2>8, <3>1 DEF Accounted
  <2>10. Copies'
    <3>1. \A k \in Samples : Once(k) => Once(k)'
      BY <1>1, <2>7, <2>8 DEF Once
    <3>2. \A i \in 1 .. Len(buffer) : buffer[i] \in Samples
      BY Deque
    <3> QED BY <1>1, <1>2, <1>4, <2>7, <2>8, <3>1, <3>2 DEF Copies
  <2>11. Heard'
    <3>1. ASSUME HasSocket, ~late' PROVE Parting'
      <4>1. ToSet(wire') = ToSet(wire) \cup {mid'} /\ wire' = Append(wire, mid') /\ wire \in Seq(Nat)
        BY <2>1, <2>2, <3>1, PublishIt DEF TypeOK
      <4>2. Len(wire') = Len(wire) + 1 /\ Len(wire) \in Nat /\ wire'[Len(wire')] = mid'
        BY <2>3, <4>1, AppendProperties, LenProperties
      <4>3. Len(wire') \in 1 .. Len(wire') /\ Len(wire') + 1 .. Len(wire') = {}
        BY <4>2
      <4>4. net.at # "loop" => net.at \in {"connected", "flushing"}
        BY <3>1 DEF HasSocket
      <4>5. net'.at # "loop" => \A i \in DOMAIN out' \ ToSet(wire') : out'[i] # Status("ONLINE")
        BY <1>1, <2>3, <3>1, <4>1, <4>4
      <4> QED BY <2>3, <4>2, <4>3, <4>5 DEF Parting
    <3> QED BY <1>1, <1>2, <1>7, <3>1 DEF Heard, Running, HasSocket
  <2> QED BY <1>5, <1>6, <2>3, <2>4, <2>6, <2>9, <2>10, <2>11
<1> QED BY <1>8, <1>9

-----------------------------------------------------------------------------
(* The callbacks *)

LEMMA ConnectStep == ASSUME IInv, _on_connect PROVE IInv'
<1> USE DEF IInv
<1> DEFINE body == Status("ONLINE")
<1>1. /\ net.at = "offline" /\ main.at # "stopped" /\ net' = At("connected")
      /\ wire' = <<mid'>> /\ sent' = sent /\ Keeps(body)
      /\ (late' <=> late \/ main.at = "stopping")
      /\ retained' = IF session THEN "OFFLINE" ELSE retained
      /\ UNCHANGED <<scenario, machine, seq, buffer, main, received, evicted, strained>>
  BY DEF _on_connect, Keeps
<1>2. link' = TRUE /\ session' = TRUE /\ connected' = TRUE /\ late' \in BOOLEAN
  BY DEF _on_connect
<1>3. net'.at = "connected" /\ net' \in [at : {"connected"}, mid : Nat]
  BY <1>1 DEF At
<1>4. body \in Bodies /\ body # Status("OFFLINE") /\ \A k \in Samples : Telemetry(k) # body
  BY Messages DEF Bodies
<1>5. /\ mid' \in Nat /\ mid' \notin DOMAIN out /\ mid \in Nat /\ mid' = mid + 1
      /\ DOMAIN out' = DOMAIN out \cup {mid'} /\ DOMAIN out' \subseteq 1 .. mid'
      /\ out'[mid'] = body /\ (\A i \in DOMAIN out : out'[i] = out[i])
      /\ \A i \in DOMAIN out' : out'[i] \in Bodies
  BY <1>1, <1>4, KeepsIt
<1>6. wire' \in Seq(Nat) /\ ToSet(wire') = {mid'} /\ Distinct(wire') /\ wire = <<>> /\ sent = <<>>
  <2>1. wire' \in Seq(Nat) /\ Len(wire') = 1 /\ wire'[1] = mid'
    BY <1>1, <1>5
  <2>2. ToSet(wire') = {wire'[a] : a \in 1 .. 1}
    BY <2>1, ToSetIs
  <2> QED BY <1>1, <2>1, <2>2 DEF Distinct, Queues
<1>7. main.at \notin {"stopped", "gone"}
  BY <1>1 DEF Threads
<1>8. TypeOK'
  <2>1. retained' \in {"ONLINE", "OFFLINE"}
    BY <1>1 DEF TypeOK
  <2>2. net' \in [at : {"offline", "connected", "flushing", "loop", "closed", "stopped"}, mid : Nat]
    BY <1>3
  <2> QED BY <1>1, <1>2, <1>5, <1>6, <2>1, <2>2 DEF TypeOK
<1>9. Queues'
  <2>1. ToSet(sent') = {}
    BY <1>1, <1>6 DEF ToSet
  <2> QED BY <1>1, <1>3, <1>5, <1>6, <2>1 DEF Queues, Distinct
<1>10. Threads'
  BY <1>1, <1>2, <1>3, <1>7 DEF Threads, HasSocket
<1>11. Peeked'
  <2>1. main.at = "waiting" => (main.mid \in DOMAIN out <=> main.mid \in DOMAIN out')
    BY <1>5 DEF Peeked
  <2>2. main.at = "waiting" => main.mid \in 1 .. mid'
    BY <1>5 DEF Peeked
  <2> QED BY <1>1, <1>5, <2>1, <2>2 DEF Peeked
<1>12. \A k : /\ (InHand(k)' <=> InHand(k)) /\ (InDeque(k) <=> InDeque(k)')
              /\ ~Twofold(k) /\ ~Twofold(k)'
  BY <1>1, <1>3 DEF InHand, InDeque, Twofold
<1>13. \A k \in Samples :
         /\ InPaho(k) => InPaho(k)'
         /\ Unpublished(k) => Unpublished(k)'
         /\ Awaited(k) => Awaited(k)'
         /\ \A i : Unsent(k, i)' => Unsent(k, i)
  BY <1>1, <1>4, <1>5 DEF InPaho, Unpublished, Awaited, Unsent
<1>14. Backlog'
  BY <1>1, <1>12 DEF Backlog
<1>15. Accounted'
  <2>1. \A k \in 1 .. seq : k \in Samples
    BY DEF TypeOK, Samples
  <2> QED BY <1>1, <1>12, <1>13, <2>1 DEF Accounted
<1>16. Copies'
  <2>1. \A k \in Samples : Once(k) => Once(k)'
    BY <1>1, <1>12, <1>13 DEF Once
  <2>2. \A i \in 1 .. Len(buffer) : buffer[i] \in Samples
    BY Deque
  <2> QED BY <1>1, <1>12, <1>13, <2>1, <2>2 DEF Copies
<1>17. Heard'
  <2>1. Running => ~late' /\ \A i \in DOMAIN out' : out'[i] # Status("OFFLINE")
    BY <1>1, <1>4, <1>5 DEF Heard, Running
  <2>2. \E i \in ToSet(wire') : out'[i] = Status("ONLINE")
    BY <1>5, <1>6
  <2> QED BY <1>1, <1>2, <1>7, <2>1, <2>2 DEF Heard, Running
<1>18. Trips'
  BY <1>1 DEF Trips
<1> QED BY <1>8, <1>9, <1>10, <1>11, <1>14, <1>15, <1>16, <1>17, <1>18

\* After a callback paho sends all that it keeps; a sample published twice over has strained.
LEMMA ResumeStep ==
    ASSUME IInv, Resume, net.at \in {"connected", "flushing"},
           net.at = "flushing" => out[net.mid].sample \in strained',
           strained \subseteq strained', strained' \subseteq 0 .. MaxSamples,
           UNCHANGED <<scenario, machine, seq, buffer, connected, main, link, mid, out,
                       session, retained, received, evicted, late>>
    PROVE  IInv'
<1> USE DEF IInv
<1>1. sent = <<>>
  BY DEF Queues
<1>2. /\ net' = At("loop") /\ sent' = sent
      /\ wire' \in Seq(Nat) /\ ToSet(wire') = DOMAIN out /\ Distinct(wire')
      /\ Len(wire) \in Nat /\ Len(wire') \in Nat /\ Len(wire') >= Len(wire)
      /\ \A a \in 1 .. Len(wire) : wire'[a] = wire[a]
      /\ \A a \in Len(wire) + 1 .. Len(wire') : wire'[a] \in DOMAIN out \ ToSet(wire)
  BY <1>1, ResumeIt
<1>3. net'.at = "loop" /\ net' \in [at : {"loop"}, mid : Nat]
  BY <1>2 DEF At
<1>4. TypeOK'
  <2>1. net' \in [at : {"offline", "connected", "flushing", "loop", "closed", "stopped"}, mid : Nat]
    BY <1>3
  <2> QED BY <1>2, <2>1 DEF TypeOK
<1>5. Queues'
  <2>1. ToSet(sent') = {}
    BY <1>1, <1>2 DEF ToSet
  <2> QED BY <1>2, <1>3, <2>1 DEF Queues, Distinct
<1>6. HasSocket /\ HasSocket' /\ main.at \notin {"stopped", "gone"}
  BY <1>3 DEF HasSocket, Threads
<1>7. Threads' /\ Peeked' /\ Trips'
  BY <1>3, <1>6 DEF Threads, Peeked, Trips
<1>8. \A k : /\ (InHand(k)' <=> InHand(k)) /\ (InDeque(k) <=> InDeque(k)') /\ (InPaho(k) <=> InPaho(k)')
             /\ ~Twofold(k)' /\ (Awaited(k) <=> Awaited(k)') /\ (Unpublished(k) <=> Unpublished(k)')
             /\ \A i : Unsent(k, i)' <=> Unsent(k, i)
  BY <1>2, <1>3 DEF InHand, InDeque, InPaho, Twofold, Awaited, Unpublished, Unsent
<1>9. Backlog' /\ Accounted'
  BY <1>8 DEF Backlog, Accounted
<1>10. Copies'
  <2>1. \A k \in Samples : Twofold(k) => k \in strained'
    BY Messages DEF Twofold
  <2>2. \A k \in Samples : Once(k) /\ ~Twofold(k) => Once(k)'
    BY <1>8 DEF Once
  <2>3. \A i \in 1 .. Len(buffer) : buffer[i] \in Samples
    BY Deque
  <2> QED BY <1>8, <2>1, <2>2, <2>3 DEF Copies
<1>11. Heard'
  <2>1. ToSet(wire) \subseteq ToSet(wire')
    BY <1>2 DEF Queues
  <2>2. ASSUME Parting PROVE Parting'
    <3>1. \A i \in DOMAIN out \ ToSet(wire) : out[i] # Status("ONLINE")
      BY <2>2 DEF Parting
    <3>2. ASSUME NEW p \in 1 .. Len(wire), out[wire[p]] = Status("OFFLINE"),
                 \A q \in p + 1 .. Len(wire) : out[wire[q]] # Status("ONLINE")
          PROVE  Parting'
      <4>1. p \in 1 .. Len(wire') /\ out[wire'[p]] = Status("OFFLINE")
        BY <1>2, <3>2
      <4>2. \A q \in p + 1 .. Len(wire') :
              \/ q \in p + 1 .. Len(wire) /\ q \in 1 .. Len(wire)
              \/ q \in Len(wire) + 1 .. Len(wire')
        BY <1>2
      <4>3. \A q \in p + 1 .. Len(wire') : out[wire'[q]] # Status("ONLINE")
        BY <1>2, <3>1, <3>2, <4>2
      <4> QED BY <1>3, <4>1, <4>3 DEF Parting
    <3>3. CASE retained = "OFFLINE" /\ \A i \in ToSet(wire) : out[i] # Status("ONLINE")
      BY <1>2, <1>3, <3>1, <3>3 DEF Parting
    <3> QED BY <2>2, <3>2, <3>3 DEF Parting
  <2> QED BY <1>6, <2>1, <2>2 DEF Heard, Running
<1> QED BY <1>4, <1>5, <1>7, <1>9, <1>10, <1>11

LEMMA FlushOnConnectStep == ASSUME IInv, FlushOnConnect PROVE IInv'
<1> USE DEF IInv
<1>1. /\ net.at = "connected"
      /\ UNCHANGED <<scenario, machine, seq, buffer, connected, main, link, session, retained,
                     received, evicted, strained, late>>
  BY DEF FlushOnConnect, broker
<1>2. CASE ~(buffer # <<>> /\ connected)
  <2>1. Resume /\ UNCHANGED <<mid, out>>
    BY <1>2 DEF FlushOnConnect
  <2>2. strained' \subseteq 0 .. MaxSamples
    BY <1>1 DEF TypeOK
  <2> QED BY <1>1, <2>1, <2>2, ResumeStep
<1>3. CASE buffer # <<>> /\ connected
  <2> DEFINE k0 == buffer[1]
             body == Telemetry(k0)
  <2>1. /\ Head(buffer) = k0 /\ k0 \in Samples /\ k0 <= seq /\ ~InHand(k0) /\ 1 \in 1 .. Len(buffer)
        /\ \A i \in 1 .. Len(buffer) : buffer[i] \in Samples /\ (i # 1 => buffer[i] # k0)
    BY <1>3, Foremost
  <2>2. body \in Bodies /\ \A k \in Samples : Telemetry(k) = body => k = k0
    BY <2>1, Messages
  <2>3. Publish(body) /\ net' = [at |-> "flushing", mid |-> mid']
    BY <1>3, <2>1 DEF FlushOnConnect
  <2>4. net'.at = "flushing" /\ net'.mid = mid'
    BY <2>3
  <2> HIDE DEF k0
  <2>5. /\ Queues' /\ mid' \in Nat /\ mid' > mid /\ mid \in Nat
        /\ DOMAIN out' \subseteq 1 .. mid' /\ \A i \in DOMAIN out' : out'[i] \in Bodies
        /\ wire' \in Seq(Nat) /\ sent' \in Seq(Nat)
        /\ mid' \notin DOMAIN out /\ DOMAIN out' = DOMAIN out \cup {mid'}
        /\ out'[mid'] = body /\ \A i \in DOMAIN out : out'[i] = out[i]
    BY <1>1, <2>2, <2>3, <2>4, PublishKeeps
  <2>6. TypeOK'
    <3>1. net' \in [at : {"offline", "connected", "flushing", "loop", "closed", "stopped"}, mid : Nat]
      BY <2>3, <2>5
    <3> QED BY <1>1, <2>5, <3>1 DEF TypeOK
  <2>7. HasSocket /\ HasSocket' /\ main.at \notin {"stopped", "gone"}
    BY <1>1, <2>4 DEF HasSocket, Threads
  <2>8. Threads'
    BY <1>1, <2>1, <2>4, <2>5, <2>7 DEF Threads
  <2>9. Peeked'
    <3>1. main.at = "waiting" => main.mid \in 1 .. mid' /\ main.mid # mid'
      BY <2>5 DEF Peeked
    <3> QED BY <1>1, <2>5, <3>1 DEF Peeked
  <2>10. \A k : (InHand(k) <=> InHand(k)') /\ (InDeque(k) <=> InDeque(k)') /\ ~Twofold(k)
                /\ (k = k0 => Twofold(k)')
    BY <1>1, <2>4, <2>5 DEF InHand, InDeque, Twofold
  <2>11. \A k \in Samples :
           /\ InPaho(k) => InPaho(k)'
           /\ k # k0 => (Unpublished(k) => Unpublished(k)') /\ \A i : Unsent(k, i)' => Unsent(k, i)
    BY <1>1, <2>2, <2>3, <2>4, PublishCopies
  <2>12. Backlog'
    BY <1>1, <2>10 DEF Backlog
  <2>13. Accounted'
    <3>1. \A k \in 1 .. seq : k \in Samples
      BY DEF TypeOK, Samples
    <3> QED BY <1>1, <2>10, <2>11, <3>1 DEF Accounted
  <2>14. Copies'
    <3>1. \A k \in Samples : k \in strained \/ Once(k)'
      BY <1>1, <2>10, <2>11 DEF Copies, Once
    <3>2. \A i \in 1 .. Len(buffer) : i # 1 => buffer[i] \in strained \/ Unpublished(buffer[i])
      BY <2>1, <2>10 DEF Copies, Awaited, k0
    <3>3. \A i \in 1 .. Len(buffer) : i = 1 => buffer[i] = k0
      BY DEF k0
    <3>4. ASSUME NEW i \in 1 .. Len(buffer)
          PROVE  \A k : k = buffer[i] => k \in strained \/ Twofold(k)' \/ Unpublished(k)'
      BY <2>1, <2>10, <2>11, <3>2, <3>3
    <3>5. \A k \in Samples : k > seq \/ InHand(k) => k # k0
      <4>1. k0 \in Nat /\ seq \in Nat
        BY <2>1 DEF TypeOK, Samples
      <4> QED BY <2>1, <4>1 DEF Samples
    <3>6. \A k \in Samples : k > seq \/ InHand(k) => Unpublished(k)'
      BY <2>7, <2>11, <3>5 DEF Copies
    <3> QED BY <1>1, <2>10, <3>1, <3>4, <3>6 DEF Copies
  <2>15. Heard'
    BY <1>1, <2>1, <2>3, <2>4, PublishHeard
  <2>16. Trips'
    BY <1>1 DEF Trips
  <2> QED BY <2>5, <2>6, <2>8, <2>9, <2>12, <2>13, <2>14, <2>15, <2>16
<1> QED BY <1>2, <1>3

LEMMA TimeoutOnConnectStep == ASSUME IInv, TimeoutOnConnect PROVE IInv'
<1>1. /\ net.at = "flushing" /\ strained' = strained \cup {out[net.mid].sample} /\ Resume
      /\ UNCHANGED <<scenario, machine, seq, buffer, connected, main, link, mid, out,
                     session, retained, received, evicted, late>>
  BY DEF TimeoutOnConnect, broker
<1>2. \E k \in Samples : out[net.mid] = Telemetry(k)
  BY <1>1 DEF IInv, Threads
<1>3. out[net.mid].sample \in 0 .. MaxSamples
  <2>1. out[net.mid].sample \in Samples
    BY <1>2, Messages
  <2> QED BY <2>1 DEF Samples
<1>4. strained' \subseteq 0 .. MaxSamples
  BY <1>1, <1>3 DEF IInv, TypeOK
<1> QED BY <1>1, <1>4, ResumeStep

-----------------------------------------------------------------------------
(* The invariant *)

LEMMA InitInv == ASSUME Init PROVE IInv
<1> USE DEF IInv
<1>1. /\ seq = 0 /\ buffer = <<>> /\ net.at = "offline" /\ net = At("offline")
      /\ main = [at |-> "idle", mid |-> 0, live |-> FALSE] /\ mid = 0 /\ out = <<>> /\ wire = <<>>
      /\ sent = <<>> /\ retained = "OFFLINE" /\ received = [k \in Samples |-> 0]
      /\ evicted = {} /\ strained = {} /\ machine = Started /\ scenario \in Scenarios
  BY DEF Init, At
<1>2. ~connected /\ ~link /\ ~session /\ ~late /\ {connected, link, session, late} \subseteq BOOLEAN
  BY DEF Init
<1>3. /\ DOMAIN out = {} /\ Len(buffer) = 0 /\ ToSet(wire) = {} /\ ToSet(sent) = {}
      /\ Len(wire) = 0 /\ Len(sent) = 0 /\ buffer \in Seq(Samples) /\ wire \in Seq(Nat) /\ sent \in Seq(Nat)
  <2>1. DOMAIN <<>> = {} /\ Len(<<>>) = 0
    OBVIOUS
  <2>2. ToSet(<<>>) = {}
    BY <2>1 DEF ToSet
  <2> QED BY <1>1, <2>1, <2>2, EmptySeq
<1>4. TypeOK
  <2>1. main \in [at : {"idle", "flush", "waiting", "live", "exit", "stopping", "stopped", "gone"},
                  mid : Nat, live : BOOLEAN]
        /\ net \in [at : {"offline", "connected", "flushing", "loop", "closed", "stopped"}, mid : Nat]
    BY <1>1 DEF At
  <2>2. Len(buffer) <= Capacity
    BY <1>3, CapacityAssumption
  <2>3. connected \in BOOLEAN /\ link \in BOOLEAN /\ session \in BOOLEAN /\ late \in BOOLEAN
    BY <1>2
  <2>4. seq \in 0 .. MaxSamples /\ mid \in Nat /\ retained \in {"ONLINE", "OFFLINE"}
        /\ received \in [Samples -> Nat] /\ evicted \subseteq Samples /\ strained \subseteq 0 .. MaxSamples
    BY <1>1
  <2> QED BY <1>3, <2>1, <2>2, <2>3, <2>4 DEF TypeOK
<1>5. Queues
  BY <1>1, <1>3 DEF Queues, Distinct
<1>6. Threads
  BY <1>1, <1>2 DEF Threads, HasSocket
<1>7. Peeked /\ Backlog /\ Accounted
  BY <1>1, <1>3 DEF Peeked, Backlog, Accounted
<1>8. Copies
  BY <1>1, <1>3 DEF Copies, Once, Unsent, Twofold, Unpublished
<1>9. Heard
  BY <1>1, <1>2, <1>3 DEF Heard, Running, HasSocket
<1>10. Trips
  <2>1. IsMachine(Started) /\ Started.step = 0 /\ Started.ramp = 0 /\ Started.state = "STARTING"
    BY DEF IsMachine, Started
  <2> QED BY <1>1, <2>1, RampAssumption DEF Trips
<1> QED BY <1>4, <1>5, <1>6, <1>7, <1>8, <1>9, <1>10

LEMMA StutterStep == ASSUME IInv, UNCHANGED vars PROVE IInv'
<1> USE DEF IInv
<1>1. UNCHANGED <<scenario, machine, seq, buffer, connected, main, net, link, mid, out, wire, sent,
                  session, retained, received, evicted, strained, late>>
  BY DEF vars, paho, broker
<1>2. TypeOK' /\ Queues' /\ Threads' /\ Peeked'
  BY <1>1 DEF TypeOK, Queues, Distinct, Threads, HasSocket, Peeked
<1>3. Backlog' /\ Accounted'
  BY <1>1 DEF Backlog, Accounted, InHand, InPaho, InDeque
<1>4. Copies'
  BY <1>1 DEF Copies, Once, Unsent, Twofold, Awaited, Unpublished, InHand
<1>5. Heard' /\ Trips'
  BY <1>1 DEF Heard, Parting, Running, HasSocket, Trips
<1> QED BY <1>2, <1>3, <1>4, <1>5

LEMMA StepStep == ASSUME IInv, Step PROVE IInv'
<1>1. CASE Silent(machine, scenario)
  BY <1>1, SilentStep
<1>2. CASE ~Silent(machine, scenario)
  <2>1. \/ connected /\ main' = [at |-> "flush", mid |-> 0, live |-> TRUE] /\ UNCHANGED <<buffer, evicted>>
        \/ Buffer(seq') /\ main' = main
    BY <1>2, SampleStep
  <2> QED BY <1>2, <2>1, LiveStep, BufferStep
<1> QED BY <1>1, <1>2

LEMMA NextInv == ASSUME IInv, [Next]_vars PROVE IInv'
<1>1. CASE NetThread
  BY <1>1, WriteStep, AcknowledgedStep, CloseStep, AsideStep, ConnectStep, FlushOnConnectStep,
     TimeoutOnConnectStep DEF NetThread, Aside
<1>2. CASE MainThread
  BY <1>2, StepStep, BeyondStep, FlushStep, PublishedStep, PublishLiveStep, DisconnectStep,
     AsideStep, EndStep DEF MainThread, Aside
<1>3. CASE Timeout \/ Disconnect \/ Breaks \/ Will \/ Killed
  BY <1>3, TimeoutStep, DisconnectStep, AsideStep, EndStep DEF Aside
<1>4. CASE UNCHANGED vars
  BY <1>4, StutterStep
<1> QED BY <1>1, <1>2, <1>3, <1>4 DEF Next

\* What each step of the two threads, of paho and of the broker keeps, in every behaviour.
THEOREM Invariance == Spec => []IInv
BY InitInv, NextInv, PTL DEF Spec

\* The deque keeps to its maxlen, paho's identifiers are used once, and every variable has
\* its type.
THEOREM TypeCorrect == Spec => []TypeOK
<1>1. IInv => TypeOK
  BY DEF IInv
<1> QED BY Invariance, <1>1, PTL

\* While a virtual edge runs each of its samples is with the broker, with paho, in the deque
\* in order, or gave way there to younger ones: publish, _flush_buffer and the deque lose none.
THEOREM NothingIsLost == Spec => []NothingLost
<1>1. ASSUME IInv PROVE NothingLost
  <2> USE DEF IInv
  <2>1. Range(buffer) = {buffer[i] : i \in 1 .. Len(buffer)} /\ DOMAIN buffer = 1 .. Len(buffer)
    BY Deque DEF Range
  <2>2. \A k : (InDeque(k) => k \in Range(buffer)) /\ (InPaho(k) => Telemetry(k) \in Range(out))
    BY <2>1 DEF InDeque, InPaho, Range
  <2> QED BY <1>1, <2>1, <2>2 DEF NothingLost, Accounted, Backlog
<1> QED BY Invariance, <1>1, PTL

\* The broker has a sample twice only when a wait for it was given up or a break left it
\* unacknowledged: that main and the callback both flush the deque is not enough.
THEOREM RepeatsHaveACause == Spec => []RepeatsCaused
<1>1. ASSUME IInv PROVE RepeatsCaused
  <2>1. ASSUME NEW k \in Samples, received[k] > 1, k \notin strained PROVE FALSE
    <3>1. received[k] <= 1 /\ received[k] \in Nat
      BY <1>1, <2>1 DEF IInv, Copies, Once, TypeOK
    <3> QED BY <2>1, <3>1
  <2> QED BY <2>1 DEF RepeatsCaused
<1> QED BY Invariance, <1>1, PTL

\* What the broker retains of an edge is true: ONLINE once a connected edge was heard, OFFLINE
\* once it has no session, unless disconnect() raced a reconnection.
THEOREM StatusIsTrue == Spec => []StatusTruthful
<1>1. ASSUME IInv PROVE StatusTruthful
  <2>1. ASSUME net.at = "loop", link, main.at \in {"idle", "flush", "waiting", "live"},
               Status("ONLINE") \notin Range(out)
        PROVE  retained = "ONLINE"
    <3>1. \A i \in ToSet(wire) : out[i] # Status("ONLINE")
      BY <1>1, <2>1 DEF IInv, Queues, Range
    <3> QED BY <1>1, <2>1, <3>1 DEF IInv, Heard, Running, HasSocket
  <2> QED BY <1>1, <2>1 DEF StatusTruthful, IInv, Heard
<1> QED BY Invariance, <1>1, PTL

\* The trip of a scenario comes once its delay has passed since its trigger and the machine
\* runs, for every scenario, delay and length of the start.
THEOREM TripsInTime == Spec => []ScenarioTripsInTime
<1>1. ASSUME IInv PROVE ScenarioTripsInTime
  <2> DEFINE due == scenario.trigger + scenario.delay
  <2> SUFFICES ASSUME scenario.trip # None, machine.step > due, machine.step > RampTicks
               PROVE  machine.state = "TRIPPED"
    BY DEF ScenarioTripsInTime
  <2>1. scenario \in Scenarios /\ IsMachine(machine)
    BY <1>1 DEF IInv, Trips
  <2>2. machine.step \in Nat /\ due \in Nat /\ RampTicks \in Nat
        /\ machine.state \in {"STARTING", "RUNNING", "DEGRADING", "TRIPPED"}
    BY <2>1, ScenariosAssumption, RampAssumption DEF IsMachine
  <2>3. /\ machine.state = "STARTING" => machine.step < RampTicks
        /\ machine.state \in {"RUNNING", "DEGRADING"} => machine.step <= due \/ machine.step <= RampTicks
    BY <1>1 DEF IInv, Trips
  <2> QED BY <2>2, <2>3
<1> QED BY Invariance, <1>1, PTL
=============================================================================
