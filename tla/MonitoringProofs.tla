--------------------------- MODULE MonitoringProofs ---------------------------
(***************************************************************************)
(* For every set of machines and messages, every outcome of the models and *)
(* every number of samples: an alarm reaches the operator, a thinned trend *)
(* keeps it, what a page shows belongs together, paging hides nothing      *)
(* without a reason, and a drift report says what its rows allow.          *)
(***************************************************************************)
EXTENDS Monitoring, SequenceTheorems, FiniteSetTheorems, WellFoundedInduction, TLAPS

USE SensorsAssumption, NoneAssumption, PointsAssumption, SampleAssumption, PageAssumption,
    TimeAssumption, AlarmingAssumption
    DEF SensorsAssumption, NoneAssumption, PointsAssumption, SampleAssumption, PageAssumption,
        TimeAssumption, AlarmingAssumption

Times == 1 .. Now
HealthStates == {"MAINTENANCE_REQUIRED", "CRITICAL", "WARNING", "HEALTHY", "OFFLINE"}
Bands  == {"LOW", "MEDIUM", "HIGH", "CRITICAL"}

\* A row of a message that the contract let pass on the topic of its machine.
Samples ==
    UNION {{normalize_telemetry(message, ts) : message \in Accepted[m], ts \in 1 .. MaxTime} :
             m \in Machines}

\* What the health engine can raise: the type tells the severity.
Raised ==
    {Alarm("CRITICAL", "HARDWARE_SAFETY_TRIP"), Alarm("CRITICAL", "CRITICAL_MACHINE_HEALTH"),
     Alarm("WARNING", "MAINTENANCE_REQUIRED"), Alarm("WARNING", "WARNING_ELEVATED_RISK")}

Evaluated == Raised \cup {Alarm("INFO", "RECOVERED_TO_HEALTHY"), Alarm(None, None)}
Types == {"HARDWARE_SAFETY_TRIP", "CRITICAL_MACHINE_HEALTH", "MAINTENANCE_REQUIRED",
          "WARNING_ELEVATED_RISK"}

\* A machine that is shown HEALTHY has a good score, and one without a score is OFFLINE.
Agrees(state, score) ==
    /\ score \in Int \cup {None}
    /\ state = "HEALTHY" => score \in Int /\ score >= 8000
    /\ score = None => state = "OFFLINE"

Sound(r) ==
    /\ r.machine \in Machines /\ r.ts \in 1 .. MaxTime
    /\ r.score \in Int /\ Agrees(r.state, r.score)
    /\ r.alarm.severity \in Alarming => r.alarm \in Raised
    /\ r.advice.urgency \in {"HIGH", "IMMEDIATE"} => r.alarm.severity \in Alarming

Advised(row, p, a) ==
    generate_recommendation(Counted(row, p, a), explain(telemetry_to_feature_df(row)))
Advices == {Advised(c[1], c[2], c[3]) : c \in Samples \X (0 .. 100) \X ((0 .. 100) \cup {None})}

Results == {r \in [machine : Machines, ts : 1 .. MaxTime, score : Int, state : HealthStates,
                   band : Bands, alarm : Evaluated, advice : Advices,
                         found : SUBSET Nat] : Sound(r)}

TwinStates ==
    {t \in [machine : Machines, ts : Times, score : Int \cup {None}, state : HealthStates,
            band : Bands \cup {None}] : Agrees(t.state, t.score)}

Alerts ==
    {a \in [machine : Machines, type : Types, severity : Alarming, ts : 1 .. MaxTime,
            status : {"OPEN", "ACKNOWLEDGED"}, left : Nat] : Alarm(a.severity, a.type) \in Raised}

\* Such a row exists for a machine and a time.
Stored(table, m, ts) == \E i \in 1 .. Len(table) : table[i].machine = m /\ table[i].ts = ts

\* A twin with a score comes from a sample and its prediction.
Backed(t) == t.score # None => Stored(telemetry, t.machine, t.ts) /\ Stored(predictions, t.machine, t.ts)

TablesOK ==
    /\ telemetry \in Seq(Samples) /\ predictions \in Seq(Results) /\ alerts \in Seq(Alerts)
    /\ snapshots \in Seq({Column(t) : t \in TwinStates})
    /\ twins \in [Machines -> {None} \cup TwinStates]

WorkOK ==
    \/ work = Idle
    \/ work.row \in 1 .. Len(telemetry) /\ work = [at |-> "infer", row |-> work.row]
    \/ /\ work.at \in {"predict", "commit", "twin"} /\ work.row \in 1 .. Len(telemetry)
       /\ work.result \in Results
       /\ work = [at |-> work.at, row |-> work.row, result |-> work.result]
       /\ work.result.machine = telemetry[work.row].machine
       /\ work.result.ts = telemetry[work.row].ts
       /\ work.at = "twin" => Stored(predictions, work.result.machine, work.result.ts)

Sources ==
    /\ \A m \in Machines : twins[m] # None => twins[m].machine = m /\ Backed(twins[m])
    /\ \A i \in 1 .. Len(snapshots) : Backed(snapshots[i].payload)

TypeOK == TablesOK /\ WorkOK /\ Sources

-----------------------------------------------------------------------------
(* What every step is *)

\* Nothing of a table is taken away, and of an alert nothing changes but that it is left.
Extends(t, u) == Len(t) <= Len(u) /\ \A i \in 1 .. Len(t) : u[i] = t[i]

Leaving(t, u) ==
    /\ Len(t) <= Len(u)
    /\ \A i \in 1 .. Len(t) :
         /\ u[i].machine = t[i].machine /\ u[i].type = t[i].type
         /\ u[i].severity = t[i].severity /\ u[i].ts = t[i].ts
         /\ u[i] = t[i] \/ (t[i].status = "OPEN" /\ u[i].status = "ACKNOWLEDGED")

Grows ==
    /\ Extends(telemetry, telemetry') /\ Extends(predictions, predictions')
    /\ Extends(snapshots, snapshots') /\ Leaving(alerts, alerts')

LEMMA Added ==
    ASSUME NEW S, NEW t \in Seq(S), NEW x \in S
    PROVE  /\ Append(t, x) \in Seq(S) /\ Len(Append(t, x)) = Len(t) + 1 /\ Len(t) \in Nat
           /\ Extends(t, Append(t, x)) /\ Append(t, x)[Len(t) + 1] = x
BY AppendProperties, LenProperties DEF Extends

LEMMA Same ==
    ASSUME NEW S, NEW t \in Seq(S)
    PROVE  Extends(t, t) /\ Leaving(t, t) /\ Len(t) \in Nat /\ DOMAIN t = 1 .. Len(t)
BY LenProperties DEF Extends, Leaving

LEMMA StoredKept ==
    ASSUME NEW t, NEW u, Len(t) \in Nat, Len(u) \in Nat, Extends(t, u), NEW m, NEW ts, Stored(t, m, ts)
    PROVE  Stored(u, m, ts)
BY DEF Extends, Stored

-----------------------------------------------------------------------------
(* What the health engine makes of a sample *)

LEMMA Penalties ==
    ASSUME NEW payload, NEW p, NEW a
    PROVE  /\ compute_sensor_penalty(Counted(payload, p, a)) \in Int
           /\ Counted(payload, p, a).p = p /\ Counted(payload, p, a).a = a
           /\ ~Counted(payload, p, a).offline
<1> DEFINE missing == {s \in Sensors : payload.reading[s] = "absent"}
           out     == {s \in Sensors \ missing : payload.quality[s] = "OUT_OF_RANGE"}
<1>1. missing \in SUBSET Sensors /\ out \in SUBSET Sensors
  OBVIOUS
<1>2. Cardinality(missing) \in Nat /\ Cardinality(out) \in Nat
  <2> HIDE DEF missing, out
  <2> QED BY <1>1, FS_Subset, FS_CardinalityType
<1>3. Counted(payload, p, a) = [p |-> p, a |-> a, missing |-> Cardinality(missing),
         out |-> Cardinality(out), worn |-> payload.worn, trip |-> payload.trip,
         technician |-> FALSE, offline |-> FALSE]
  BY DEF Counted
<1> HIDE DEF missing, out
<1>4. compute_sensor_penalty(Counted(payload, p, a)) \in Int
  BY <1>2, <1>3 DEF compute_sensor_penalty, Least
<1> QED BY <1>2, <1>3, <1>4

LEMMA Scores ==
    ASSUME NEW payload, NEW p \in 0 .. 100, NEW a \in (0 .. 100) \cup {None}
    PROVE  /\ compute_health_score(Counted(payload, p, a)) \in Int
           /\ compute_health_score(Counted(payload, p, a)) # None
<1> DEFINE x == Counted(payload, p, a)
           taken == 60 * Clip(p, 100) + 25 * (IF a = None THEN 0 ELSE Clip(a, 100))
                         + compute_sensor_penalty(x)
<1>1. compute_sensor_penalty(x) \in Int /\ x.p = p /\ x.a = a /\ ~x.offline
  BY Penalties
<1>5. p # None
  OBVIOUS
<1> HIDE DEF x
<1>2. taken \in Int
  BY <1>1 DEF Clip, Least
<1>3. compute_health_score(x) = Clip(10000 - taken, 10000)
  BY <1>1, <1>5 DEF compute_health_score
<1> HIDE DEF taken
<1>4. Clip(10000 - taken, 10000) \in Int
  BY <1>2 DEF Clip, Least
<1> QED BY <1>3, <1>4 DEF x

LEMMA Banded == \A p \in Int : classify_risk_band(p) \in Bands
BY DEF classify_risk_band, Bands

LEMMA States ==
    ASSUME NEW payload, NEW p \in 0 .. 100, NEW a \in (0 .. 100) \cup {None},
           NEW x, x = Counted(payload, p, a)
    PROVE  /\ determine_health_state(x) \in HealthStates \ {"OFFLINE"}
           /\ Agrees(determine_health_state(x), compute_health_score(x))
           /\ x.worn => determine_health_state(x) = "MAINTENANCE_REQUIRED"
           /\ p >= 80 => determine_health_state(x) \in {"MAINTENANCE_REQUIRED", "CRITICAL"}
<1> DEFINE score == compute_health_score(x)
<1>1. score \in Int /\ score # None
  BY Scores
<1>6. x.p = p
  BY Penalties
<1>2. determine_health_state(x) \in HealthStates \ {"OFFLINE"}
  BY <1>1, <1>6 DEF determine_health_state, HealthStates
<1>3. determine_health_state(x) = "HEALTHY" => score >= 8000
  <2>1. ~Exceeds(x) => score >= 8000
    BY <1>1, <1>6 DEF Exceeds
  <2>2. determine_health_state(x) = "HEALTHY" => ~Exceeds(x)
    BY <1>1, <1>6 DEF determine_health_state
  <2> QED BY <2>1, <2>2
<1>7. Agrees(determine_health_state(x), score)
  BY <1>1, <1>3 DEF Agrees
<1>4. x.worn => determine_health_state(x) = "MAINTENANCE_REQUIRED"
  BY <1>1, <1>6 DEF determine_health_state
<1>5. p >= 80 => determine_health_state(x) \in {"MAINTENANCE_REQUIRED", "CRITICAL"}
  BY <1>1, <1>6 DEF determine_health_state
<1> QED BY <1>2, <1>4, <1>5, <1>7

LEMMA RaisedAre ==
    /\ \A s, t : Alarm(s, t).severity = s /\ Alarm(s, t).type = t
    /\ \A r \in Raised : r.severity \in Alarming /\ r.type \in Types
    /\ \A r \in Evaluated : r.severity \in Alarming => r \in Raised
    /\ \A q, r \in Raised : q.type = r.type => q = r
<1>1. \A s, t : Alarm(s, t).severity = s /\ Alarm(s, t).type = t
  BY DEF Alarm
<1>2. \A r \in Raised : r.severity \in Alarming /\ r.type \in Types
  BY <1>1 DEF Raised, Alarming, Types
<1>3. \A r \in Evaluated : r.severity \in Alarming => r \in Raised
  <2>1. "INFO" \notin Alarming
    BY DEF Alarming
  <2> QED BY <1>1, <2>1 DEF Evaluated
<1>4. \A q, r \in Raised : q.type = r.type => q = r
  BY <1>1 DEF Raised
<1> QED BY <1>1, <1>2, <1>3, <1>4

\* What is urgent is alarming, and an alarm's type tells its severity.
LEMMA Alarms ==
    ASSUME NEW payload, NEW p \in 0 .. 100, NEW a \in (0 .. 100) \cup {None}, NEW previous,
           NEW factors, NEW x, x = Counted(payload, p, a)
    PROVE  LET raised == alert(x, previous)
               advice == generate_recommendation(x, factors)
           IN  /\ raised \in Evaluated
               /\ advice.urgency \in {"HIGH", "IMMEDIATE"} => raised.severity \in Alarming
<1> DEFINE state == determine_health_state(x)
<1>1. state \in HealthStates \ {"OFFLINE"}
  BY States
<1>5. p >= 80 => state \in {"MAINTENANCE_REQUIRED", "CRITICAL"}
  BY States
<1>6. x.worn => state = "MAINTENANCE_REQUIRED"
  BY States
<1>4. x.p = p
  BY Penalties
<1>2. CASE x.trip
  <2>1. alert(x, previous) = Alarm("CRITICAL", "HARDWARE_SAFETY_TRIP")
    BY <1>2 DEF alert
  <2>2. alert(x, previous) \in Raised
    BY <2>1 DEF Raised
  <2> QED BY <2>2, RaisedAre DEF Evaluated
<1>3. CASE ~x.trip
  <2>1. CASE state = "HEALTHY"
    <3>1. state # "CRITICAL" /\ state # "MAINTENANCE_REQUIRED" /\ state # "WARNING" /\ state # "OFFLINE"
      BY <2>1
    <3> HIDE DEF state
    <3>2. alert(x, previous) \in {Alarm("INFO", "RECOVERED_TO_HEALTHY"), Alarm(None, None)}
      BY <1>3, <3>1 DEF alert, state
    <3>3. ~x.worn /\ ~(p >= 80)
      BY <1>5, <1>6, <2>1
    <3>4. generate_recommendation(x, factors).urgency \in {"MEDIUM", "ROUTINE"}
      BY <1>3, <1>4, <3>1, <3>3 DEF generate_recommendation, Advice, state
    <3> QED BY <3>2, <3>4 DEF Evaluated
  <2>2. CASE state # "HEALTHY"
    <3>1. state \in {"MAINTENANCE_REQUIRED", "CRITICAL", "WARNING"}
      BY <1>1, <2>2 DEF HealthStates
    <3> HIDE DEF state
    <3>2. /\ state = "CRITICAL"
               => alert(x, previous) = Alarm("CRITICAL", "CRITICAL_MACHINE_HEALTH")
          /\ state = "MAINTENANCE_REQUIRED"
               => alert(x, previous) = Alarm("WARNING", "MAINTENANCE_REQUIRED")
          /\ state = "WARNING"
               => alert(x, previous) = Alarm("WARNING", "WARNING_ELEVATED_RISK")
      BY <1>3 DEF alert, state
    <3>3. alert(x, previous) \in Raised
      BY <3>1, <3>2 DEF Raised
    <3> QED BY <3>3, RaisedAre DEF Evaluated
  <2> QED BY <2>1, <2>2
<1> QED BY <1>2, <1>3

-----------------------------------------------------------------------------
(* The tables, the handler and the twins *)

LEMMA RowsOf ==
    ASSUME NEW row \in Samples
    PROVE  /\ row.machine \in Machines /\ row.ts \in 1 .. MaxTime
           /\ predict_risk(telemetry_to_feature_df(row)) \in 0 .. 100
           /\ predict_anomaly(telemetry_to_feature_df(row)) \in (0 .. 100) \cup {None}
<1>8. PICK m \in Machines : \E message \in Accepted[m], ts \in 1 .. MaxTime :
             row = normalize_telemetry(message, ts)
  BY DEF Samples
<1>1. PICK message \in Accepted[m], ts \in 1 .. MaxTime :
             row = normalize_telemetry(message, ts)
  BY <1>8
<1>2. message.machine = m
  BY DEF Accepted, validate
<1>3. row.machine = m /\ row.ts = ts /\ row.reading = message.reading
  BY <1>1, <1>2 DEF normalize_telemetry
<1>4. telemetry_to_feature_df(row) = telemetry_to_feature_df(message)
  BY <1>2, <1>3 DEF telemetry_to_feature_df
<1>5. /\ Models[telemetry_to_feature_df(message)].p \in 0 .. 100
      /\ Models[telemetry_to_feature_df(message)].a \in (0 .. 100) \cup {None, Fails}
  BY ModelsAssumption DEF ModelsAssumption
<1>6. predict_risk(telemetry_to_feature_df(row)) \in 0 .. 100
  BY <1>4, <1>5 DEF predict_risk
<1>7. predict_anomaly(telemetry_to_feature_df(row)) \in (0 .. 100) \cup {None}
  BY <1>4, <1>5 DEF predict_anomaly
<1> QED BY <1>3, <1>6, <1>7

LEMMA Evaluates ==
    ASSUME TypeOK, work.at = "infer"
    PROVE  /\ work.row \in 1 .. Len(telemetry) /\ Row \in Samples
           /\ Result \in Results /\ Result.machine = Row.machine /\ Result.ts = Row.ts
<1>1. work.row \in 1 .. Len(telemetry)
  BY DEF TypeOK, WorkOK, Idle
<1>2. Row \in Samples
  BY <1>1, ElementOfSeq DEF Row, TypeOK, TablesOK
<1> DEFINE features == telemetry_to_feature_df(Row)
           p == predict_risk(features)
           a == predict_anomaly(features)
           x == Counted(Row, p, a)
           made == [machine |-> Row.machine, ts |-> Row.ts, score |-> compute_health_score(x),
                    state |-> determine_health_state(x), band |-> classify_risk_band(x.p),
                    alarm |-> alert(x, history[Row.machine]),
                    advice |-> generate_recommendation(x, explain(features)), found |-> {}]
<1>3. Row.machine \in Machines /\ Row.ts \in 1 .. MaxTime /\ p \in 0 .. 100
      /\ a \in (0 .. 100) \cup {None}
  BY <1>2, RowsOf
<1>4. Result = made
  BY DEF Result
<1> HIDE DEF p, a
<1>5. generate_recommendation(x, explain(features)) \in Advices
  <2>1. <<Row, p, a>> \in Samples \X (0 .. 100) \X ((0 .. 100) \cup {None})
    BY <1>2, <1>3
  <2>2. Advised(<<Row, p, a>>[1], <<Row, p, a>>[2], <<Row, p, a>>[3]) \in Advices
    BY <2>1 DEF Advices
  <2> QED BY <2>2 DEF Advised
<1> HIDE DEF features
<1>6. x.p = p
  BY Penalties
<1>7. compute_health_score(x) \in Int
  BY <1>3, Scores
<1>8. /\ determine_health_state(x) \in HealthStates
      /\ Agrees(determine_health_state(x), compute_health_score(x))
  BY <1>3, States
<1>9. classify_risk_band(x.p) \in Bands
  BY <1>3, <1>6, Banded
<1>10. /\ alert(x, history[Row.machine]) \in Evaluated
       /\ generate_recommendation(x, explain(features)).urgency \in {"HIGH", "IMMEDIATE"}
            => alert(x, history[Row.machine]).severity \in Alarming
  BY <1>3, Alarms
<1> HIDE DEF x
<1>11. alert(x, history[Row.machine]).severity \in Alarming
         => alert(x, history[Row.machine]) \in Raised
  BY <1>10, RaisedAre
<1>12. Sound(made)
  BY <1>3, <1>7, <1>8, <1>10, <1>11 DEF Sound
<1>13. made \in [machine : Machines, ts : 1 .. MaxTime, score : Int, state : HealthStates,
                 band : Bands, alarm : Evaluated, advice : Advices, found : SUBSET Nat]
  BY <1>3, <1>5, <1>7, <1>8, <1>9, <1>10
<1>14. made \in Results
  BY <1>12, <1>13 DEF Results
<1> QED BY <1>1, <1>2, <1>4, <1>14

\* A step that leaves the tables and the twins alone.
LEMMA Quiet ==
    ASSUME TypeOK, UNCHANGED tables
    PROVE  Grows
BY Same DEF TypeOK, TablesOK, tables, Grows

Reads == UNCHANGED <<tables, twins, history, work>>

LEMMA QuietStep ==
    ASSUME TypeOK, UNCHANGED <<tables, twins, work>>
    PROVE  TypeOK' /\ Grows
<1>1. TypeOK'
  BY DEF TypeOK, TablesOK, WorkOK, Sources, Backed, Stored, tables
<1>2. UNCHANGED tables
  OBVIOUS
<1> QED BY <1>1, <1>2, Quiet

\* What is backed stays so, and so does what was done.
LEMMA GrowthKeeps ==
    ASSUME TypeOK, Grows, Len(telemetry') \in Nat, Len(predictions') \in Nat
    PROVE  /\ \A t : Backed(t) => (t.score # None => /\ Stored(telemetry', t.machine, t.ts)
                                                     /\ Stored(predictions', t.machine, t.ts))
           /\ 1 .. Len(telemetry) \subseteq 1 .. Len(telemetry')
<1>1. Len(telemetry) \in Nat /\ Len(predictions) \in Nat
  BY Same DEF TypeOK, TablesOK
<1>2. Extends(telemetry, telemetry') /\ Extends(predictions, predictions')
  BY DEF Grows
<1>3. \A t : Backed(t) => (t.score # None => /\ Stored(telemetry', t.machine, t.ts)
                                             /\ Stored(predictions', t.machine, t.ts))
  BY <1>1, <1>2, StoredKept DEF Backed
<1>4. 1 .. Len(telemetry) \subseteq 1 .. Len(telemetry')
  BY <1>1, <1>2 DEF Extends
<1> QED BY <1>3, <1>4

LEMMA PersistStep ==
    ASSUME TypeOK, NEW m \in Machines, Persist(m)
    PROVE  TypeOK' /\ Grows
<1>1. PICK ts \in 1 .. MaxTime, message \in Accepted[m] :
        telemetry' = Append(telemetry, normalize_telemetry(message, ts))
  BY DEF Persist
<1> DEFINE row == normalize_telemetry(message, ts)
<1>2. row \in Samples
  BY DEF Samples
<1> HIDE DEF row
<1>3. /\ telemetry' \in Seq(Samples) /\ Len(telemetry') = Len(telemetry) + 1
      /\ Len(telemetry) \in Nat /\ Extends(telemetry, telemetry')
  BY <1>1, <1>2, Added DEF TypeOK, TablesOK, row
<1>4. /\ predictions' = predictions /\ alerts' = alerts /\ snapshots' = snapshots
      /\ twins' = twins
  BY DEF Persist
<1>5. Grows
  BY <1>3, <1>4, Same DEF Grows, TypeOK, TablesOK
<1>6. TablesOK'
  BY <1>3, <1>4 DEF TypeOK, TablesOK
<1>7. WorkOK'
  <2>1. work' = [at |-> "infer", row |-> Len(telemetry')]
    BY DEF Persist
  <2>2. Len(telemetry') \in 1 .. Len(telemetry')
    BY <1>3
  <2> QED BY <2>1, <2>2 DEF WorkOK
<1>8. Sources'
  <2>1. Len(telemetry') \in Nat /\ Len(predictions') \in Nat
    BY <1>3, <1>4, Same DEF TypeOK, TablesOK
  <2>2. \A t : Backed(t) => (t.score # None => /\ Stored(telemetry', t.machine, t.ts)
                                               /\ Stored(predictions', t.machine, t.ts))
    BY <1>5, <2>1, GrowthKeeps
  <2> QED BY <1>4, <2>2 DEF TypeOK, Sources, Backed
<1> QED BY <1>5, <1>6, <1>7, <1>8 DEF TypeOK

LEMMA InferStep ==
    ASSUME TypeOK, Infer
    PROVE  TypeOK' /\ Grows
<1>1. /\ work.row \in 1 .. Len(telemetry) /\ Row \in Samples
      /\ Result \in Results /\ Result.machine = Row.machine /\ Result.ts = Row.ts
  BY Evaluates DEF Infer
<1>2. /\ UNCHANGED <<telemetry, predictions, alerts, snapshots, twins>>
      /\ work' = [at |-> "predict", row |-> work.row, result |-> Result]
  BY DEF Infer, tables
<1>3. Grows
  BY <1>2, Quiet DEF tables
<1>4. TablesOK'
  BY <1>2 DEF TypeOK, TablesOK
<1>5. WorkOK'
  <2> DEFINE r == Result
  <2>1. /\ r \in Results /\ work' = [at |-> "predict", row |-> work.row, result |-> r]
        /\ r.machine = telemetry[work.row].machine /\ r.ts = telemetry[work.row].ts
    BY <1>1, <1>2 DEF Row
  <2> HIDE DEF r
  <2>2. work'.at = "predict" /\ work'.row = work.row /\ work'.result = r
    BY <2>1
  <2> QED BY <1>1, <1>2, <2>1, <2>2 DEF WorkOK
<1>6. Sources'
  BY <1>2 DEF TypeOK, Sources, Backed, Stored
<1> QED BY <1>3, <1>4, <1>5, <1>6 DEF TypeOK

\* The message in the handler after the inference.
LEMMA Handled ==
    ASSUME TypeOK, work.at \in {"predict", "commit", "twin"}
    PROVE  /\ work.row \in 1 .. Len(telemetry) /\ work.result \in Results
           /\ work = [at |-> work.at, row |-> work.row, result |-> work.result]
           /\ work.result.machine = telemetry[work.row].machine
           /\ work.result.ts = telemetry[work.row].ts
           /\ work.at = "twin" => Stored(predictions, work.result.machine, work.result.ts)
BY DEF TypeOK, WorkOK, Idle

LEMMA ResultsAre ==
    \A r \in Results : /\ Sound(r) /\ r.machine \in Machines /\ r.ts \in 1 .. MaxTime
                       /\ r.score \in Int /\ r.state \in HealthStates /\ r.band \in Bands
                       /\ r.alarm \in Evaluated /\ r.found \in SUBSET Nat
BY DEF Results

LEMMA AlertMade ==
    ASSUME NEW r \in Results, r.alarm.severity \in Alarming
    PROVE  [machine |-> r.machine, type |-> r.alarm.type, severity |-> r.alarm.severity,
            ts |-> r.ts, status |-> "OPEN", left |-> 0] \in Alerts
<1>1. r.alarm \in Raised
  BY ResultsAre, RaisedAre
<1>2. r.alarm.type \in Types /\ Alarm(r.alarm.severity, r.alarm.type) \in Raised
  BY <1>1, RaisedAre DEF Raised
<1>3. r.machine \in Machines /\ r.ts \in 1 .. MaxTime
  BY ResultsAre
<1> QED BY <1>2, <1>3 DEF Alerts

\* The check changes nothing of the result but what it found.
LEMMA Checks ==
    ASSUME TypeOK, CheckAlert
    PROVE  LET r == work.result
               found == IF r.alarm.severity \in Alarming THEN OpenAlert(r) ELSE {}
           IN  /\ work'.at = "commit" /\ work'.row = work.row /\ work'.result \in Results
               /\ work' = [at |-> "commit", row |-> work.row, result |-> work'.result]
               /\ work'.result.machine = r.machine /\ work'.result.ts = r.ts
               /\ work'.result.alarm = r.alarm /\ work'.result.found = found
<1> DEFINE r == work.result
           found == IF r.alarm.severity \in Alarming THEN OpenAlert(r) ELSE {}
           checked == [r EXCEPT !.found = found]
<1>1. work.at = "predict" /\ work' = [work EXCEPT !.at = "commit", !.result.found = found]
  BY DEF CheckAlert
<1>2. /\ r \in Results /\ work = [at |-> work.at, row |-> work.row, result |-> r]
  BY <1>1, Handled
<1>3. found \in SUBSET Nat
  <2>1. DOMAIN alerts \subseteq Nat
    BY Same DEF TypeOK, TablesOK
  <2> QED BY <2>1 DEF OpenAlert, Where
<1> HIDE DEF found
<1>4. work' = [at |-> "commit", row |-> work.row, result |-> checked]
  BY <1>1, <1>2
<1> HIDE DEF r
<1>5. /\ checked \in [machine : Machines, ts : 1 .. MaxTime, score : Int, state : HealthStates,
                       band : Bands, alarm : Evaluated, advice : Advices, found : SUBSET Nat]
      /\ checked.machine = r.machine /\ checked.ts = r.ts /\ checked.score = r.score
      /\ checked.state = r.state /\ checked.alarm = r.alarm /\ checked.advice = r.advice
      /\ checked.found = found
  BY <1>2, <1>3 DEF Results
<1> HIDE DEF checked
<1>6. Sound(checked)
  BY <1>2, <1>5 DEF Results, Sound
<1>7. checked \in Results
  BY <1>5, <1>6 DEF Results
<1>8. work'.at = "commit" /\ work'.row = work.row /\ work'.result = checked
  BY <1>4
<1> QED BY <1>4, <1>5, <1>7, <1>8 DEF r, found

LEMMA CheckStep ==
    ASSUME TypeOK, CheckAlert
    PROVE  TypeOK' /\ Grows
<1>1. work.at = "predict" /\ UNCHANGED <<telemetry, predictions, alerts, snapshots, twins>>
  BY DEF CheckAlert, tables
<1>2. Grows
  BY <1>1, Quiet DEF tables
<1>3. TablesOK'
  BY <1>1 DEF TypeOK, TablesOK
<1>4. WorkOK'
  <2>1. /\ work.row \in 1 .. Len(telemetry)
        /\ work.result.machine = telemetry[work.row].machine
        /\ work.result.ts = telemetry[work.row].ts
    BY <1>1, Handled
  <2> QED BY <1>1, <2>1, Checks DEF WorkOK
<1>5. Sources'
  BY <1>1 DEF TypeOK, Sources, Backed, Stored
<1> QED BY <1>2, <1>3, <1>4, <1>5 DEF TypeOK

LEMMA PredictionStep ==
    ASSUME TypeOK, PersistPrediction
    PROVE  TypeOK' /\ Grows
<1> DEFINE r == work.result
           raised == [machine |-> r.machine, type |-> r.alarm.type, severity |-> r.alarm.severity,
                      ts |-> r.ts, status |-> "OPEN", left |-> 0]
<1>1. /\ work.at = "commit" /\ work' = [work EXCEPT !.at = "twin"]
      /\ UNCHANGED <<telemetry, snapshots, twins>>
      /\ predictions' = Append(predictions, r)
  BY DEF PersistPrediction
<1>2. alerts' = alerts \/ (r.alarm.severity \in Alarming /\ alerts' = Append(alerts, raised))
  BY DEF PersistPrediction
<1>3. /\ work.row \in 1 .. Len(telemetry) /\ r \in Results
      /\ work = [at |-> work.at, row |-> work.row, result |-> r]
      /\ r.machine = telemetry[work.row].machine /\ r.ts = telemetry[work.row].ts
  BY <1>1, Handled
<1>4. r.alarm.severity \in Alarming => raised \in Alerts
  BY <1>3, AlertMade
<1> HIDE DEF raised
<1>5. alerts' \in Seq(Alerts) /\ Leaving(alerts, alerts')
  <2>1. CASE alerts' = alerts
    BY <2>1, Same DEF TypeOK, TablesOK
  <2>2. CASE raised \in Alerts /\ alerts' = Append(alerts, raised)
    <3>1. /\ alerts' \in Seq(Alerts) /\ Len(alerts') = Len(alerts) + 1 /\ Len(alerts) \in Nat
          /\ Extends(alerts, alerts')
      BY <2>2, Added DEF TypeOK, TablesOK
    <3> QED BY <3>1 DEF Extends, Leaving
  <2> QED BY <1>2, <1>4, <2>1, <2>2
<1>6. /\ predictions' \in Seq(Results) /\ Len(predictions') = Len(predictions) + 1
      /\ Len(predictions) \in Nat /\ Extends(predictions, predictions')
      /\ predictions'[Len(predictions) + 1] = r
  BY <1>1, <1>3, Added DEF TypeOK, TablesOK
<1>7. Grows
  BY <1>1, <1>5, <1>6, Same DEF Grows, TypeOK, TablesOK
<1>8. TablesOK'
  BY <1>1, <1>5, <1>6 DEF TypeOK, TablesOK
<1>9. WorkOK'
  <2>1. work' = [at |-> "twin", row |-> work.row, result |-> r]
    BY <1>1, <1>3
  <2>2. Stored(predictions', r.machine, r.ts)
    <3>1. Len(predictions) + 1 \in 1 .. Len(predictions')
      BY <1>6
    <3> QED BY <1>6, <3>1 DEF Stored
  <2> HIDE DEF r
  <2>3. work'.at = "twin" /\ work'.row = work.row /\ work'.result = r
    BY <2>1
  <2> QED BY <1>1, <1>3, <2>1, <2>2, <2>3 DEF WorkOK
<1>10. Sources'
  <2>1. Len(telemetry') \in Nat /\ Len(predictions') \in Nat
    BY <1>1, <1>6, Same DEF TypeOK, TablesOK
  <2>2. \A t : Backed(t) => (t.score # None => /\ Stored(telemetry', t.machine, t.ts)
                                               /\ Stored(predictions', t.machine, t.ts))
    BY <1>7, <2>1, GrowthKeeps
  <2> QED BY <1>1, <2>2 DEF TypeOK, Sources, Backed
<1> QED BY <1>7, <1>8, <1>9, <1>10 DEF TypeOK

\* A snapshot more, and the twin of its machine, or only that twin.
LEMMA ShowStep ==
    ASSUME TypeOK, NEW m \in Machines, NEW t \in TwinStates, t.machine = m, Backed(t),
           UNCHANGED <<telemetry, predictions, alerts>>, work' = Idle,
           twins' = [twins EXCEPT ![m] = t],
           snapshots' = snapshots \/ snapshots' = Append(snapshots, Column(t))
    PROVE  TypeOK' /\ Grows
<1>1. /\ snapshots' \in Seq({Column(s) : s \in TwinStates}) /\ Extends(snapshots, snapshots')
      /\ \A i \in 1 .. Len(snapshots') : i \in 1 .. Len(snapshots) \/ snapshots'[i] = Column(t)
  <2>1. CASE snapshots' = snapshots
    BY <2>1, Same DEF TypeOK, TablesOK
  <2>2. CASE snapshots' = Append(snapshots, Column(t))
    <3> DEFINE c == Column(t)
    <3>1. c \in {Column(s) : s \in TwinStates}
      OBVIOUS
    <3> HIDE DEF c
    <3>2. /\ snapshots' \in Seq({Column(s) : s \in TwinStates}) /\ Len(snapshots) \in Nat
          /\ Extends(snapshots, snapshots') /\ Len(snapshots') = Len(snapshots) + 1
          /\ snapshots'[Len(snapshots) + 1] = c
      BY <2>2, <3>1, Added DEF TypeOK, TablesOK, c
    <3>3. \A i \in 1 .. Len(snapshots') : i \in 1 .. Len(snapshots) \/ i = Len(snapshots) + 1
      BY <3>2
    <3> QED BY <3>2, <3>3 DEF c
  <2> QED BY <2>1, <2>2
<1>2. Grows
  BY <1>1, Same DEF Grows, TypeOK, TablesOK
<1>3. TablesOK'
  BY <1>1 DEF TypeOK, TablesOK
<1>4. WorkOK'
  BY DEF WorkOK
<1>5. Sources'
  <2>1. \A n \in Machines : twins'[n] # None => twins'[n].machine = n /\ Backed(twins'[n])
    BY DEF TypeOK, TablesOK, Sources
  <2>2. Column(t).payload = t
    BY DEF Column
  <2>3. \A i \in 1 .. Len(snapshots') : Backed(snapshots'[i].payload)
    <3> SUFFICES ASSUME NEW i \in 1 .. Len(snapshots') PROVE Backed(snapshots'[i].payload)
      OBVIOUS
    <3>1. CASE i \in 1 .. Len(snapshots)
      BY <1>1, <3>1 DEF TypeOK, Sources, Extends
    <3>2. CASE snapshots'[i] = Column(t)
      BY <2>2, <3>2
    <3> QED BY <1>1, <3>1, <3>2
  <2>4. \A s : Backed(s) => (s.score # None => Stored(telemetry', s.machine, s.ts)
                                               /\ Stored(predictions', s.machine, s.ts))
    BY DEF Backed
  <2> QED BY <2>1, <2>3, <2>4 DEF Sources, Backed
<1> QED BY <1>2, <1>3, <1>4, <1>5 DEF TypeOK

LEMMA UpdateTwinStep ==
    ASSUME TypeOK, UpdateTwin
    PROVE  TypeOK' /\ Grows
<1> DEFINE r == work.result
           t == Shown(r)
<1>1. /\ work.at = "twin" /\ work' = Idle /\ UNCHANGED <<telemetry, predictions, alerts>>
      /\ twins' = [twins EXCEPT ![r.machine] = t]
      /\ snapshots' = snapshots \/ snapshots' = Append(snapshots, Column(t))
  BY DEF UpdateTwin
<1>2. /\ work.row \in 1 .. Len(telemetry) /\ r \in Results
      /\ r.machine = telemetry[work.row].machine /\ r.ts = telemetry[work.row].ts
      /\ Stored(predictions, r.machine, r.ts)
  BY <1>1, Handled
<1> HIDE DEF r
<1>3. /\ Sound(r) /\ r.machine \in Machines /\ r.ts \in 1 .. MaxTime
      /\ r.score \in Int /\ r.state \in HealthStates /\ r.band \in Bands
  BY <1>2, ResultsAre
<1>4. t = [machine |-> r.machine, ts |-> r.ts, score |-> r.score, state |-> r.state,
           band |-> r.band]
  BY DEF Shown
<1>5. t \in TwinStates
  <2>1. r.ts \in Times
    BY <1>3 DEF Times, Now
  <2>2. Agrees(r.state, r.score)
    BY <1>3 DEF Sound
  <2> QED BY <1>3, <1>4, <2>1, <2>2 DEF TwinStates
<1>6. t.machine = r.machine /\ t.ts = r.ts
  BY <1>4
<1>7. Stored(telemetry, r.machine, r.ts)
  BY <1>2 DEF Stored
<1>8. Backed(t)
  BY <1>2, <1>6, <1>7 DEF Backed
<1> HIDE DEF t
<1> QED BY <1>1, <1>3, <1>5, <1>6, <1>8, ShowStep

LEMMA MarkOfflineStep ==
    ASSUME TypeOK, NEW m \in Machines, MarkOffline(m)
    PROVE  TypeOK' /\ Grows
<1> DEFINE t == IF twins[m] # None THEN [twins[m] EXCEPT !.state = "OFFLINE"] ELSE Unfed(m)
<1>1. /\ work.at = "idle" /\ work' = work /\ UNCHANGED <<telemetry, predictions, alerts>>
      /\ twins' = [twins EXCEPT ![m] = t] /\ snapshots' = Append(snapshots, Column(twins'[m]))
  BY DEF MarkOffline
<1>2. work' = Idle
  BY <1>1 DEF TypeOK, WorkOK, Idle
<1>3. t \in TwinStates /\ t.machine = m /\ Backed(t)
  <2>1. CASE twins[m] # None
    <3> DEFINE s == twins[m]
    <3>1. s \in TwinStates /\ s.machine = m /\ Backed(s)
      BY <2>1 DEF TypeOK, TablesOK, Sources
    <3> HIDE DEF s
    <3>2. t = [s EXCEPT !.state = "OFFLINE"]
      BY <2>1 DEF s
    <3> HIDE DEF t
    <3>3. t \in [machine : Machines, ts : Times, score : Int \cup {None}, state : HealthStates,
                 band : Bands \cup {None}]
      BY <3>1, <3>2 DEF TwinStates, HealthStates
    <3>4. t.machine = s.machine /\ t.ts = s.ts /\ t.score = s.score /\ t.state = "OFFLINE"
      BY <3>1, <3>2 DEF TwinStates
    <3>5. s.score \in Int \cup {None}
      BY <3>1 DEF TwinStates
    <3>6. Agrees(t.state, t.score)
      BY <3>4, <3>5 DEF Agrees
    <3> QED BY <3>1, <3>3, <3>4, <3>6 DEF TwinStates, Backed
  <2>2. CASE ~(twins[m] # None)
    <3>1. t = [machine |-> m, ts |-> Now, score |-> None, state |-> "OFFLINE", band |-> None]
      BY <2>2 DEF Unfed
    <3> HIDE DEF t
    <3>2. Now \in Times /\ "OFFLINE" \in HealthStates
      BY DEF Now, Times, HealthStates
    <3>3. t \in [machine : Machines, ts : Times, score : Int \cup {None}, state : HealthStates,
                 band : Bands \cup {None}]
      BY <3>1, <3>2
    <3>4. t.machine = m /\ t.score = None /\ t.state = "OFFLINE"
      BY <3>1
    <3>5. Agrees(t.state, t.score)
      BY <3>4 DEF Agrees
    <3> QED BY <3>3, <3>4, <3>5 DEF TwinStates, Backed
  <2> QED BY <2>1, <2>2
<1> HIDE DEF t
<1>4. twins'[m] = t
  BY <1>1 DEF TypeOK, TablesOK
<1> QED BY <1>1, <1>2, <1>3, <1>4, ShowStep

LEMMA LeavesStep ==
    ASSUME TypeOK, NEW i \in DOMAIN alerts, Leaves(i)
    PROVE  /\ TypeOK' /\ Grows
           /\ i \in 1 .. Len(alerts) /\ Len(alerts') = Len(alerts)
           /\ \A j \in 1 .. Len(alerts) : j # i => alerts'[j] = alerts[j]
           /\ alerts'[i].left = Len(predictions) /\ alerts'[i].status = "ACKNOWLEDGED"
<1>1. /\ alerts[i].status = "OPEN" /\ UNCHANGED <<telemetry, predictions, snapshots, twins, work>>
      /\ alerts' = [alerts EXCEPT ![i] = [@ EXCEPT !.status = "ACKNOWLEDGED",
                                                  !.left = Len(predictions)]]
  BY DEF Leaves
<1>2. alerts \in Seq(Alerts) /\ Len(alerts) \in Nat /\ DOMAIN alerts = 1 .. Len(alerts)
  BY Same DEF TypeOK, TablesOK
<1> DEFINE a == alerts[i]
           b == [a EXCEPT !.status = "ACKNOWLEDGED", !.left = Len(predictions)]
<1>3. a \in Alerts /\ alerts' = [alerts EXCEPT ![i] = b]
  BY <1>1, <1>2, ElementOfSeq
<1>4. Len(predictions) \in Nat
  BY Same DEF TypeOK, TablesOK
<1>5. /\ b \in Alerts /\ b.machine = a.machine /\ b.type = a.type /\ b.severity = a.severity
      /\ b.ts = a.ts /\ b.status = "ACKNOWLEDGED" /\ b.left = Len(predictions)
  <2> HIDE DEF a
  <2>1. /\ b \in [machine : Machines, type : Types, severity : Alarming, ts : 1 .. MaxTime,
                  status : {"OPEN", "ACKNOWLEDGED"}, left : Nat]
        /\ b.machine = a.machine /\ b.type = a.type /\ b.severity = a.severity
        /\ b.ts = a.ts /\ b.status = "ACKNOWLEDGED" /\ b.left = Len(predictions)
    BY <1>3, <1>4 DEF Alerts
  <2> QED BY <1>3, <2>1 DEF Alerts
<1> HIDE DEF b
<1>6. alerts' \in Seq(Alerts) /\ Len(alerts') = Len(alerts) /\ alerts'[i] = b
      /\ \A j \in 1 .. Len(alerts) : j # i => alerts'[j] = alerts[j]
  <2>1. /\ alerts' \in Seq(Alerts) /\ Len(alerts') = Len(alerts)
    BY <1>2, <1>3, <1>5, ExceptSeq
  <2> QED BY <1>2, <1>3, <2>1
<1>7. Leaving(alerts, alerts')
  BY <1>1, <1>2, <1>5, <1>6 DEF Leaving
<1>8. Grows
  BY <1>1, <1>7, Same DEF Grows, TypeOK, TablesOK
<1>9. TypeOK'
  <2>1. TablesOK'
    BY <1>1, <1>6 DEF TypeOK, TablesOK
  <2>2. WorkOK'
    BY <1>1 DEF TypeOK, WorkOK, Stored
  <2>3. Sources'
    BY <1>1 DEF TypeOK, Sources, Backed, Stored
  <2> QED BY <2>1, <2>2, <2>3 DEF TypeOK
<1> QED BY <1>2, <1>5, <1>6, <1>8, <1>9

\* The process ends, or a step of it fails: what is stored stays.
LEMMA OverStep ==
    ASSUME TypeOK, InferenceFails \/ PredictionFails \/ Restart
    PROVE  TypeOK' /\ Grows
<1>1. UNCHANGED tables /\ work' = Idle
  BY DEF InferenceFails, PredictionFails, Restart
<1>2. \/ twins' = twins \/ twins' = [m \in Machines |-> None]
  BY DEF InferenceFails, PredictionFails, Restart
<1>3. TablesOK'
  BY <1>1, <1>2 DEF TypeOK, TablesOK, tables
<1>4. WorkOK'
  BY <1>1 DEF WorkOK
<1>5. Sources'
  <2>1. \A t : Backed(t) => (t.score # None => /\ Stored(telemetry', t.machine, t.ts)
                                               /\ Stored(predictions', t.machine, t.ts))
    BY <1>1 DEF Backed, tables
  <2>2. \A m \in Machines : twins'[m] # None => twins'[m].machine = m /\ Backed(twins'[m])
    BY <1>2 DEF TypeOK, Sources
  <2>3. \A i \in 1 .. Len(snapshots') : Backed(snapshots'[i].payload)
    BY <1>1 DEF TypeOK, Sources, tables
  <2> QED BY <2>1, <2>2, <2>3 DEF Sources, Backed
<1> QED BY <1>1, <1>3, <1>4, <1>5, Quiet DEF TypeOK

-----------------------------------------------------------------------------
(* Which steps change a request and an answer *)

Asks ==
    \/ \E m \in Machines : HistoryPredictions(m) \/ DetailTwin(m) \/ PageStart(m)
    \/ FleetStart \/ MachinesStart \/ FleetAlerts \/ DriftQuery

\* A request is made, goes on, is answered, or is lost with the process.
Moves ==
    \/ request' = request /\ answer' = answer
    \/ request' = Idle /\ answer' = answer
    \/ Asks /\ request = Idle /\ answer' = answer
    \/ FleetTwin \/ FleetCritical \/ ListMachine \/ DetailSample \/ Page
    \/ HistorySnapshots \/ DetailPrediction \/ DriftReport

LEMMA ReadStep ==
    ASSUME TypeOK, Read
    PROVE  TypeOK' /\ Grows /\ Moves /\ UNCHANGED <<tables, twins, work>>
<1>1. UNCHANGED <<tables, twins, work>>
  <2>1. CASE \E m \in Machines : HistoryPredictions(m) \/ DetailTwin(m) \/ PageStart(m)
    BY <2>1 DEF HistoryPredictions, DetailTwin, PageStart
  <2>2. CASE HistorySnapshots \/ FleetStart \/ FleetTwin \/ FleetCritical \/ MachinesStart
    BY <2>2 DEF HistorySnapshots, FleetStart, FleetTwin, FleetCritical, MachinesStart
  <2>3. CASE ListMachine \/ DetailSample \/ DetailPrediction \/ FleetAlerts \/ Page
    BY <2>3 DEF ListMachine, DetailSample, DetailPrediction, FleetAlerts, Page
  <2>4. CASE DriftQuery \/ DriftReport
    BY <2>4 DEF DriftQuery, DriftReport
  <2> QED BY <2>1, <2>2, <2>3, <2>4 DEF Read
<1>2. Asks => request = Idle /\ answer' = answer
  <2>1. ASSUME NEW m \in Machines, HistoryPredictions(m) PROVE request = Idle /\ answer' = answer
    BY <2>1 DEF HistoryPredictions, Ask
  <2>2. ASSUME NEW m \in Machines, DetailTwin(m) PROVE request = Idle /\ answer' = answer
    BY <2>2 DEF DetailTwin, Ask
  <2>3. ASSUME NEW m \in Machines, PageStart(m) PROVE request = Idle /\ answer' = answer
    BY <2>3 DEF PageStart, Asked, Ask
  <2>4. FleetStart \/ MachinesStart \/ DriftQuery => request = Idle /\ answer' = answer
    BY DEF FleetStart, MachinesStart, DriftQuery, Ask
  <2>5. FleetAlerts => request = Idle /\ answer' = answer
    BY DEF FleetAlerts, Asked, Ask
  <2> QED BY <2>1, <2>2, <2>3, <2>4, <2>5 DEF Asks
<1>3. Moves
  BY <1>2 DEF Read, Moves, Asks
<1> QED BY <1>1, <1>3, QuietStep

LEMMA NextStep ==
    ASSUME TypeOK, [Next]_vars
    PROVE  TypeOK' /\ Grows /\ Moves
<1>1. CASE Ingest \/ UNCHANGED vars
  <2>1. request' = request /\ answer' = answer
    BY <1>1 DEF Ingest, vars, Persist, MarkOffline, Reject, Infer, InferenceFails,
                CheckAlert, PersistPrediction, PredictionFails, UpdateTwin
  <2>2. CASE Reject \/ UNCHANGED vars
    <3>1. UNCHANGED <<tables, twins, work>>
      BY <2>2 DEF Reject, vars
    <3>2. TypeOK' /\ Grows
      BY <3>1, QuietStep
    <3> QED BY <2>1, <3>2 DEF Moves
  <2>3. CASE \E m \in Machines : Persist(m) \/ MarkOffline(m)
    <3>1. PICK m \in Machines : Persist(m) \/ MarkOffline(m)
      BY <2>3
    <3>2. TypeOK' /\ Grows
      BY <3>1, PersistStep, MarkOfflineStep
    <3> QED BY <2>1, <3>2 DEF Moves
  <2>4. CASE \/ Infer \/ InferenceFails
             \/ CheckAlert \/ PersistPrediction \/ PredictionFails \/ UpdateTwin
    <3>1. TypeOK' /\ Grows
      BY <2>4, InferStep, CheckStep, PredictionStep, UpdateTwinStep, OverStep
    <3> QED BY <2>1, <3>1 DEF Moves
  <2> QED BY <1>1, <2>2, <2>3, <2>4 DEF Ingest
<1>2. CASE Read
  BY <1>2, ReadStep
<1>3. CASE Restart
  <2>1. request' = Idle /\ answer' = answer
    BY <1>3 DEF Restart
  <2>2. TypeOK' /\ Grows
    BY <1>3, OverStep
  <2> QED BY <2>1, <2>2 DEF Moves
<1>4. CASE \E i \in DOMAIN alerts : Leaves(i)
  <2>1. request' = request /\ answer' = answer
    BY <1>4 DEF Leaves
  <2>2. TypeOK' /\ Grows
    BY <1>4, LeavesStep
  <2> QED BY <2>1, <2>2 DEF Moves
<1> QED BY <1>1, <1>2, <1>3, <1>4 DEF Next

\* A request says where it is.
Marked == "at" \in DOMAIN request

Became(at) == "at" \in DOMAIN request' /\ request'.at = at

LEMMA HistoryAsked == ASSUME NEW m, HistoryPredictions(m) PROVE Became("history")
<1>1. PICK from \in 1 .. MaxTime :
        Ask([at |-> "history", machine |-> m, from |-> from, points |-> Points(predictions, m, from)])
  BY DEF HistoryPredictions
<1> QED BY <1>1 DEF Ask, Became

LEMMA DetailAsked == ASSUME NEW m, DetailTwin(m) PROVE Became("detail sample")
<1>1. PICK twin \in LatestTwin(m) : Ask([at |-> "detail sample", machine |-> m, twin |-> twin])
  BY DEF DetailTwin
<1> QED BY <1>1 DEF Ask, Became

LEMMA PageAsked ==
    ASSUME (\E m \in Machines : PageStart(m)) \/ FleetAlerts
    PROVE  Became("page")
<1>1. \A what, ms : Asked(what, ms) => Became("page")
  BY DEF Asked, Ask, Became
<1> QED BY <1>1 DEF PageStart, FleetAlerts

LEMMA DriftAsked == ASSUME DriftQuery PROVE Became("drift")
<1>1. PICK cutoff \in 1 .. Now :
        Ask([at |-> "drift", cutoff |-> cutoff, first |-> Since(cutoff),
             rows |-> IF DriftWindow(cutoff) THEN Since(cutoff) ELSE {}])
  BY DEF DriftQuery
<1> QED BY <1>1 DEF Ask, Became

LEMMA FleetAsked ==
    /\ FleetStart => Became("fleet twin")
    /\ MachinesStart => Became("machines")
<1>1. FleetStart => Became("fleet twin")
  <2> HAVE FleetStart
  <2>1. request' = [at |-> "fleet twin", left |-> Machines, said |-> <<>>, first |-> Len(alerts)]
    BY DEF FleetStart, Ask
  <2> QED BY <2>1 DEF Became
<1>2. MachinesStart => Became("machines")
  <2> HAVE MachinesStart
  <2>1. request' = [at |-> "machines", left |-> Machines, said |-> <<>>]
    BY DEF MachinesStart, Ask
  <2> QED BY <2>1 DEF Became
<1> QED BY <1>1, <1>2

LEMMA FleetGoesOn ==
    /\ FleetTwin => Became("fleet critical") /\ answer' = answer
    /\ FleetCritical => \/ Became("fleet twin") /\ answer' = answer
                        \/ Became("idle") /\ answer'.at = "fleet"
<1>1. ASSUME FleetTwin PROVE Became("fleet critical") /\ answer' = answer
  <2>1. PICK m \in request.left : \E twin \in LatestTwin(m) :
           request' = [at |-> "fleet critical", left |-> request.left \ {m}, first |-> request.first,
                       machine |-> m,
                       said |-> Said(m, [state |-> twin.state,
                                         tally |-> health_distribution(twin.score, None),
                                         count |-> Cardinality(Rows(alerts, m)),
                                         critical |-> 0])]
    BY <1>1 DEF FleetTwin
  <2>2. PICK said : request' = [at |-> "fleet critical", left |-> request.left \ {m},
                                first |-> request.first, machine |-> m, said |-> said]
    BY <2>1
  <2>3. answer' = answer
    BY <1>1 DEF FleetTwin
  <2> QED BY <2>2, <2>3 DEF Became
<1>2. ASSUME FleetCritical
      PROVE  \/ Became("fleet twin") /\ answer' = answer
             \/ Became("idle") /\ answer'.at = "fleet"
  <2> DEFINE said == [request.said EXCEPT ![request.machine].critical =
                        Cardinality(Critical(request.machine))]
  <2>1. \/ Answer([at |-> "fleet", said |-> said, first |-> request.first, last |-> Len(alerts)])
        \/ /\ request' = [at |-> "fleet twin", left |-> request.left, said |-> said,
                          first |-> request.first]
           /\ answer' = answer
    BY <1>2 DEF FleetCritical
  <2> HIDE DEF said
  <2>2. CASE Answer([at |-> "fleet", said |-> said, first |-> request.first, last |-> Len(alerts)])
    BY <2>2 DEF Answer, Idle, Became
  <2>3. CASE /\ request' = [at |-> "fleet twin", left |-> request.left, said |-> said,
                            first |-> request.first]
             /\ answer' = answer
    BY <2>3 DEF Became
  <2> QED BY <2>1, <2>2, <2>3
<1>3. FleetTwin => Became("fleet critical") /\ answer' = answer
  BY <1>1
<1>4. FleetCritical => \/ Became("fleet twin") /\ answer' = answer
                       \/ Became("idle") /\ answer'.at = "fleet"
  BY <1>2
<1> QED BY <1>3, <1>4, Zenon

LEMMA DetailGoesOn ==
    /\ DetailSample => Became("detail prediction") /\ answer' = answer
    /\ DetailPrediction => Became("idle") /\ answer'.at = "detail"
<1>1. ASSUME DetailSample PROVE Became("detail prediction") /\ answer' = answer
  BY <1>1 DEF DetailSample, Became
<1>2. ASSUME DetailPrediction PROVE Became("idle") /\ answer'.at = "detail"
  BY <1>2 DEF DetailPrediction, Answer, Idle, Became
<1> QED BY <1>1, <1>2

LEMMA Answered ==
    /\ HistorySnapshots => Became("idle") /\ answer'.at = "history"
    /\ DriftReport => Became("idle") /\ answer'.at = "drift"
<1>1. ASSUME HistorySnapshots PROVE Became("idle") /\ answer'.at = "history"
  <2>1. PICK points, warning, critical, trend :
          Answer([at |-> "history", from |-> request.from, points |-> points,
                  warning |-> warning, critical |-> critical, trend |-> trend])
    BY <1>1 DEF HistorySnapshots
  <2> QED BY <2>1 DEF Answer, Idle, Became
<1>2. ASSUME DriftReport PROVE Became("idle") /\ answer'.at = "drift"
  <2>1. PICK rows, st, report :
          Answer([at |-> "drift", cutoff |-> request.cutoff, first |-> request.first,
                  rows |-> rows, st |-> st, report |-> report])
    BY <1>2 DEF DriftReport
  <2> QED BY <2>1 DEF Answer, Idle, Became
<1> QED BY <1>1, <1>2

LEMMA ListGoesOn ==
    ASSUME Marked
    PROVE  /\ ListMachine => \/ Became("machines") /\ answer' = answer
                             \/ Became("idle") /\ answer'.at = "machines"
           /\ Page => \/ Became("page") /\ answer' = answer
                      \/ Became("idle") /\ answer'.at = "pages"
<1>1. \A seen, offset : LET r == [request EXCEPT !.seen = seen, !.offset = offset]
                       IN  "at" \in DOMAIN r /\ r.at = request.at
  BY DEF Marked
<1>2. \A left, said : LET r == [request EXCEPT !.left = left, !.said = said]
                     IN  "at" \in DOMAIN r /\ r.at = request.at
  BY DEF Marked
<1>3. ASSUME Page
      PROVE  \/ Became("page") /\ answer' = answer
             \/ Became("idle") /\ answer'.at = "pages"
  <2>1. PICK order, seen :
          \/ Answer([at |-> "pages", what |-> request.what, first |-> request.first,
                     last |-> Listed(request.what, request.machines), seen |-> seen,
                     left |-> Gone \ request.gone])
          \/ /\ request' = [request EXCEPT !.seen = seen, !.offset = @ + PageSize]
             /\ answer' = answer
    BY <1>3 DEF Page
  <2>2. request.at = "page"
    BY <1>3 DEF Page
  <2>3. CASE Answer([at |-> "pages", what |-> request.what, first |-> request.first,
                     last |-> Listed(request.what, request.machines), seen |-> seen,
                     left |-> Gone \ request.gone])
    BY <2>3 DEF Answer, Idle, Became
  <2>4. CASE /\ request' = [request EXCEPT !.seen = seen, !.offset = @ + PageSize]
             /\ answer' = answer
    BY <1>1, <2>2, <2>4 DEF Became
  <2> QED BY <2>1, <2>3, <2>4
<1>4. ASSUME ListMachine
      PROVE  \/ Became("machines") /\ answer' = answer
             \/ Became("idle") /\ answer'.at = "machines"
  <2>1. PICK m, said :
          \/ Answer([at |-> "machines", said |-> said])
          \/ /\ request' = [request EXCEPT !.left = @ \ {m}, !.said = said]
             /\ answer' = answer
    BY <1>4 DEF ListMachine
  <2>2. request.at = "machines"
    BY <1>4 DEF ListMachine
  <2>3. CASE Answer([at |-> "machines", said |-> said])
    BY <2>3 DEF Answer, Idle, Became
  <2>4. CASE /\ request' = [request EXCEPT !.left = @ \ {m}, !.said = said]
             /\ answer' = answer
    BY <1>2, <2>2, <2>4 DEF Became
  <2> QED BY <2>1, <2>3, <2>4
<1> QED BY <1>3, <1>4

LEMMA MarkedStep ==
    ASSUME TypeOK, Marked, [Next]_vars
    PROVE  Marked'
<1>1. Moves
  BY NextStep
<1>2. request' = request \/ request' = Idle => Marked'
  BY DEF Idle, Marked
<1>3. \A at : Became(at) => Marked'
  BY DEF Became, Marked
<1>4. Asks => Marked'
  BY <1>3, HistoryAsked, DetailAsked, PageAsked, DriftAsked, FleetAsked DEF Asks
<1> QED BY <1>1, <1>2, <1>3, <1>4, FleetGoesOn, DetailGoesOn, Answered, ListGoesOn DEF Moves

LEMMA InitMarked == ASSUME Init PROVE Marked
BY DEF Init, Idle, Marked

LEMMA InitType == ASSUME Init PROVE TypeOK
<1>1. \A S : <<>> \in Seq(S)
  OBVIOUS
<1>2. TablesOK
  BY <1>1 DEF Init, TablesOK
<1>3. WorkOK
  BY DEF Init, WorkOK
<1>4. Len(<<>>) = 0
  OBVIOUS
<1>5. Sources
  BY <1>4 DEF Init, Sources
<1> QED BY <1>2, <1>3, <1>5 DEF TypeOK

\* The rows of every table are what the code writes into it; the handler's message stands
\* for a stored row; and a twin with a score, in memory or in a snapshot, has its sample and
\* its prediction.
THEOREM TypeCorrect == Spec => []TypeOK
<1>1. Init => TypeOK
  BY InitType
<1>2. TypeOK /\ [Next]_vars => TypeOK'
  BY NextStep
<1> QED BY <1>1, <1>2, PTL DEF Spec

-----------------------------------------------------------------------------
(* What stands for an alarm *)

\* An alert that stands for an alarm of the i-th prediction: on the list since, or found
\* there by its check, and taken off it before its commit.
Stands(table, k, r, i) ==
    /\ table[k].machine = r.machine /\ Alarm(table[k].severity, table[k].type) = r.alarm
    /\ table[k].severity \in Alarming
    /\ \/ table[k].status = "OPEN" \/ table[k].left >= i
       \/ k \in r.found /\ table[k].left = i - 1

Calls(r) == r.alarm.severity \in Alarming \/ r.advice.urgency \in {"HIGH", "IMMEDIATE"}

Covered == \A i \in 1 .. Len(predictions) : Calls(predictions[i]) =>
              \E k \in 1 .. Len(alerts) : Stands(alerts, k, predictions[i], i)

\* What the check of the message in the handler found is OPEN, or has left since.
Checked ==
    work.at = "commit" => \A k \in work.result.found :
      /\ k \in 1 .. Len(alerts) /\ alerts[k].machine = work.result.machine
      /\ alerts[k].type = work.result.alarm.type
      /\ alerts[k].status = "OPEN" \/ alerts[k].left = Len(predictions)

LEMMA CoveredIs == ASSUME TypeOK PROVE Covered <=> AlarmsCover
<1>1. DOMAIN predictions = 1 .. Len(predictions) /\ DOMAIN alerts = 1 .. Len(alerts)
  BY Same DEF TypeOK, TablesOK
<1> QED BY <1>1 DEF Covered, AlarmsCover, Calls, Stands

\* What was covered stays covered, by the same alert, also when it is left.
LEMMA StandsKept ==
    ASSUME TypeOK, NEW i \in 1 .. Len(predictions), NEW k \in 1 .. Len(alerts), NEW r,
           Stands(alerts, k, r, i), Leaving(alerts, alerts'),
           \/ alerts'[k] = alerts[k]
           \/ alerts[k].status = "OPEN" /\ alerts'[k].left = Len(predictions)
    PROVE  Stands(alerts', k, r, i)
<1>1. CASE alerts'[k] = alerts[k]
  BY <1>1 DEF Stands
<1>2. CASE alerts'[k].left = Len(predictions)
  <2>1. Len(predictions) \in Nat
    BY Same DEF TypeOK, TablesOK
  <2>2. alerts'[k].left >= i
    BY <1>2, <2>1
  <2>3. /\ alerts'[k].machine = alerts[k].machine /\ alerts'[k].type = alerts[k].type
        /\ alerts'[k].severity = alerts[k].severity
    BY DEF Leaving
  <2> QED BY <2>2, <2>3 DEF Stands
<1> QED BY <1>1, <1>2

LEMMA CoverPrediction ==
    ASSUME TypeOK, Covered, Checked, PersistPrediction
    PROVE  Covered'
<1> DEFINE r == work.result
           raised == [machine |-> r.machine, type |-> r.alarm.type, severity |-> r.alarm.severity,
                      ts |-> r.ts, status |-> "OPEN", left |-> 0]
           n == Len(predictions) + 1
<1>1. /\ work.at = "commit" /\ predictions' = Append(predictions, r)
      /\ alerts' = IF r.alarm.severity \in Alarming /\ r.found = {}
                     THEN Append(alerts, raised) ELSE alerts
  BY DEF PersistPrediction
<1>2. r \in Results
  BY <1>1, Handled
<1>3. predictions \in Seq(Results) /\ alerts \in Seq(Alerts)
  BY DEF TypeOK, TablesOK
<1>4. /\ Len(predictions') = n /\ Len(predictions) \in Nat /\ predictions'[n] = r
      /\ \A i \in 1 .. Len(predictions) : predictions'[i] = predictions[i]
  BY <1>1, <1>2, <1>3, Added DEF Extends
<1>5. Grows
  BY PredictionStep
<1>6. /\ Len(alerts) \in Nat /\ Len(alerts') \in Nat /\ Len(alerts) <= Len(alerts')
      /\ \A k \in 1 .. Len(alerts) : alerts'[k] = alerts[k]
  <2>1. CASE alerts' = alerts
    BY <1>3, <2>1, LenProperties
  <2>2. CASE r.alarm.severity \in Alarming /\ alerts' = Append(alerts, raised)
    <3>1. raised \in Alerts
      BY <1>2, <2>2, AlertMade
    <3> HIDE DEF raised
    <3> QED BY <1>3, <2>2, <3>1, Added DEF Extends
  <2> HIDE DEF raised
  <2> QED BY <1>1, <2>1, <2>2
<1>7. \A i \in 1 .. Len(predictions), k \in 1 .. Len(alerts) :
        Stands(alerts, k, predictions[i], i) => Stands(alerts', k, predictions'[i], i)
  BY <1>4, <1>6 DEF Stands
<1>8. 1 .. Len(alerts) \subseteq 1 .. Len(alerts')
  BY <1>6
<1>9. \A i \in 1 .. Len(predictions) : Calls(predictions'[i]) =>
        \E k \in 1 .. Len(alerts') : Stands(alerts', k, predictions'[i], i)
  BY <1>4, <1>7, <1>8 DEF Covered
<1>10. Calls(r) => \E k \in 1 .. Len(alerts') : Stands(alerts', k, r, n)
  <2> HAVE Calls(r)
  <2>1. r.alarm.severity \in Alarming /\ r.alarm \in Raised
    BY <1>2, ResultsAre DEF Calls, Sound
  <2>2. CASE r.found # {}
    <3>1. PICK k \in r.found : /\ k \in 1 .. Len(alerts) /\ alerts[k].machine = r.machine
                               /\ alerts[k].type = r.alarm.type
                               /\ alerts[k].status = "OPEN" \/ alerts[k].left = Len(predictions)
      BY <1>1, <2>2 DEF Checked
    <3>2. k \in 1 .. Len(alerts) /\ alerts[k] \in Alerts
      BY <1>3, <3>1, ElementOfSeq
    <3>3. Alarm(alerts[k].severity, alerts[k].type) \in Raised
      BY <3>2 DEF Alerts
    <3>4. Alarm(alerts[k].severity, alerts[k].type) = r.alarm
      BY <2>1, <3>1, <3>3, RaisedAre
    <3>5. alerts[k].severity \in Alarming
      BY <3>3, RaisedAre
    <3>6. Stands(alerts, k, r, n)
      <4>1. n - 1 = Len(predictions)
        BY <1>4
      <4> HIDE DEF r, n
      <4> QED BY <3>1, <3>4, <3>5, <4>1 DEF Stands
    <3> QED BY <1>6, <1>8, <3>2, <3>6 DEF Stands
  <2>3. CASE r.found = {}
    <3>1. raised \in Alerts
      BY <1>2, <2>1, AlertMade
    <3>2. /\ raised.machine = r.machine /\ raised.status = "OPEN"
          /\ raised.severity = r.alarm.severity /\ raised.type = r.alarm.type
      OBVIOUS
    <3>3. alerts' = Append(alerts, raised)
      BY <1>1, <2>1, <2>3
    <3> HIDE DEF raised
    <3>4. alerts'[Len(alerts) + 1] = raised /\ Len(alerts') = Len(alerts) + 1
      BY <1>3, <3>1, <3>3, Added
    <3>5. Alarm(raised.severity, raised.type) = r.alarm
      BY <2>1, <3>2, RaisedAre DEF Raised
    <3>6. Len(alerts) + 1 \in 1 .. Len(alerts')
      BY <1>6, <3>4
    <3> HIDE DEF r
    <3>7. Stands(alerts', Len(alerts) + 1, r, n)
      BY <2>1, <3>2, <3>4, <3>5 DEF Stands
    <3> QED BY <3>6, <3>7
  <2> QED BY <2>2, <2>3
<1>11. \A i \in 1 .. n : i \in 1 .. Len(predictions) \/ i = n
  BY <1>4
<1> QED BY <1>4, <1>9, <1>10, <1>11 DEF Covered

LEMMA CoverStep ==
    ASSUME TypeOK, Covered, Checked, [Next]_vars
    PROVE  Covered' /\ Checked'
<1>1. CASE UNCHANGED <<predictions, alerts>> /\ (work' = work \/ work'.at # "commit")
  BY <1>1 DEF Covered, Stands, Checked
<1>2. CASE PersistPrediction
  <2>1. work'.at = "twin"
    BY <1>2, Handled DEF PersistPrediction
  <2> QED BY <1>2, <2>1, CoverPrediction DEF Checked
<1>3. CASE \E i \in DOMAIN alerts : Leaves(i)
  <2>1. PICK j \in DOMAIN alerts : Leaves(j)
    BY <1>3
  <2>2. /\ Leaving(alerts, alerts') /\ Len(alerts') = Len(alerts)
        /\ \A k \in 1 .. Len(alerts) :
             \/ alerts'[k] = alerts[k]
             \/ alerts[k].status = "OPEN" /\ alerts'[k].left = Len(predictions)
    BY <2>1, LeavesStep DEF Grows, Leaves
  <2>3. predictions' = predictions /\ work' = work
    BY <2>1 DEF Leaves
  <2>4. \A i \in 1 .. Len(predictions), k \in 1 .. Len(alerts) :
          Stands(alerts, k, predictions[i], i) => Stands(alerts', k, predictions[i], i)
    BY <2>2, StandsKept
  <2>5. Checked'
    BY <2>2, <2>3 DEF Checked, Leaving
  <2> QED BY <2>2, <2>3, <2>4, <2>5 DEF Covered
<1>4. CASE CheckAlert
  <2>1. UNCHANGED <<predictions, alerts>>
    BY <1>4 DEF CheckAlert, tables
  <2>2. DOMAIN alerts = 1 .. Len(alerts)
    BY Same DEF TypeOK, TablesOK
  <2>3. \A k \in work'.result.found : k \in OpenAlert(work.result)
    BY <1>4, Checks
  <2>4. \A k \in OpenAlert(work.result) :
          /\ k \in 1 .. Len(alerts) /\ alerts[k].machine = work.result.machine
          /\ alerts[k].type = work.result.alarm.type /\ alerts[k].status = "OPEN"
    BY <2>2 DEF OpenAlert, Where
  <2>5. work'.result.machine = work.result.machine /\ work'.result.alarm = work.result.alarm
    BY <1>4, Checks
  <2> QED BY <2>1, <2>3, <2>4, <2>5 DEF Covered, Stands, Checked
<1>5. [Next]_vars => \/ UNCHANGED <<predictions, alerts>> /\ (work' = work \/ work'.at # "commit")
                     \/ PersistPrediction \/ CheckAlert
                     \/ \E i \in DOMAIN alerts : Leaves(i)
  <2>1. Read => UNCHANGED <<tables, work>>
    BY ReadStep
  <2>2. Ingest => \/ UNCHANGED <<predictions, alerts>> /\ (work' = work \/ work'.at # "commit")
                  \/ PersistPrediction \/ CheckAlert
    BY DEF Ingest, vars, tables, Idle, Persist, MarkOffline, Reject, Infer, InferenceFails,
           PredictionFails, UpdateTwin
  <2>3. Restart \/ UNCHANGED vars => /\ UNCHANGED <<predictions, alerts>>
                                     /\ work' = work \/ work'.at # "commit"
    BY DEF Restart, vars, tables, Idle
  <2> QED BY <2>1, <2>2, <2>3 DEF Next, tables
<1> QED BY <1>1, <1>2, <1>3, <1>4, <1>5

\* Every alarming or urgent prediction that is stored has an alert of its machine, type and
\* severity, raised in its transaction or before, and not left before, or, where its own
\* query found it OPEN, not left before that query: what is found raises none.
THEOREM AlarmsAreCovered == Spec => []AlarmsCover
<1>1. Init => TypeOK /\ Covered /\ Checked
  <2>1. Len(<<>>) = 0
    OBVIOUS
  <2>2. Init => Covered /\ Checked
    BY <2>1 DEF Init, Covered, Checked, Idle
  <2> QED BY <2>2, InitType
<1>2. TypeOK /\ Covered /\ Checked /\ [Next]_vars => (TypeOK /\ Covered /\ Checked)'
  BY NextStep, CoverStep
<1>3. TypeOK /\ Covered => AlarmsCover
  BY CoveredIs
<1> QED BY <1>1, <1>2, <1>3, PTL DEF Spec

-----------------------------------------------------------------------------
(* The drift report *)

DriftInv ==
    /\ request.at = "drift" =>
         /\ request.first \subseteq 1 .. Len(telemetry)
         /\ request.rows = request.first
    /\ DriftHonest

LEMMA SinceIs ==
    ASSUME TypeOK, NEW cutoff
    PROVE  Since(cutoff) \subseteq 1 .. Len(telemetry)
BY Same DEF Since, Where, TypeOK, TablesOK

\* What the report says of so many rows.
LEMMA Reported ==
    ASSUME NEW count \in Nat, NEW st \in Statistics
    PROVE  LET r == generate_drift_report(count, st)
           IN  /\ count < MinSample => r.overall = "INSUFFICIENT_DATA" /\ r.alerts = {}
               /\ count >= MinSample => \A f \in Continuous \cup Categorical :
                    st[f].psi >= 25 /\ st[f].count >= MinSample =>
                      r.overall = "DRIFT" /\ DriftAlert(f, "CRITICAL", "PSI") \in r.alerts
<1> DEFINE Features == Continuous \cup Categorical
           status == [f \in Features |-> IF count < MinSample THEN "INSUFFICIENT_DATA"
                                         ELSE FeatureStatus(f, st[f])]
           Of(s)  == {f \in Features : status[f] = s}
           drifted == {DriftAlert(f, "CRITICAL", IF st[f].psi >= 25 THEN "PSI" ELSE "KS") :
                         f \in Of("DRIFT")}
           watched == {DriftAlert(f, "WARNING", IF st[f].psi >= 10 THEN "PSI" ELSE "KS") :
                         f \in Of("WATCH")}
           r == generate_drift_report(count, st)
<1>1. /\ r.overall = IF count < MinSample THEN "INSUFFICIENT_DATA"
                     ELSE IF Of("DRIFT") # {} THEN "DRIFT"
                     ELSE IF Of("WATCH") # {} THEN "WATCH" ELSE "STABLE"
      /\ r.alerts = drifted \cup watched
  BY DEF generate_drift_report
<1>2. ASSUME count < MinSample
      PROVE  r.overall = "INSUFFICIENT_DATA" /\ r.alerts = {}
  <2>1. Of("DRIFT") = {} /\ Of("WATCH") = {}
    BY <1>2
  <2>2. drifted = {} /\ watched = {}
    BY <2>1
  <2> HIDE DEF drifted, watched, Of, r
  <2> QED BY <1>1, <1>2, <2>2
<1>3. ASSUME count >= MinSample, NEW f \in Features, st[f].psi >= 25, st[f].count >= MinSample
      PROVE  r.overall = "DRIFT" /\ DriftAlert(f, "CRITICAL", "PSI") \in r.alerts
  <2>1. st[f].psi \in Int /\ st[f].count \in Int
    BY StatisticsAssumption DEF StatisticsAssumption
  <2>2. FeatureStatus(f, st[f]) = "DRIFT"
    BY <1>3, <2>1 DEF FeatureStatus
  <2>3. ~(count < MinSample)
    BY <1>3
  <2>4. f \in Of("DRIFT")
    BY <2>2, <2>3
  <2>5. DriftAlert(f, "CRITICAL", "PSI") \in drifted
    <3> HIDE DEF Of
    <3> QED BY <1>3, <2>4
  <2> HIDE DEF drifted, watched, Of, r
  <2> QED BY <1>1, <2>3, <2>4, <2>5
<1> QED BY <1>2, <1>3

LEMMA DriftStep ==
    ASSUME TypeOK, Marked, DriftInv, [Next]_vars
    PROVE  DriftInv'
<1>1. TypeOK' /\ Grows /\ Moves
  BY NextStep
<1>2. Len(telemetry) \in Nat /\ Len(telemetry') \in Nat
  BY <1>1, Same DEF TypeOK, TablesOK
<1>3. 1 .. Len(telemetry) \subseteq 1 .. Len(telemetry')
  BY <1>1, <1>2 DEF Grows, Extends
<1>4. CASE request' = request /\ answer' = answer
  BY <1>3, <1>4 DEF DriftInv, DriftHonest
<1>5. CASE request'.at # "drift" /\ (answer' = answer \/ answer'.at # "drift")
  BY <1>5 DEF DriftInv, DriftHonest
<1>6. CASE DriftQuery
  <2>1. PICK cutoff \in 1 .. Now :
          Ask([at |-> "drift", cutoff |-> cutoff, first |-> Since(cutoff),
               rows |-> IF DriftWindow(cutoff) THEN Since(cutoff) ELSE {}])
    BY <1>6 DEF DriftQuery
  <2>2. /\ request'.first = Since(cutoff) /\ request'.rows = Since(cutoff)
        /\ answer' = answer
    BY <2>1 DEF Ask, DriftWindow
  <2> QED BY <1>3, <2>2, SinceIs DEF DriftInv, DriftHonest
<1>7. CASE DriftReport
  <2> DEFINE rows == IF request.rows # {} THEN request.rows ELSE DOMAIN telemetry
  <2>1. PICK st \in Statistics :
          Answer([at |-> "drift", cutoff |-> request.cutoff, first |-> request.first,
                  rows |-> rows, st |-> st,
                  report |-> generate_drift_report(Cardinality(rows), st)])
    BY <1>7 DEF DriftReport
  <2>2. /\ answer'.rows = rows /\ answer'.first = request.first /\ answer'.st = st
        /\ answer'.report = generate_drift_report(Cardinality(rows), st) /\ request' = Idle
    BY <2>1 DEF Answer
  <2>3. rows \subseteq 1 .. Len(telemetry) /\ (request.first # {} => rows = request.first)
    BY <1>7, Same DEF DriftInv, DriftReport, TypeOK, TablesOK
  <2>4. Cardinality(rows) \in Nat
    <3> HIDE DEF rows
    <3>1. IsFiniteSet(1 .. Len(telemetry))
      BY <1>2, FS_Interval
    <3> QED BY <2>3, <3>1, FS_Subset, FS_CardinalityType
  <2> HIDE DEF rows
  <2>5. DriftHonest'
    BY <2>2, <2>3, <2>4, Reported DEF DriftHonest
  <2>6. request'.at # "drift"
    BY <2>2 DEF Idle
  <2> QED BY <2>5, <2>6 DEF DriftInv
<1>8. Moves => \/ request' = request /\ answer' = answer
               \/ request'.at # "drift" /\ (answer' = answer \/ answer'.at # "drift")
               \/ DriftQuery \/ DriftReport
  <2>1. Asks => DriftQuery \/ request'.at # "drift"
    BY HistoryAsked, DetailAsked, PageAsked, FleetAsked DEF Asks, Became
  <2>2. FleetTwin \/ FleetCritical \/ DetailSample \/ DetailPrediction
          => request'.at # "drift" /\ (answer' = answer \/ answer'.at # "drift")
    BY FleetGoesOn, DetailGoesOn DEF Became
  <2>3. ListMachine \/ Page \/ HistorySnapshots
          => request'.at # "drift" /\ (answer' = answer \/ answer'.at # "drift")
    BY Answered, ListGoesOn DEF Became
  <2> QED BY <2>1, <2>2, <2>3 DEF Moves, Idle
<1> QED BY <1>1, <1>4, <1>5, <1>6, <1>7, <1>8

\* A drift report never judges too few rows, and never misses a feature that has moved: the
\* window's rows are taken if there are any, whatever arrives between the two queries.
THEOREM DriftIsHonest == Spec => []DriftHonest
<1>1. Init => TypeOK /\ Marked /\ DriftInv
  <2>1. Init => DriftInv
    BY DEF Init, Idle, DriftInv, DriftHonest
  <2> QED BY <2>1, InitType, InitMarked
<1>2. TypeOK /\ Marked /\ DriftInv /\ [Next]_vars => (TypeOK /\ Marked /\ DriftInv)'
  BY NextStep, MarkedStep, DriftStep
<1>3. TypeOK /\ Marked /\ DriftInv => DriftHonest
  BY DEF DriftInv
<1> QED BY <1>1, <1>2, <1>3, PTL DEF Spec

-----------------------------------------------------------------------------
(* The pages that several queries make *)

LEMMA LeastOf ==
    ASSUME NEW S \in SUBSET Nat, S # {}
    PROVE  \E n \in S : \A k \in S : n <= k
<1> DEFINE R == OpToRel(<, Nat)
<1>1. IsWellFoundedOn(R, Nat)
  BY NatLessThanWellFounded
<1>2. \A x, y \in Nat : y < x => <<y, x>> \in R
  BY DEF OpToRel
<1> HIDE DEF R
<1>3. PICK n \in S : \A k \in S : ~(<<k, n>> \in R)
  BY <1>1, WFMin
<1>4. \A k \in S : ~(k < n)
  BY <1>2, <1>3
<1> QED BY <1>4

\* Of a machine's rows there is a latest, and no row is later.
LEMMA LatestIs ==
    ASSUME NEW table, NEW n \in Nat, DOMAIN table = 1 .. n,
           \A i \in 1 .. n : table[i].ts \in 1 .. MaxTime, NEW m, NEW ts
    PROVE  /\ LatestTime(table, m) \in Int
           /\ (\E i \in 1 .. n : table[i].machine = m /\ table[i].ts = ts)
                => ts <= LatestTime(table, m)
<1>1. Rows(table, m) = {i \in 1 .. n : table[i].machine = m}
  BY DEF Rows, Where
<1>2. CASE Rows(table, m) = {}
  BY <1>1, <1>2 DEF LatestTime
<1>3. CASE Rows(table, m) # {}
  <2> DEFINE Age == {MaxTime - table[i].ts : i \in Rows(table, m)}
  <2>11. \A i \in Rows(table, m) : MaxTime - table[i].ts \in Nat
    BY <1>1
  <2>1. Age \in SUBSET Nat /\ Age # {}
    BY <1>3, <2>11
  <2>2. PICK a \in Age : \A b \in Age : a <= b
    BY <2>1, LeastOf
  <2>3. PICK i \in Rows(table, m) : a = MaxTime - table[i].ts
    BY <2>2
  <2>10. \A j \in Rows(table, m) : MaxTime - table[j].ts \in Age
    OBVIOUS
  <2> HIDE DEF Age
  <2>4. \A j \in Rows(table, m) : MaxTime - table[i].ts <= MaxTime - table[j].ts
    BY <2>2, <2>3, <2>10
  <2>5. \A j \in Rows(table, m) : table[j].ts <= table[i].ts
    BY <1>1, <2>3, <2>4
  <2>6. i \in Latest(table, m)
    BY <2>3, <2>5 DEF Latest
  <2> DEFINE c == CHOOSE k \in Latest(table, m) : TRUE
  <2>7. c \in Latest(table, m)
    BY <2>6
  <2> HIDE DEF c
  <2>8. c \in Rows(table, m) /\ \A j \in Rows(table, m) : table[j].ts <= table[c].ts
    BY <2>7 DEF Latest
  <2>9. LatestTime(table, m) = table[c].ts
    BY <1>3 DEF LatestTime, c
  <2> QED BY <1>1, <2>8, <2>9
<1> QED BY <1>2, <1>3

LEMMA Columns ==
    ASSUME TypeOK, NEW i \in 1 .. Len(snapshots)
    PROVE  LET s == snapshots[i]
           IN  /\ s.payload \in TwinStates /\ s.machine = s.payload.machine
               /\ s.state = s.payload.state
               /\ s.score = IF s.payload.score = None THEN 0 ELSE s.payload.score
               /\ s.ts = s.payload.ts /\ Backed(s.payload)
<1>1. snapshots[i] \in {Column(t) : t \in TwinStates}
  BY ElementOfSeq DEF TypeOK, TablesOK
<1>2. PICK t \in TwinStates : snapshots[i] = Column(t)
  BY <1>1
<1>3. Backed(snapshots[i].payload)
  BY DEF TypeOK, Sources
<1> QED BY <1>2, <1>3 DEF Column

LEMMA TwinsAre ==
    \A t \in TwinStates : /\ t.machine \in Machines /\ t.ts \in Times /\ t.state \in HealthStates
                          /\ t.score \in Int \cup {None} /\ Agrees(t.state, t.score)
BY DEF TwinStates

\* The twin that is shown of a machine.
LEMMA LatestTwinIs ==
    ASSUME TypeOK, NEW m \in Machines, NEW t \in LatestTwin(m)
    PROVE  /\ t.state \in HealthStates /\ Agrees(t.state, t.score)
           /\ t.score # None => /\ Stored(telemetry, m, t.ts) /\ Stored(predictions, m, t.ts)
<1>1. CASE twins[m] # None
  BY <1>1, TwinsAre DEF LatestTwin, TypeOK, TablesOK, Sources, Backed
<1>2. CASE twins[m] = None /\ Rows(snapshots, m) = {}
  <2>1. t.state = "OFFLINE" /\ t.score = None
    BY <1>2 DEF LatestTwin
  <2> QED BY <2>1 DEF HealthStates, Agrees
<1>3. CASE twins[m] = None /\ Rows(snapshots, m) # {}
  <2>1. PICK i \in Latest(snapshots, m) : t = snapshots[i].payload
    BY <1>3 DEF LatestTwin
  <2>2. i \in 1 .. Len(snapshots) /\ snapshots[i].machine = m
    BY <2>1, Same DEF Latest, Rows, Where, TypeOK, TablesOK
  <2>3. t \in TwinStates /\ t.machine = m /\ Backed(t)
    BY <2>1, <2>2, Columns
  <2> QED BY <2>3, TwinsAre DEF Backed
<1> QED BY <1>1, <1>2, <1>3

\* And what the list of the machines shows.
LEMMA SummariesAre ==
    ASSUME TypeOK, NEW m \in Machines, NEW s \in Summaries(m)
    PROVE  Agrees(s.state, s.score)
<1>0. \A state, score : /\ Summary(state, score).state = state
                        /\ Summary(state, score).score = score
  BY DEF Summary
<1>1. CASE twins[m] # None
  <2>1. twins[m] \in TwinStates
    BY <1>1 DEF TypeOK, TablesOK
  <2>2. s = Summary(twins[m].state, twins[m].score)
    BY <1>1 DEF Summaries
  <2> QED BY <1>0, <2>1, <2>2, TwinsAre
<1>2. CASE twins[m] = None /\ Rows(snapshots, m) = {}
  <2>1. s = Summary("OFFLINE", None)
    BY <1>2 DEF Summaries
  <2> QED BY <1>0, <2>1 DEF Agrees
<1>3. CASE twins[m] = None /\ Rows(snapshots, m) # {}
  <2>1. PICK i \in Latest(snapshots, m) : s = Summary(snapshots[i].state, snapshots[i].score)
    BY <1>3 DEF Summaries
  <2>2. i \in 1 .. Len(snapshots)
    BY <2>1, Same DEF Latest, Rows, Where, TypeOK, TablesOK
  <2> DEFINE t == snapshots[i].payload
  <2>3. /\ t \in TwinStates /\ s.state = t.state
        /\ s.score = IF t.score = None THEN 0 ELSE t.score
    BY <1>0, <2>1, <2>2, Columns
  <2> HIDE DEF t
  <2>4. Agrees(t.state, t.score) /\ t.score \in Int \cup {None}
    BY <2>3, TwinsAre
  <2> QED BY <2>3, <2>4 DEF Agrees
<1> QED BY <1>1, <1>2, <1>3

\* The counts of a machine's alerts.
LEMMA Counts ==
    ASSUME TypeOK, NEW m
    PROVE  /\ Cardinality(Rows(alerts, m)) \in Nat /\ Cardinality(Critical(m)) \in Nat
           /\ Cardinality(Critical(m)) <= Cardinality(Rows(alerts, m))
<1>1. Len(alerts) \in Nat /\ DOMAIN alerts = 1 .. Len(alerts)
  BY Same DEF TypeOK, TablesOK
<1>2. IsFiniteSet(1 .. Len(alerts))
  BY <1>1, FS_Interval
<1>3. Rows(alerts, m) \in SUBSET (1 .. Len(alerts)) /\ Critical(m) \in SUBSET Rows(alerts, m)
  BY <1>1 DEF Rows, Critical, Where
<1>4. IsFiniteSet(Rows(alerts, m))
  BY <1>2, <1>3, FS_Subset
<1>5. /\ IsFiniteSet(Critical(m))
      /\ Cardinality(Critical(m)) <= Cardinality(Rows(alerts, m))
  BY <1>3, <1>4, FS_Subset
<1> QED BY <1>4, <1>5, FS_CardinalityType

LEMMA RowsKept ==
    ASSUME TypeOK, TypeOK', Grows, Len(alerts') = Len(alerts), NEW m
    PROVE  Rows(alerts', m) = Rows(alerts, m)
<1>1. /\ DOMAIN alerts = 1 .. Len(alerts) /\ DOMAIN alerts' = 1 .. Len(alerts')
  BY Same DEF TypeOK, TablesOK
<1>2. \A i \in 1 .. Len(alerts) : alerts'[i].machine = alerts[i].machine
  BY DEF Grows, Leaving
<1> QED BY <1>1, <1>2 DEF Rows, Where

Tallies == {"offline", "healthy", "warning", "critical"}
Entries == [state : HealthStates, tally : Tallies, count : Nat, critical : Nat]

\* The state and the tally of one machine are those of one twin.
Tells(s) ==
    /\ s.state = "HEALTHY" => s.tally = "healthy"
    /\ s.tally = "offline" => s.state = "OFFLINE"

\* While no alert has been raised since the first query, the counts are of the same rows.
CountsOf(said, first, table) ==
    /\ first \in Nat /\ first <= Len(table)
    /\ first = Len(table) => \A m \in DOMAIN said :
         said[m].critical <= said[m].count /\ said[m].count = Cardinality(Rows(table, m))

FleetSaid(said, ms, first, table) ==
    /\ said \in [ms -> Entries] /\ \A m \in ms : Tells(said[m])
    /\ CountsOf(said, first, table)

ViewsInv ==
    /\ request.at = "fleet twin" =>
         /\ request.left \subseteq Machines
         /\ FleetSaid(request.said, Machines \ request.left, request.first, alerts)
    /\ request.at = "fleet critical" =>
         /\ request.left \subseteq Machines /\ request.machine \in Machines \ request.left
         /\ FleetSaid(request.said, Machines \ request.left, request.first, alerts)
    /\ request.at = "machines" =>
         /\ request.left \subseteq Machines
         /\ DOMAIN request.said = Machines \ request.left
         /\ \A m \in Machines \ request.left : Agrees(request.said[m].state, request.said[m].score)
         /\ request = [at |-> "machines", left |-> request.left, said |-> request.said]
    /\ request.at = "detail sample" /\ request.twin.score # None =>
         /\ Stored(telemetry, request.machine, request.twin.ts)
         /\ Stored(predictions, request.machine, request.twin.ts)
    /\ request.at = "detail prediction" /\ request.twin.score # None =>
         /\ Stored(predictions, request.machine, request.twin.ts)
         /\ request.twin.ts <= request.sample
    /\ ViewsAgree

LEMMA TallyIs ==
    ASSUME NEW state, NEW score, Agrees(state, score)
    PROVE  /\ health_distribution(score, None) \in Tallies
           /\ state = "HEALTHY" => health_distribution(score, None) = "healthy"
           /\ health_distribution(score, None) = "offline" => state = "OFFLINE"
<1>1. CASE score = None
  <2>1. health_distribution(score, None) = "offline"
    BY <1>1 DEF health_distribution
  <2> QED BY <1>1, <2>1 DEF Agrees, Tallies
<1>2. CASE score # None
  <2>1. score \in Int
    BY <1>2 DEF Agrees
  <2>2. score >= 8000 => health_distribution(score, None) = "healthy"
    BY <1>2, <2>1 DEF health_distribution
  <2>3. ~(score >= 8000) => health_distribution(score, None) \in {"warning", "critical"}
    BY <1>2, <2>1 DEF health_distribution
  <2> QED BY <2>1, <2>2, <2>3 DEF Agrees, Tallies
<1> QED BY <1>1, <1>2

LEMMA SaidIs ==
    ASSUME NEW m, NEW what
    PROVE  /\ DOMAIN Said(m, what) = DOMAIN request.said \cup {m}
           /\ Said(m, what)[m] = what
           /\ \A k \in DOMAIN request.said : k # m => Said(m, what)[k] = request.said[k]
BY DEF Said

LEMMA CountsKept ==
    ASSUME TypeOK, TypeOK', Grows, NEW said, NEW first, CountsOf(said, first, alerts)
    PROVE  CountsOf(said, first, alerts')
<1>1. Len(alerts) \in Nat /\ Len(alerts') \in Nat /\ Len(alerts) <= Len(alerts')
  BY Same DEF TypeOK, TablesOK, Grows, Leaving
<1>2. first \in Nat /\ first <= Len(alerts)
  BY DEF CountsOf
<1>3. ASSUME first = Len(alerts'), NEW m \in DOMAIN said
      PROVE  said[m].critical <= said[m].count /\ said[m].count = Cardinality(Rows(alerts', m))
  <2>1. Len(alerts') = Len(alerts) /\ first = Len(alerts)
    BY <1>1, <1>2, <1>3
  <2> QED BY <1>3, <2>1, RowsKept DEF CountsOf
<1> QED BY <1>1, <1>2, <1>3 DEF CountsOf

\* What was said of the views depends on the answer alone.
LEMMA ViewsSame ==
    ASSUME ViewsAgree, answer' = answer \/ answer'.at \notin {"fleet", "machines", "detail"}
    PROVE  ViewsAgree'
<1>1. CASE answer' = answer
  <2> QED BY <1>1 DEF ViewsAgree
<1>2. CASE answer'.at \notin {"fleet", "machines", "detail"}
  <2>1. answer'.at # "fleet" /\ answer'.at # "machines" /\ answer'.at # "detail"
    BY <1>2
  <2> QED BY <2>1, Zenon DEF ViewsAgree
<1> QED BY <1>1, <1>2

LEMMA ViewsQuiet ==
    ASSUME TypeOK, TypeOK', Grows, ViewsInv, request' = request, answer' = answer
    PROVE  ViewsInv'
<1>1. ViewsAgree'
  BY ViewsSame DEF ViewsInv
<1>2. \A said, first : CountsOf(said, first, alerts) => CountsOf(said, first, alerts')
  BY CountsKept
<1>3. FleetSaid(request.said, Machines \ request.left, request.first, alerts)
        => FleetSaid(request.said, Machines \ request.left, request.first, alerts')
  BY <1>2 DEF FleetSaid
<1>4. Len(telemetry) \in Nat /\ Len(telemetry') \in Nat /\ Len(predictions) \in Nat
      /\ Len(predictions') \in Nat
  BY Same DEF TypeOK, TablesOK
<1>5. \A m, ts : /\ Stored(telemetry, m, ts) => Stored(telemetry', m, ts)
                 /\ Stored(predictions, m, ts) => Stored(predictions', m, ts)
  BY <1>4, StoredKept DEF Grows
<1> QED BY <1>1, <1>3, <1>5 DEF ViewsInv

LEMMA FleetStartStep ==
    ASSUME TypeOK, ViewsInv, FleetStart
    PROVE  ViewsInv'
<1>1. /\ request' = [at |-> "fleet twin", left |-> Machines, said |-> <<>>, first |-> Len(alerts)]
      /\ answer' = answer /\ alerts' = alerts
  BY DEF FleetStart, Ask, tables
<1>2. ViewsAgree'
  BY <1>1, ViewsSame DEF ViewsInv
<1>3. <<>> \in [{} -> Entries] /\ DOMAIN <<>> = {}
  OBVIOUS
<1>4. Len(alerts) \in Nat
  BY Same DEF TypeOK, TablesOK
<1>5. FleetSaid(<<>>, {}, Len(alerts), alerts)
  BY <1>3, <1>4 DEF FleetSaid, CountsOf
<1>6. /\ request'.at = "fleet twin" /\ request'.left = Machines /\ request'.said = <<>>
      /\ request'.first = Len(alerts)
  BY <1>1
<1>7. FleetSaid(request'.said, Machines \ request'.left, request'.first, alerts')
  <2>1. Machines \ request'.left = {}
    BY <1>6
  <2> QED BY <1>1, <1>5, <1>6, <2>1
<1> QED BY <1>2, <1>6, <1>7 DEF ViewsInv

LEMMA FleetTwinStep ==
    ASSUME TypeOK, ViewsInv, FleetTwin
    PROVE  ViewsInv'
<1>1. PICK m \in request.left : \E twin \in LatestTwin(m) :
         request' = [at |-> "fleet critical", left |-> request.left \ {m}, first |-> request.first,
                     machine |-> m,
                     said |-> Said(m, [state |-> twin.state,
                                       tally |-> health_distribution(twin.score, None),
                                       count |-> Cardinality(Rows(alerts, m)),
                                       critical |-> 0])]
  BY DEF FleetTwin
<1>2. PICK twin \in LatestTwin(m) :
         request' = [at |-> "fleet critical", left |-> request.left \ {m}, first |-> request.first,
                     machine |-> m,
                     said |-> Said(m, [state |-> twin.state,
                                       tally |-> health_distribution(twin.score, None),
                                       count |-> Cardinality(Rows(alerts, m)),
                                       critical |-> 0])]
  BY <1>1
<1>3. /\ request.at = "fleet twin" /\ answer' = answer /\ alerts' = alerts
      /\ request.left \subseteq Machines
      /\ FleetSaid(request.said, Machines \ request.left, request.first, alerts)
  BY DEF FleetTwin, tables, ViewsInv
<1> DEFINE e == [state |-> twin.state, tally |-> health_distribution(twin.score, None),
                 count |-> Cardinality(Rows(alerts, m)), critical |-> 0]
           said == Said(m, e)
<1>4. m \in Machines /\ twin.state \in HealthStates /\ Agrees(twin.state, twin.score)
  BY <1>3, LatestTwinIs
<1>5. e \in Entries /\ Tells(e)
  BY <1>4, TallyIs, Counts DEF Entries, Tells
<1>6. e.count = Cardinality(Rows(alerts, m)) /\ e.critical = 0 /\ e.count \in Nat
  BY Counts
<1>7. /\ request'.left = request.left \ {m} /\ request'.first = request.first
      /\ request'.machine = m /\ request'.said = said /\ request'.at = "fleet critical"
  BY <1>2
<1> HIDE DEF e
<1>8. DOMAIN request.said = Machines \ request.left
  BY <1>3 DEF FleetSaid
<1>9. /\ DOMAIN said = Machines \ (request.left \ {m}) /\ said[m] = e
      /\ \A k \in Machines \ request.left : said[k] = request.said[k] /\ k # m
  <2>1. /\ DOMAIN said = DOMAIN request.said \cup {m} /\ said[m] = e
        /\ \A k \in DOMAIN request.said : k # m => said[k] = request.said[k]
    <3>1. said = [k \in DOMAIN request.said \cup {m} |-> IF k = m THEN e ELSE request.said[k]]
      BY DEF Said
    <3> QED BY <3>1, Zenon
  <2> HIDE DEF said
  <2>2. (Machines \ request.left) \cup {m} = Machines \ (request.left \ {m})
    BY <1>4
  <2>3. m \notin Machines \ request.left
    OBVIOUS
  <2> QED BY <1>8, <2>1, <2>2, <2>3
<1>10. \A k \in Machines \ (request.left \ {m}) : k = m \/ k \in Machines \ request.left
  OBVIOUS
<1>11. said \in [Machines \ (request.left \ {m}) -> Entries]
  <2>1. said = [k \in DOMAIN said |-> said[k]]
    BY DEF Said
  <2> HIDE DEF said
  <2>2. \A k \in DOMAIN said : said[k] \in Entries
    BY <1>3, <1>5, <1>9, <1>10 DEF FleetSaid
  <2> QED BY <1>9, <2>1, <2>2
<1> HIDE DEF said
<1>12. \A k \in Machines \ (request.left \ {m}) : Tells(said[k])
  BY <1>3, <1>5, <1>9, <1>10 DEF FleetSaid
<1>13. CountsOf(said, request.first, alerts)
  <2>1. CountsOf(request.said, request.first, alerts)
    BY <1>3 DEF FleetSaid
  <2>2. \A k \in DOMAIN said : k = m \/ (k \in DOMAIN request.said /\ said[k] = request.said[k])
    BY <1>8, <1>9, <1>10
  <2> QED BY <1>6, <1>9, <2>1, <2>2 DEF CountsOf
<1>14. FleetSaid(said, Machines \ (request.left \ {m}), request.first, alerts)
  BY <1>11, <1>12, <1>13 DEF FleetSaid
<1>15. ViewsAgree'
  BY <1>3, ViewsSame DEF ViewsInv
<1>16. /\ request'.left \subseteq Machines /\ request'.machine \in Machines \ request'.left
  BY <1>3, <1>4, <1>7
<1>17. FleetSaid(request'.said, Machines \ request'.left, request'.first, alerts')
  BY <1>3, <1>7, <1>14
<1> QED BY <1>7, <1>15, <1>16, <1>17 DEF ViewsInv

LEMMA FleetCriticalStep ==
    ASSUME TypeOK, ViewsInv, FleetCritical
    PROVE  ViewsInv'
<1> DEFINE m == request.machine
           said == [request.said EXCEPT ![m].critical = Cardinality(Critical(m))]
           ms == Machines \ request.left
<1>1. /\ request.at = "fleet critical" /\ alerts' = alerts
      /\ request.left \subseteq Machines /\ m \in ms
      /\ FleetSaid(request.said, ms, request.first, alerts)
  BY DEF FleetCritical, tables, ViewsInv
<1>2. \/ /\ request.left = {}
         /\ Answer([at |-> "fleet", said |-> said, first |-> request.first, last |-> Len(alerts)])
      \/ /\ request' = [at |-> "fleet twin", left |-> request.left, said |-> said,
                        first |-> request.first]
         /\ answer' = answer
  BY DEF FleetCritical
<1> DEFINE e == request.said[m]
           f == [e EXCEPT !.critical = Cardinality(Critical(m))]
<1>3. e \in Entries /\ Tells(e)
  BY <1>1 DEF FleetSaid
<1>4. /\ f \in Entries /\ f.state = e.state /\ f.tally = e.tally /\ f.count = e.count
      /\ f.critical = Cardinality(Critical(m))
  <2>1. Cardinality(Critical(m)) \in Nat
    BY Counts
  <2> HIDE DEF e
  <2> QED BY <1>3, <2>1 DEF Entries
<1>5. Tells(f)
  BY <1>3, <1>4 DEF Tells
<1>6. /\ said \in [ms -> Entries] /\ said[m] = f /\ DOMAIN said = ms
      /\ \A k \in ms : k # m => said[k] = request.said[k]
  <2>1. request.said \in [ms -> Entries] /\ said = [request.said EXCEPT ![m] = f]
    BY <1>1 DEF FleetSaid
  <2> HIDE DEF f, said, m, ms
  <2> QED BY <1>1, <1>4, <2>1
<1> HIDE DEF f, said, m, ms, e
<1>7. \A k \in ms : Tells(said[k])
  BY <1>1, <1>5, <1>6 DEF FleetSaid
<1>8. CountsOf(said, request.first, alerts)
  <2>1. CountsOf(request.said, request.first, alerts) /\ DOMAIN request.said = ms
    BY <1>1 DEF FleetSaid
  <2>2. request.first = Len(alerts) => f.critical <= f.count /\ f.count = Cardinality(Rows(alerts, m))
    BY <1>1, <1>4, <2>1, Counts DEF CountsOf, e
  <2>3. \A k \in ms : k = m \/ said[k] = request.said[k]
    BY <1>6
  <2> QED BY <1>6, <2>1, <2>2, <2>3 DEF CountsOf
<1>9. FleetSaid(said, ms, request.first, alerts)
  BY <1>6, <1>7, <1>8 DEF FleetSaid
<1>10. CASE /\ request' = [at |-> "fleet twin", left |-> request.left, said |-> said,
                           first |-> request.first]
            /\ answer' = answer
  <2>1. /\ request'.at = "fleet twin" /\ request'.left = request.left /\ request'.said = said
        /\ request'.first = request.first
    BY <1>10
  <2>3. ViewsAgree'
    BY <1>10, ViewsSame DEF ViewsInv
  <2>4. FleetSaid(request'.said, Machines \ request'.left, request'.first, alerts')
    BY <1>1, <1>9, <2>1 DEF ms
  <2> QED BY <1>1, <2>1, <2>3, <2>4 DEF ViewsInv
<1>11. CASE /\ request.left = {}
            /\ Answer([at |-> "fleet", said |-> said, first |-> request.first,
                       last |-> Len(alerts)])
  <2>1. /\ request' = Idle /\ answer'.at = "fleet" /\ answer'.said = said
        /\ answer'.first = request.first /\ answer'.last = Len(alerts)
    BY <1>11 DEF Answer
  <2>2. ms = Machines
    BY <1>11 DEF ms
  <2>3. \A k \in Machines : Tells(said[k])
    BY <1>7, <2>2
  <2>4. request.first = Len(alerts) => \A k \in Machines : said[k].critical <= said[k].count
    BY <1>6, <1>8, <2>2 DEF CountsOf
  <2>5. ViewsAgree'
    BY <2>1, <2>3, <2>4 DEF ViewsAgree, Tells
  <2> QED BY <2>1, <2>5 DEF ViewsInv, Idle
<1> QED BY <1>2, <1>10, <1>11 DEF said, m

LEMMA MachinesStep ==
    ASSUME TypeOK, ViewsInv, MachinesStart \/ ListMachine
    PROVE  ViewsInv'
<1>1. CASE MachinesStart
  <2>1. /\ request' = [at |-> "machines", left |-> Machines, said |-> <<>>] /\ answer' = answer
    BY <1>1 DEF MachinesStart, Ask
  <2>2. DOMAIN <<>> = {}
    OBVIOUS
  <2>3. ViewsAgree'
    BY <2>1, ViewsSame DEF ViewsInv
  <2> QED BY <2>1, <2>2, <2>3 DEF ViewsInv
<1>2. CASE ListMachine
  <2>1. PICK m \in request.left : \E summary \in Summaries(m) :
          IF request.left = {m} THEN Answer([at |-> "machines", said |-> Said(m, summary)])
          ELSE /\ request' = [request EXCEPT !.left = @ \ {m}, !.said = Said(m, summary)]
               /\ UNCHANGED answer
    BY <1>2 DEF ListMachine
  <2>2. PICK summary \in Summaries(m) :
          IF request.left = {m} THEN Answer([at |-> "machines", said |-> Said(m, summary)])
          ELSE /\ request' = [request EXCEPT !.left = @ \ {m}, !.said = Said(m, summary)]
               /\ UNCHANGED answer
    BY <2>1
  <2>3. /\ request.at = "machines" /\ request.left \subseteq Machines
        /\ DOMAIN request.said = Machines \ request.left
        /\ \A k \in Machines \ request.left :
             Agrees(request.said[k].state, request.said[k].score)
        /\ request = [at |-> "machines", left |-> request.left, said |-> request.said]
    BY <1>2 DEF ListMachine, ViewsInv
  <2>4. m \in Machines /\ Agrees(summary.state, summary.score)
    BY <2>3, SummariesAre
  <2> DEFINE said == Said(m, summary)
  <2>5. /\ DOMAIN said = Machines \ (request.left \ {m}) /\ said[m] = summary
        /\ \A k \in Machines \ request.left : said[k] = request.said[k] /\ k # m
    <3>0. said = [k \in DOMAIN request.said \cup {m} |-> IF k = m THEN summary ELSE request.said[k]]
      BY DEF Said
    <3>1. /\ DOMAIN said = DOMAIN request.said \cup {m} /\ said[m] = summary
          /\ \A k \in DOMAIN request.said : k # m => said[k] = request.said[k]
      BY <3>0, Zenon
    <3> HIDE DEF said
    <3>2. (Machines \ request.left) \cup {m} = Machines \ (request.left \ {m})
      BY <2>4
    <3>3. m \notin Machines \ request.left
      OBVIOUS
    <3> QED BY <2>3, <3>1, <3>2, <3>3
  <2>6. \A k \in Machines \ (request.left \ {m}) : k = m \/ k \in Machines \ request.left
    OBVIOUS
  <2> HIDE DEF said
  <2>7. \A k \in Machines \ (request.left \ {m}) : Agrees(said[k].state, said[k].score)
    BY <2>3, <2>4, <2>5, <2>6
  <2>8. CASE request.left = {m}
    <3>1. request' = Idle /\ answer'.at = "machines" /\ answer'.said = said
      BY <2>2, <2>8 DEF Answer, said
    <3>2. \A k \in Machines : Agrees(said[k].state, said[k].score)
      BY <2>7, <2>8
    <3>3. ViewsAgree'
      BY <3>1, <3>2 DEF ViewsAgree, Agrees
    <3> QED BY <3>1, <3>3 DEF ViewsInv, Idle
  <2>9. CASE request.left # {m}
    <3>1. /\ request' = [request EXCEPT !.left = @ \ {m}, !.said = said] /\ answer' = answer
      BY <2>2, <2>9 DEF said
    <3>2. request' = [at |-> "machines", left |-> request.left \ {m}, said |-> said]
      BY <2>3, <3>1
    <3>3. /\ request'.at = "machines" /\ request'.left = request.left \ {m}
          /\ request'.said = said
      BY <3>2
    <3>4. ViewsAgree'
      BY <3>1, ViewsSame DEF ViewsInv
    <3>5. request'.left \subseteq Machines /\ DOMAIN request'.said = Machines \ request'.left
      BY <2>3, <2>5, <3>3
    <3>6. \A k \in Machines \ request'.left :
            Agrees(request'.said[k].state, request'.said[k].score)
      BY <2>7, <3>3
    <3>7. request' = [at |-> "machines", left |-> request'.left, said |-> request'.said]
      BY <3>2, <3>3
    <3> QED BY <3>3, <3>4, <3>5, <3>6, <3>7 DEF ViewsInv
  <2> QED BY <2>8, <2>9
<1> QED BY <1>1, <1>2

LEMMA DetailStep ==
    ASSUME TypeOK, ViewsInv,
           (\E m \in Machines : DetailTwin(m)) \/ DetailSample \/ DetailPrediction
    PROVE  ViewsInv'
<1>1. UNCHANGED <<telemetry, predictions>>
  BY DEF DetailTwin, DetailSample, DetailPrediction, tables
<1>2. /\ DOMAIN telemetry = 1 .. Len(telemetry) /\ Len(telemetry) \in Nat
      /\ DOMAIN predictions = 1 .. Len(predictions) /\ Len(predictions) \in Nat
  BY Same DEF TypeOK, TablesOK
<1>3. /\ \A i \in 1 .. Len(telemetry) : telemetry[i].ts \in 1 .. MaxTime
      /\ \A i \in 1 .. Len(predictions) : predictions[i].ts \in 1 .. MaxTime
  <2>1. \A i \in 1 .. Len(telemetry) : telemetry[i] \in Samples
    BY ElementOfSeq DEF TypeOK, TablesOK
  <2>2. \A i \in 1 .. Len(predictions) : predictions[i] \in Results
    BY ElementOfSeq DEF TypeOK, TablesOK
  <2> QED BY <2>1, <2>2, RowsOf, ResultsAre
<1>4. \A n, ts : /\ LatestTime(telemetry, n) \in Int /\ LatestTime(predictions, n) \in Int
                 /\ Stored(telemetry, n, ts) => ts <= LatestTime(telemetry, n)
                 /\ Stored(predictions, n, ts) => ts <= LatestTime(predictions, n)
  BY <1>2, <1>3, LatestIs DEF Stored
<1>5. CASE \E m \in Machines : DetailTwin(m)
  <2>0. PICK m \in Machines : DetailTwin(m)
    BY <1>5
  <2>1. PICK twin \in LatestTwin(m) :
          Ask([at |-> "detail sample", machine |-> m, twin |-> twin])
    BY <2>0 DEF DetailTwin
  <2>2. twin.score # None => Stored(telemetry, m, twin.ts) /\ Stored(predictions, m, twin.ts)
    BY LatestTwinIs
  <2>3. /\ request'.at = "detail sample" /\ request'.machine = m /\ request'.twin = twin
        /\ answer' = answer
    BY <2>1 DEF Ask
  <2>4. ViewsAgree'
    BY <2>3, ViewsSame DEF ViewsInv
  <2> QED BY <1>1, <2>2, <2>3, <2>4 DEF ViewsInv
<1>6. CASE DetailSample
  <2>1. /\ request.at = "detail sample"
        /\ request' = [at |-> "detail prediction", machine |-> request.machine,
                       twin |-> request.twin, sample |-> LatestTime(telemetry, request.machine)]
        /\ answer' = answer
    BY <1>6 DEF DetailSample
  <2>2. /\ request'.at = "detail prediction" /\ request'.machine = request.machine
        /\ request'.twin = request.twin
        /\ request'.sample = LatestTime(telemetry, request.machine)
    BY <2>1
  <2>3. ViewsAgree'
    BY <2>1, ViewsSame DEF ViewsInv
  <2>4. request.twin.score # None =>
          /\ Stored(predictions, request.machine, request.twin.ts)
          /\ request.twin.ts <= LatestTime(telemetry, request.machine)
    BY <1>4, <2>1 DEF ViewsInv
  <2> QED BY <1>1, <2>2, <2>3, <2>4 DEF ViewsInv
<1>7. CASE DetailPrediction
  <2>1. /\ request.at = "detail prediction" /\ request' = Idle
        /\ answer'.at = "detail" /\ answer'.twin = request.twin
        /\ answer'.sample = request.sample
        /\ answer'.prediction = LatestTime(predictions, request.machine)
    BY <1>7 DEF DetailPrediction, Answer
  <2>2. request.twin.score # None =>
          /\ request.twin.ts <= LatestTime(predictions, request.machine)
          /\ request.twin.ts <= request.sample
    BY <1>4, <2>1 DEF ViewsInv
  <2>3. ViewsAgree'
    BY <2>1, <2>2 DEF ViewsAgree
  <2> QED BY <2>1, <2>3 DEF ViewsInv, Idle
<1> QED BY <1>5, <1>6, <1>7

LEMMA ViewsStep ==
    ASSUME TypeOK, Marked, ViewsInv, [Next]_vars
    PROVE  ViewsInv'
<1>1. TypeOK' /\ Grows /\ Moves
  BY NextStep
<1> DEFINE Other == /\ request'.at \in {"idle", "history", "page", "drift"}
                    /\ \/ answer' = answer
                       \/ answer'.at \in {"history", "pages", "drift"}
<1>2. CASE request' = request /\ answer' = answer
  BY <1>1, <1>2, ViewsQuiet
<1>3. CASE Other
  <2>1. ViewsAgree'
    BY <1>3, ViewsSame DEF ViewsInv
  <2> QED BY <1>3, <2>1 DEF ViewsInv
<1>4. CASE FleetStart \/ FleetTwin \/ FleetCritical
  BY <1>4, FleetStartStep, FleetTwinStep, FleetCriticalStep
<1>5. CASE MachinesStart \/ ListMachine
  BY <1>5, MachinesStep
<1>6. CASE (\E m \in Machines : DetailTwin(m)) \/ DetailSample \/ DetailPrediction
  BY <1>6, DetailStep
<1>8. Moves => \/ request' = request /\ answer' = answer
               \/ Other
               \/ FleetStart \/ FleetTwin \/ FleetCritical \/ MachinesStart \/ ListMachine
               \/ (\E m \in Machines : DetailTwin(m)) \/ DetailSample \/ DetailPrediction
  <2>1. Asks => \/ FleetStart \/ MachinesStart \/ \E m \in Machines : DetailTwin(m)
                \/ request'.at \in {"history", "page", "drift"}
    BY HistoryAsked, PageAsked, DriftAsked DEF Asks, Became
  <2> QED BY <2>1, Answered, ListGoesOn DEF Moves, Became, Idle
<1> QED BY <1>1, <1>2, <1>3, <1>4, <1>5, <1>6, <1>8

\* What a page shows belongs together: the tallies are those of one twin, a score is missing
\* only where the machine is OFFLINE, the counts are of the same alerts unless one was raised
\* in between, and the twin is backed by a sample and a prediction that are read after it.
THEOREM ViewsDoAgree == Spec => []ViewsAgree
<1>1. Init => TypeOK /\ Marked /\ ViewsInv
  <2>1. Init => ViewsInv
    BY DEF Init, Idle, ViewsInv, ViewsAgree
  <2> QED BY <2>1, InitType, InitMarked
<1>2. TypeOK /\ Marked /\ ViewsInv /\ [Next]_vars => (TypeOK /\ Marked /\ ViewsInv)'
  BY NextStep, MarkedStep, ViewsStep
<1>3. TypeOK /\ Marked /\ ViewsInv => ViewsAgree
  BY DEF ViewsInv
<1> QED BY <1>1, <1>2, <1>3, PTL DEF Spec

-----------------------------------------------------------------------------
(* Paging *)

\* The order of a listing, over its table.
Later(table, what, i, j) ==
    \/ table[i].ts > table[j].ts
    \/ what = "telemetry" /\ table[i].ts = table[j].ts /\ i > j

Ahead(table, what, rows, i) == {k \in rows : Later(table, what, k, i)}

\* Why a row that was there at first has not been seen so far: another one has its time; one
\* that is not before it has left; or there are enough rows before it.
Explained(table, what, rows, left, i) ==
    \/ what # "telemetry" /\ \E j \in rows : j # i /\ table[i].ts = table[j].ts
    \/ what = "open" /\ \E j \in left : ~Later(table, what, i, j)

Unseen(table, what, rows, left, offset, i) ==
    \/ Explained(table, what, rows, left, i)
    \/ i \in rows /\ Cardinality(Ahead(table, what, rows, i)) >= offset

\* A table with its times.
Timed(table, n) == n \in Nat /\ \A i \in 1 .. n : table[i].ts \in Int

LEMMA UnseenKept ==
    ASSUME NEW t, NEW n, Timed(t, n), NEW u, \A i \in 1 .. n : u[i].ts = t[i].ts,
           NEW rows \in SUBSET (1 .. n), NEW now, IsFiniteSet(now), NEW what, NEW left, NEW gone,
           left \subseteq gone, left \subseteq 1 .. n \/ what # "open",
           rows \subseteq now \/ what = "open", rows \ now \subseteq gone,
           NEW offset \in Nat, NEW i \in 1 .. n, Unseen(t, what, rows, left, offset, i)
    PROVE  Unseen(u, what, now, gone, offset, i)
<1>1. \A j, k \in 1 .. n : Later(u, what, j, k) <=> Later(t, what, j, k)
  BY DEF Later
<1>2. \A j, k \in 1 .. n : Later(t, what, j, k) => ~Later(t, what, k, j)
  BY DEF Later, Timed
<1>3. CASE what # "telemetry" /\ \E j \in rows : j # i /\ t[i].ts = t[j].ts
  <2>1. PICK j \in rows : j # i /\ t[i].ts = t[j].ts
    BY <1>3
  <2>2. CASE j \in now
    BY <1>3, <2>1, <2>2 DEF Unseen, Explained
  <2>3. CASE j \notin now
    <3>1. ~Later(t, what, i, j)
      BY <1>3, <2>1 DEF Later, Timed
    <3> QED BY <1>1, <2>1, <2>3, <3>1 DEF Unseen, Explained
  <2> QED BY <2>2, <2>3
<1>4. CASE what = "open" /\ \E j \in left : ~Later(t, what, i, j)
  BY <1>1, <1>4 DEF Unseen, Explained
<1>5. CASE i \in rows /\ Cardinality(Ahead(t, what, rows, i)) >= offset
  <2>1. CASE Ahead(t, what, rows, i) \cup {i} \subseteq now
    <3>1. Ahead(t, what, rows, i) \in SUBSET Ahead(u, what, now, i)
      BY <1>1, <2>1 DEF Ahead
    <3>2. Ahead(u, what, now, i) \in SUBSET now
      BY DEF Ahead
    <3>3. IsFiniteSet(Ahead(u, what, now, i))
      BY <3>2, FS_Subset
    <3>4. /\ Cardinality(Ahead(t, what, rows, i)) <= Cardinality(Ahead(u, what, now, i))
          /\ IsFiniteSet(Ahead(t, what, rows, i))
      BY <3>1, <3>3, FS_Subset
    <3>5. /\ Cardinality(Ahead(t, what, rows, i)) \in Nat
          /\ Cardinality(Ahead(u, what, now, i)) \in Nat
      BY <3>3, <3>4, FS_CardinalityType
    <3>6. Cardinality(Ahead(u, what, now, i)) >= offset
      BY <1>5, <3>4, <3>5
    <3> QED BY <2>1, <3>6 DEF Unseen, Explained
  <2>2. CASE ~(Ahead(t, what, rows, i) \cup {i} \subseteq now)
    <3>1. PICK k \in Ahead(t, what, rows, i) \cup {i} : k \notin now
      BY <2>2
    <3>2. k \in rows /\ ~Later(t, what, i, k)
      BY <1>2, <1>5, <3>1 DEF Ahead
    <3>3. what = "open" /\ k \in gone
      BY <3>1, <3>2
    <3> QED BY <1>1, <3>2, <3>3 DEF Unseen, Explained
  <2> QED BY <2>1, <2>2
<1> QED BY <1>3, <1>4, <1>5 DEF Unseen, Explained

\* An order of the rows puts before a row what is later, and where no other row has its time
\* nothing else.
Placing(t, what, rows, c, order) ==
    /\ c \in Nat /\ order \in [1 .. c -> rows]
    /\ \A j, k \in 1 .. c : j # k => order[j] # order[k]
    /\ \A j, k \in 1 .. c : j < k => ~Later(t, what, order[k], order[j])
    /\ \A i \in rows : \E k \in 1 .. c : order[k] = i

LEMMA Placed ==
    ASSUME NEW t, NEW n, Timed(t, n), NEW rows \in SUBSET (1 .. n), NEW what, NEW c, NEW order,
           Placing(t, what, rows, c, order), NEW p \in 1 .. c, NEW i, i = order[p]
    PROVE  /\ Cardinality(Ahead(t, what, rows, i)) <= p - 1
           /\ \/ what # "telemetry" /\ \E j \in rows : j # i /\ t[i].ts = t[j].ts
              \/ Cardinality(Ahead(t, what, rows, i)) = p - 1
<1> USE DEF Placing
<1> DEFINE D == 1 .. p - 1
           R == Ahead(t, what, rows, i)
           B == {order[k] : k \in D}
<1>1. IsFiniteSet(D) /\ Cardinality(D) = p - 1
  <2>1. 1 \in Int /\ p - 1 \in Int /\ 0 <= p - 1
    OBVIOUS
  <2> DEFINE q == p - 1
  <2> HIDE DEF q
  <2>2. IsFiniteSet(1 .. q) /\ Cardinality(1 .. q) = IF 1 > q THEN 0 ELSE q - 1 + 1
    BY <2>1, FS_Interval, Zenon DEF q
  <2>3. (IF 1 > q THEN 0 ELSE q - 1 + 1) = q
    BY <2>1 DEF q
  <2> QED BY <2>2, <2>3 DEF q
<1>2. R \in SUBSET B
  <2> SUFFICES ASSUME NEW k \in R PROVE k \in B
    OBVIOUS
  <2>1. k \in rows /\ Later(t, what, k, i)
    BY DEF Ahead
  <2>2. PICK q \in 1 .. c : order[q] = k
    BY <2>1
  <2>3. q # p
    BY <2>1, <2>2 DEF Later, Timed
  <2>4. ~(p < q)
    BY <2>1, <2>2
  <2> QED BY <2>2, <2>3, <2>4
<1> DEFINE f == [k \in D |-> order[k]]
<1>3. f \in Bijection(D, B)
  BY DEF Bijection, Injection, Surjection, IsInjective
<1>4. IsFiniteSet(B) /\ Cardinality(B) = p - 1
  <2>1. ExistsBijection(D, B)
    BY <1>3, Zenon DEF ExistsBijection
  <2> HIDE DEF D, B
  <2> QED BY <1>1, <2>1, FS_Bijection
<1>5. Cardinality(R) <= p - 1
  BY <1>2, <1>4, FS_Subset
<1>6. ASSUME ~(what # "telemetry" /\ \E j \in rows : j # i /\ t[i].ts = t[j].ts)
      PROVE  R = B
  <2> SUFFICES ASSUME NEW k \in D PROVE order[k] \in R
    BY <1>2
  <2>1. order[k] \in rows /\ order[k] # i /\ ~Later(t, what, i, order[k])
    OBVIOUS
  <2>4. i \in 1 .. n /\ order[k] \in 1 .. n
    BY <2>1
  <2>2. i \in rows /\ i \in Int /\ order[k] \in Int /\ t[i].ts \in Int /\ t[order[k]].ts \in Int
    BY <2>4 DEF Timed
  <2>3. Later(t, what, order[k], i)
    BY <1>6, <2>1, <2>2 DEF Later
  <2> QED BY <2>1, <2>3 DEF Ahead
<1> QED BY <1>4, <1>5, <1>6

\* What a page takes of an order: all of the rest, or a full page of it.
Taken(order, offset) == SubSeq(order, offset + 1, Least(offset + PageSize, Len(order)))

Lists(order, c, rows) == c \in Nat /\ order \in [1 .. c -> rows]

LEMMA PageItems ==
    ASSUME NEW rows, NEW c, NEW order, Lists(order, c, rows), NEW offset \in Nat,
           NEW items, items = Taken(order, offset)
    PROVE  \E last \in Int :
             /\ last <= c /\ \A k \in offset + 1 .. last : order[k] \in ToSet(items)
             /\ Len(items) < PageSize => last = c
             /\ ~(Len(items) < PageSize) => last = offset + PageSize
<1> USE DEF Lists
<1> DEFINE last == Least(offset + PageSize, c)
           first == offset + 1
<1>1. Len(order) = c
  <2>1. order \in Seq(rows)
    OBVIOUS
  <2> QED BY <2>1, LenProperties
<1>2. last \in Int /\ last <= c /\ last <= offset + PageSize /\ (last = c \/ last = offset + PageSize)
  BY DEF Least
<1>3. items = SubSeq(order, first, last) /\ first \in Int /\ first = offset + 1
  BY <1>1 DEF Taken
<1> HIDE DEF last, first
<1>4. \A j \in first .. last : order[j] \in rows
  <2>1. \A j \in first .. last : j \in 1 .. c
    BY <1>2, <1>3
  <2> QED BY <2>1
<1>5. /\ items \in Seq(rows)
      /\ Len(items) = IF first <= last THEN last - first + 1 ELSE 0
      /\ \A j \in 1 .. last - first + 1 : items[j] = order[first + j - 1]
  <2>1. /\ SubSeq(order, first, last) \in Seq(rows)
        /\ Len(SubSeq(order, first, last)) = IF first <= last THEN last - first + 1 ELSE 0
        /\ \A j \in 1 .. last - first + 1 : SubSeq(order, first, last)[j] = order[first + j - 1]
    BY <1>2, <1>3, <1>4, SubSeqProperties
  <2> QED BY <1>3, <2>1, Zenon
<1>6. DOMAIN items = 1 .. Len(items)
  BY <1>5, LenProperties
<1>7. \A k \in first .. last : order[k] \in ToSet(items)
  <2> SUFFICES ASSUME NEW k \in first .. last PROVE order[k] \in ToSet(items)
    OBVIOUS
  <2>1. k - first + 1 \in 1 .. last - first + 1 /\ first + (k - first + 1) - 1 = k
    BY <1>2, <1>3
  <2>2. items[k - first + 1] = order[k]
    BY <1>5, <2>1
  <2>3. k - first + 1 \in DOMAIN items
    BY <1>2, <1>3, <1>5, <1>6, <2>1
  <2> QED BY <2>2, <2>3 DEF ToSet
<1>8. /\ Len(items) < PageSize => last = c
      /\ ~(Len(items) < PageSize) => last = offset + PageSize
  BY <1>2, <1>3, <1>5
<1> QED BY <1>2, <1>3, <1>7, <1>8

\* After a page, what has not been seen is explained, or still to come.
LEMMA PageTakes ==
    ASSUME NEW t, NEW n, Timed(t, n), NEW rows \in SUBSET (1 .. n), NEW what, NEW left,
           NEW offset \in Nat, NEW order \in SetToSeqs(rows),
           \A j, k \in DOMAIN order : j < k => ~Later(t, what, order[k], order[j]),
           NEW last \in Int, last <= Cardinality(rows), NEW i,
           \A k \in offset + 1 .. last : order[k] # i,
           Unseen(t, what, rows, left, offset, i)
    PROVE  \/ Explained(t, what, rows, left, i)
           \/ last # Cardinality(rows) /\ Unseen(t, what, rows, left, last, i)
<1> DEFINE c == Cardinality(rows)
<1>1. IsFiniteSet(rows) /\ c \in Nat
  <2>1. n \in Int /\ 1 \in Int
    BY DEF Timed
  <2>2. IsFiniteSet(1 .. n)
    BY <2>1, FS_Interval
  <2> QED BY <2>2, FS_Subset, FS_CardinalityType
<1>2. order \in [1 .. c -> rows] /\ \A j, k \in 1 .. c : j # k => order[j] # order[k]
  BY DEF SetToSeqs
<1> HIDE DEF c
<1>3. \A j, k \in 1 .. c : j < k => ~Later(t, what, order[k], order[j])
  BY <1>2
<1>4. \A j \in rows : \E k \in 1 .. c : order[k] = j
  <2>1. order \in Injection(1 .. c, rows)
    BY <1>2 DEF Injection, IsInjective
  <2>2. Cardinality(1 .. c) = Cardinality(rows)
    <3>1. c \in Int /\ 1 \in Int
      BY <1>1
    <3>2. Cardinality(1 .. c) = IF 1 > c THEN 0 ELSE c - 1 + 1
      BY <3>1, FS_Interval, Zenon
    <3>3. (IF 1 > c THEN 0 ELSE c - 1 + 1) = c
      BY <1>1
    <3> QED BY <3>2, <3>3 DEF c
  <2>3. order \in Surjection(1 .. c, rows)
    BY <1>1, <2>1, <2>2, FS_Injection
  <2> QED BY <2>3 DEF Surjection
<1>5. SUFFICES ASSUME ~Explained(t, what, rows, left, i)
               PROVE  last # c /\ Unseen(t, what, rows, left, last, i)
  BY DEF c
<1>6. i \in rows /\ Cardinality(Ahead(t, what, rows, i)) >= offset
  BY <1>5 DEF Unseen
<1>7. PICK p \in 1 .. c : i = order[p]
  BY <1>4, <1>6
<1>8. /\ Cardinality(Ahead(t, what, rows, i)) <= p - 1
      /\ \/ what # "telemetry" /\ \E j \in rows : j # i /\ t[i].ts = t[j].ts
         \/ Cardinality(Ahead(t, what, rows, i)) = p - 1
  <2>1. Placing(t, what, rows, c, order)
    BY <1>1, <1>2, <1>3, <1>4 DEF Placing
  <2> QED BY <1>7, <2>1, Placed
<1>9. Cardinality(Ahead(t, what, rows, i)) = p - 1
  BY <1>5, <1>8 DEF Explained
<1>10. p > last /\ p <= c /\ p \in Int
  BY <1>1, <1>6, <1>7, <1>9
<1>11. Cardinality(Ahead(t, what, rows, i)) >= last /\ last # c
  BY <1>1, <1>9, <1>10
<1> QED BY <1>6, <1>11 DEF Unseen

\* A listing over the tables of one state.
TableOf(db, what) ==
    CASE what = "telemetry"   -> db[1]
      [] what = "predictions" -> db[2]
      [] what = "snapshots"   -> db[4]
      [] OTHER                -> db[3]

ListedIn(db, what, ms) ==
    {i \in 1 .. Len(TableOf(db, what)) : /\ TableOf(db, what)[i].machine \in ms
                                         /\ what = "open" => db[3][i].status = "OPEN"}

GoneIn(db) == {i \in 1 .. Len(db[3]) : db[3][i].status # "OPEN"}

LEMMA ListingIs ==
    ASSUME TypeOK, NEW what, NEW ms
    PROVE  /\ Timed(TableOf(tables, what), Len(TableOf(tables, what)))
           /\ Listed(what, ms) = ListedIn(tables, what, ms) /\ Gone = GoneIn(tables)
           /\ \A i : TimeOf(what, i) = TableOf(tables, what)[i].ts
           /\ \A i, j : Newer(what, i, j) <=> Later(TableOf(tables, what), what, i, j)
<1> DEFINE T == TableOf(tables, what)
<1>1. /\ tables[1] = telemetry /\ tables[2] = predictions /\ tables[3] = alerts
      /\ tables[4] = snapshots
  BY DEF tables
<1>2. /\ what = "telemetry" => T = telemetry
      /\ what = "predictions" => T = predictions
      /\ what = "snapshots" => T = snapshots
      /\ what \notin {"telemetry", "predictions", "snapshots"} => T = alerts
  <2> USE <1>1 DEF TableOf
  <2>1. what = "telemetry" => T = telemetry
    OBVIOUS
  <2>2. what = "predictions" => T = predictions
    OBVIOUS
  <2>3. what = "snapshots" => T = snapshots
    OBVIOUS
  <2>4. what \notin {"telemetry", "predictions", "snapshots"} => T = alerts
    OBVIOUS
  <2> QED BY <2>1, <2>2, <2>3, <2>4
<1>3. /\ Timed(telemetry, Len(telemetry)) /\ DOMAIN telemetry = 1 .. Len(telemetry)
      /\ Timed(predictions, Len(predictions)) /\ DOMAIN predictions = 1 .. Len(predictions)
      /\ Timed(snapshots, Len(snapshots)) /\ DOMAIN snapshots = 1 .. Len(snapshots)
      /\ Timed(alerts, Len(alerts)) /\ DOMAIN alerts = 1 .. Len(alerts)
  <2>1. \A i \in 1 .. Len(telemetry) : telemetry[i].ts \in Int
    <3>1. \A i \in 1 .. Len(telemetry) : telemetry[i] \in Samples
      BY ElementOfSeq DEF TypeOK, TablesOK
    <3> QED BY <3>1, RowsOf
  <2>2. \A i \in 1 .. Len(predictions) : predictions[i].ts \in Int
    <3>1. \A i \in 1 .. Len(predictions) : predictions[i] \in Results
      BY ElementOfSeq DEF TypeOK, TablesOK
    <3> QED BY <3>1, ResultsAre
  <2>3. \A i \in 1 .. Len(snapshots) : snapshots[i].ts \in Int
    <3>1. \A t \in TwinStates : t.ts \in Int
      BY TwinsAre DEF Times, Now
    <3> QED BY <3>1, Columns
  <2>4. \A i \in 1 .. Len(alerts) : alerts[i].ts \in Int
    <3>1. \A i \in 1 .. Len(alerts) : alerts[i] \in Alerts
      BY ElementOfSeq DEF TypeOK, TablesOK
    <3>2. \A a \in Alerts : a.ts \in Int
      BY DEF Alerts
    <3> QED BY <3>1, <3>2
  <2> QED BY <2>1, <2>2, <2>3, <2>4, Same DEF TypeOK, TablesOK, Timed
<1>4. Timed(T, Len(T)) /\ DOMAIN T = 1 .. Len(T)
  BY <1>2, <1>3
<1>5. \A i : TimeOf(what, i) = T[i].ts
  BY <1>2 DEF TimeOf
<1>6. \A i, j : Newer(what, i, j) <=> Later(T, what, i, j)
  BY <1>5 DEF Newer, Later
<1>7. Gone = GoneIn(tables)
  BY <1>1, <1>3 DEF Gone, Where, GoneIn
<1>8. Listed(what, ms) = {i \in 1 .. Len(T) : T[i].machine \in ms /\ (what = "open" => alerts[i].status = "OPEN")}
  <2>1. CASE what = "telemetry"
    <3>1. Listed(what, ms) = UNION {get_telemetry(m) : m \in ms}
      BY <2>1 DEF Listed
    <3> QED BY <1>2, <1>3, <2>1, <3>1 DEF get_telemetry, Rows, Where
  <2>2. CASE what = "predictions"
    <3>1. Listed(what, ms) = UNION {get_predictions(m) : m \in ms}
      BY <2>2 DEF Listed
    <3> QED BY <1>2, <1>3, <2>2, <3>1 DEF get_predictions, Rows, Where
  <2>3. CASE what = "snapshots"
    <3>1. Listed(what, ms) = UNION {get_twin_history(m) : m \in ms}
      BY <2>3 DEF Listed
    <3> QED BY <1>2, <1>3, <2>3, <3>1 DEF get_twin_history, Rows, Where
  <2>4. CASE what = "open"
    <3>1. Listed(what, ms) = get_alerts(ms, {"OPEN"})
      BY <2>4 DEF Listed
    <3> QED BY <1>2, <1>3, <2>4, <3>1 DEF get_alerts, Where
  <2>5. CASE what \notin {"telemetry", "predictions", "snapshots", "open"}
    <3>1. Listed(what, ms) = get_alerts(ms, {"OPEN", "ACKNOWLEDGED"})
      BY <2>5 DEF Listed
    <3>2. \A i \in 1 .. Len(alerts) : alerts[i].status \in {"OPEN", "ACKNOWLEDGED"}
      <4>1. \A i \in 1 .. Len(alerts) : alerts[i] \in Alerts
        BY ElementOfSeq DEF TypeOK, TablesOK
      <4> QED BY <4>1 DEF Alerts
    <3> QED BY <1>2, <1>3, <2>5, <3>1, <3>2 DEF get_alerts, Where
  <2> QED BY <2>1, <2>2, <2>3, <2>4, <2>5
<1>9. Listed(what, ms) = ListedIn(tables, what, ms)
  BY <1>1, <1>8 DEF ListedIn
<1> QED BY <1>4, <1>5, <1>6, <1>7, <1>9

\* The tables grow, and a listing of what is OPEN loses what has been left.
Growing(db, new) ==
    /\ Extends(db[1], new[1]) /\ Extends(db[2], new[2]) /\ Leaving(db[3], new[3])
    /\ Extends(db[4], new[4])

Listable(db) ==
    /\ \A what : Timed(TableOf(db, what), Len(TableOf(db, what)))
    /\ \A i \in 1 .. Len(db[3]) : db[3][i].status \in {"OPEN", "ACKNOWLEDGED"}
    /\ Len(db[3]) \in Nat

LEMMA TablesList ==
    /\ TypeOK => Listable(tables)
    /\ Grows => Growing(tables, tables')
<1>1. ASSUME TypeOK PROVE Listable(tables)
  <2>1. \A i \in 1 .. Len(alerts) : alerts[i] \in Alerts
    BY <1>1, ElementOfSeq DEF TypeOK, TablesOK
  <2>2. \A i \in 1 .. Len(alerts) : alerts[i].status \in {"OPEN", "ACKNOWLEDGED"}
    BY <2>1 DEF Alerts
  <2>3. Len(alerts) \in Nat
    BY <1>1, Same DEF TypeOK, TablesOK
  <2>4. \A what : Timed(TableOf(tables, what), Len(TableOf(tables, what)))
    BY <1>1, ListingIs
  <2>5. tables[3] = alerts
    BY DEF tables
  <2> QED BY <2>2, <2>3, <2>4, <2>5 DEF Listable
<1>2. Grows => Growing(tables, tables')
  BY DEF Grows, Growing, tables
<1> QED BY <1>1, <1>2

LEMMA TableGrows ==
    ASSUME NEW db, NEW new, Listable(db), Listable(new), Growing(db, new), NEW what
    PROVE  LET t == TableOf(db, what)
               u == TableOf(new, what)
           IN  /\ Len(t) \in Nat /\ Len(u) \in Nat /\ Len(t) <= Len(u)
               /\ \A i \in 1 .. Len(t) : u[i].ts = t[i].ts /\ u[i].machine = t[i].machine
<1> DEFINE t == TableOf(db, what)
           u == TableOf(new, what)
<1>1. Len(t) \in Nat /\ Len(u) \in Nat
  BY DEF Listable, Timed
<1>2. /\ what = "telemetry" => t = db[1] /\ u = new[1]
      /\ what = "predictions" => t = db[2] /\ u = new[2]
      /\ what = "snapshots" => t = db[4] /\ u = new[4]
      /\ what \notin {"telemetry", "predictions", "snapshots"} => t = db[3] /\ u = new[3]
  BY DEF TableOf
<1>3. Len(t) <= Len(u) /\ \A i \in 1 .. Len(t) : u[i].ts = t[i].ts /\ u[i].machine = t[i].machine
  <2> DEFINE Kept(a, b) == /\ Len(a) <= Len(b)
                           /\ \A i \in 1 .. Len(a) : /\ b[i].ts = a[i].ts
                                                     /\ b[i].machine = a[i].machine
  <2>1. Kept(db[1], new[1]) /\ Kept(db[2], new[2]) /\ Kept(db[4], new[4])
    BY DEF Growing, Extends
  <2>2. Kept(db[3], new[3])
    BY DEF Growing, Leaving
  <2>3. \/ t = db[1] /\ u = new[1]
        \/ t = db[2] /\ u = new[2]
        \/ t = db[4] /\ u = new[4]
        \/ t = db[3] /\ u = new[3]
    BY <1>2
  <2> HIDE DEF t, u, Kept
  <2>4. Kept(t, u)
    BY <2>1, <2>2, <2>3
  <2> QED BY <2>4 DEF Kept
<1> QED BY <1>1, <1>3 DEF t, u

LEMMA ListingGrows ==
    ASSUME NEW db, NEW new, Listable(db), Listable(new), Growing(db, new), NEW what, NEW ms
    PROVE  /\ ListedIn(db, what, ms) \subseteq ListedIn(new, what, ms) \/ what = "open"
           /\ ListedIn(db, what, ms) \ ListedIn(new, what, ms) \subseteq GoneIn(new)
           /\ GoneIn(db) \subseteq GoneIn(new)
           /\ GoneIn(db) \cap ListedIn(db, what, ms) = {} \/ what # "open"
<1> DEFINE t == TableOf(db, what)
           u == TableOf(new, what)
<1>3. /\ Len(t) \in Nat /\ Len(u) \in Nat /\ Len(t) <= Len(u)
      /\ \A i \in 1 .. Len(t) : u[i].ts = t[i].ts /\ u[i].machine = t[i].machine
  BY TableGrows
<1>4. \A i \in 1 .. Len(t) : i \in 1 .. Len(u)
  BY <1>3
<1>5. what = "open" => t = db[3] /\ u = new[3]
  BY DEF TableOf
<1> HIDE DEF t, u
<1>6. ListedIn(db, what, ms) \subseteq ListedIn(new, what, ms) \/ what = "open"
  BY <1>3, <1>4 DEF ListedIn, t, u
<1>7. ListedIn(db, what, ms) \ ListedIn(new, what, ms) \subseteq GoneIn(new)
  <2> SUFFICES ASSUME NEW i \in ListedIn(db, what, ms), i \notin ListedIn(new, what, ms)
               PROVE  i \in GoneIn(new)
    OBVIOUS
  <2>1. what = "open"
    BY <1>6
  <2>2. i \in 1 .. Len(u) /\ u[i].machine \in ms
    BY <1>3, <1>4 DEF ListedIn, t
  <2>3. new[3][i].status # "OPEN"
    BY <2>2 DEF ListedIn, u
  <2> QED BY <1>5, <2>1, <2>2, <2>3 DEF GoneIn
<1>8. GoneIn(db) \subseteq GoneIn(new)
  <2> SUFFICES ASSUME NEW i \in 1 .. Len(db[3]), db[3][i].status # "OPEN"
               PROVE  i \in 1 .. Len(new[3]) /\ new[3][i].status # "OPEN"
    BY DEF GoneIn
  <2>1. Len(db[3]) \in Nat /\ Len(new[3]) \in Nat /\ Len(db[3]) <= Len(new[3])
    BY DEF Listable, Growing, Leaving
  <2>2. new[3][i] = db[3][i]
    BY DEF Growing, Leaving
  <2> QED BY <2>1, <2>2
<1>9. GoneIn(db) \cap ListedIn(db, what, ms) = {} \/ what # "open"
  BY DEF GoneIn, ListedIn
<1> QED BY <1>6, <1>7, <1>8, <1>9 DEF t, u

\* A request for pages: whatever was there at first and has not been seen has a reason.
Fields == {"at", "what", "machines", "first", "gone", "seen", "offset"}

PageOK(db, r) ==
    LET t    == TableOf(db, r.what)
        rows == ListedIn(db, r.what, r.machines)
    IN  /\ DOMAIN r = Fields
        /\ r.offset \in Nat /\ r.first \subseteq 1 .. Len(t) /\ r.gone \subseteq GoneIn(db)
        /\ \A i \in r.first \ r.seen :
             Unseen(t, r.what, rows, GoneIn(db) \ r.gone, r.offset, i)

PagesOK(db, a) ==
    LET t == TableOf(db, a.what)
    IN  /\ a.first \subseteq 1 .. Len(t) /\ a.last \subseteq 1 .. Len(t)
        /\ a.what = "open" => a.left \subseteq 1 .. Len(t)
        /\ \A i \in a.first \ a.seen : Explained(t, a.what, a.last, a.left, i)

PagesInv ==
    /\ request.at = "page" => PageOK(tables, request)
    /\ answer.at = "pages" => PagesOK(tables, answer)

LEMMA GoneAre ==
    \A db, what : Listable(db) => /\ what = "open" => GoneIn(db) \subseteq 1 .. Len(TableOf(db, what))
                                  /\ \A ms : ListedIn(db, what, ms) \subseteq 1 .. Len(TableOf(db, what))
BY DEF GoneIn, ListedIn, TableOf

LEMMA PageKept ==
    ASSUME NEW db, NEW new, Listable(db), Listable(new), Growing(db, new), NEW r, PageOK(db, r)
    PROVE  PageOK(new, r)
<1> DEFINE t == TableOf(db, r.what)
           u == TableOf(new, r.what)
           n == Len(t)
           rows == ListedIn(db, r.what, r.machines)
           now  == ListedIn(new, r.what, r.machines)
           left == GoneIn(db) \ r.gone
           gone == GoneIn(new) \ r.gone
<1>1. /\ n \in Nat /\ Len(u) \in Nat /\ n <= Len(u)
      /\ \A i \in 1 .. n : u[i].ts = t[i].ts
      /\ rows \subseteq now \/ r.what = "open"
      /\ rows \ now \subseteq GoneIn(new)
      /\ GoneIn(db) \subseteq GoneIn(new)
      /\ GoneIn(db) \cap rows = {} \/ r.what # "open"
  BY TableGrows, ListingGrows
<1>2. Timed(t, n)
  BY DEF Listable
<1>3. rows \subseteq 1 .. n /\ now \subseteq 1 .. Len(u) /\ (r.what = "open" => GoneIn(db) \subseteq 1 .. n)
  BY GoneAre
<1>4. IsFiniteSet(now)
  <2>1. Len(u) \in Int /\ 1 \in Int
    BY <1>1
  <2>2. IsFiniteSet(1 .. Len(u))
    BY <2>1, FS_Interval
  <2> QED BY <1>3, <2>2, FS_Subset
<1>5. /\ DOMAIN r = Fields
      /\ r.offset \in Nat /\ r.first \subseteq 1 .. n /\ r.gone \subseteq GoneIn(db)
      /\ \A i \in r.first \ r.seen : Unseen(t, r.what, rows, left, r.offset, i)
  BY DEF PageOK
<1> HIDE DEF t, u, n, rows, now
<1>6. left \subseteq gone /\ (left \subseteq 1 .. n \/ r.what # "open") /\ rows \ now \subseteq gone
  <2>1. rows \ now \subseteq gone
    <3>1. CASE r.what = "open"
      <4>1. r.gone \cap rows = {}
        BY <1>1, <1>5, <3>1
      <4> QED BY <1>1, <4>1
    <3>2. CASE r.what # "open"
      BY <1>1, <3>2
    <3> QED BY <3>1, <3>2
  <2> QED BY <1>1, <1>3, <2>1
<1> HIDE DEF left, gone
<1>7. \A i \in r.first \ r.seen : Unseen(u, r.what, now, gone, r.offset, i)
  <2> SUFFICES ASSUME NEW i \in r.first \ r.seen
               PROVE  Unseen(u, r.what, now, gone, r.offset, i)
    OBVIOUS
  <2>1. i \in 1 .. n /\ Unseen(t, r.what, rows, left, r.offset, i)
    BY <1>5
  <2> QED BY <1>1, <1>2, <1>3, <1>4, <1>5, <1>6, <2>1, UnseenKept
<1>8. r.first \subseteq 1 .. Len(u) /\ r.gone \subseteq GoneIn(new)
  BY <1>1, <1>5
<1> QED BY <1>5, <1>7, <1>8 DEF PageOK, u, now, gone

LEMMA PagesKept ==
    ASSUME NEW db, NEW new, Listable(db), Listable(new), Growing(db, new), NEW a, PagesOK(db, a)
    PROVE  PagesOK(new, a)
<1> DEFINE t == TableOf(db, a.what)
           u == TableOf(new, a.what)
           n == Len(t)
<1>1. /\ n \in Nat /\ Len(u) \in Nat /\ n <= Len(u)
      /\ \A i \in 1 .. n : u[i].ts = t[i].ts
  BY TableGrows
<1>2. /\ a.first \subseteq 1 .. n /\ a.last \subseteq 1 .. n
      /\ a.what = "open" => a.left \subseteq 1 .. n
      /\ \A i \in a.first \ a.seen : Explained(t, a.what, a.last, a.left, i)
  BY DEF PagesOK
<1> HIDE DEF t, u, n
<1>3. \A i, j \in 1 .. n : Later(u, a.what, i, j) <=> Later(t, a.what, i, j)
  BY <1>1 DEF Later
<1>4. \A i \in a.first \ a.seen : Explained(u, a.what, a.last, a.left, i)
  BY <1>1, <1>2, <1>3 DEF Explained
<1>5. 1 .. n \subseteq 1 .. Len(u)
  BY <1>1
<1> QED BY <1>2, <1>4, <1>5 DEF PagesOK, u

LEMMA PageStartStep ==
    ASSUME TypeOK, PagesInv, (\E m \in Machines : PageStart(m)) \/ FleetAlerts
    PROVE  PagesInv'
<1>1. PICK what, ms : Asked(what, ms)
  BY DEF PageStart, FleetAlerts
<1>2. UNCHANGED tables
  BY DEF PageStart, FleetAlerts
<1> DEFINE first == Listed(what, ms)
           gone == Gone
           r == [at |-> "page", what |-> what, machines |-> ms, first |-> first, gone |-> gone,
                 seen |-> {}, offset |-> 0]
<1>3. request' = r /\ answer' = answer
  BY <1>1 DEF Asked, Ask
<1>4. first = ListedIn(tables, what, ms) /\ gone = GoneIn(tables) /\ Listable(tables)
  BY ListingIs, TablesList
<1> HIDE DEF first, gone
<1>5. PageOK(tables, r)
  <2>1. /\ r.what = what /\ r.machines = ms /\ r.first = first /\ r.gone = gone
        /\ r.seen = {} /\ r.offset = 0
    OBVIOUS
  <2>2. DOMAIN r = Fields
    BY DEF Fields
  <2> HIDE DEF r
  <2> DEFINE t == TableOf(tables, what)
  <2>3. first \subseteq 1 .. Len(t) /\ Timed(t, Len(t))
    BY <1>4, GoneAre DEF Listable
  <2> HIDE DEF t
  <2>4. \A i \in first : Unseen(t, what, first, {}, 0, i)
    <3> SUFFICES ASSUME NEW i \in first PROVE Unseen(t, what, first, {}, 0, i)
      OBVIOUS
    <3>1. Ahead(t, what, first, i) \in SUBSET (1 .. Len(t))
      BY <2>3 DEF Ahead
    <3>2. Len(t) \in Int /\ 1 \in Int
      BY <2>3 DEF Timed
    <3>3. IsFiniteSet(1 .. Len(t))
      BY <3>2, FS_Interval
    <3>4. Cardinality(Ahead(t, what, first, i)) \in Nat
      BY <3>1, <3>3, FS_Subset, FS_CardinalityType
    <3>5. Cardinality(Ahead(t, what, first, i)) >= 0
      BY <3>4
    <3> QED BY <3>5 DEF Unseen
  <2>5. GoneIn(tables) \ r.gone = {} /\ r.gone \subseteq GoneIn(tables)
    BY <1>4, <2>1
  <2>6. \A i \in r.first \ r.seen : Unseen(TableOf(tables, r.what), r.what,
           ListedIn(tables, r.what, r.machines), GoneIn(tables) \ r.gone, r.offset, i)
    BY <1>4, <2>1, <2>4, <2>5 DEF t
  <2>7. r.offset \in Nat /\ r.first \subseteq 1 .. Len(TableOf(tables, r.what))
    BY <2>1, <2>3 DEF t
  <2> QED BY <2>2, <2>5, <2>6, <2>7 DEF PageOK
<1> HIDE DEF r
<1>6. PageOK(tables', request')
  BY <1>2, <1>3, <1>5
<1>7. answer'.at = "pages" => PagesOK(tables', answer')
  BY <1>2, <1>3 DEF PagesInv
<1> QED BY <1>6, <1>7 DEF PagesInv

Turned(next, r, seen, last) == next = [r EXCEPT !.seen = seen, !.offset = last]

LEMMA TurnedIs ==
    ASSUME NEW r, DOMAIN r = Fields, NEW seen, NEW last, NEW next, Turned(next, r, seen, last)
    PROVE  /\ DOMAIN next = Fields /\ next.what = r.what /\ next.machines = r.machines
           /\ next.first = r.first /\ next.gone = r.gone
           /\ next.seen = seen /\ next.offset = last
BY DEF Fields, Turned

LEMMA PageStep ==
    ASSUME TypeOK, PagesInv, Page
    PROVE  PagesInv'
<1> DEFINE what == request.what
           rows == Listed(what, request.machines)
           t    == TableOf(tables, what)
           left == Gone \ request.gone
<1>1. request.at = "page" /\ UNCHANGED tables
  BY DEF Page
<1>2. PageOK(tables, request) /\ Listable(tables)
  BY <1>1, TablesList DEF PagesInv
<1>3. PICK order \in Orders(what, rows) :
         LET items == SubSeq(order, request.offset + 1,
                             Least(request.offset + PageSize, Len(order)))
             seen  == request.seen \cup ToSet(items)
         IN  IF Len(items) < PageSize
               THEN Answer([at |-> "pages", what |-> what, first |-> request.first,
                            last |-> rows, seen |-> seen, left |-> left])
               ELSE /\ request' = [request EXCEPT !.seen = seen, !.offset = @ + PageSize]
                    /\ UNCHANGED answer
  BY DEF Page
<1> DEFINE items == SubSeq(order, request.offset + 1,
                           Least(request.offset + PageSize, Len(order)))
           seen == request.seen \cup ToSet(items)
<1>4. /\ rows = ListedIn(tables, what, request.machines) /\ Gone = GoneIn(tables)
      /\ \A i, j : Newer(what, i, j) <=> Later(t, what, i, j)
      /\ Timed(t, Len(t)) /\ rows \subseteq 1 .. Len(t)
      /\ what = "open" => left \subseteq 1 .. Len(t)
  BY <1>2, ListingIs, GoneAre
<1>5. /\ DOMAIN request = Fields
      /\ request.offset \in Nat /\ request.first \subseteq 1 .. Len(t)
      /\ request.gone \subseteq GoneIn(tables)
      /\ \A i \in request.first \ request.seen : Unseen(t, what, rows, left, request.offset, i)
  BY <1>2, <1>4 DEF PageOK
<1>6. /\ order \in SetToSeqs(rows)
      /\ \A j, k \in DOMAIN order : j < k => ~Newer(what, order[k], order[j])
  BY <1>3 DEF Orders
<1> HIDE DEF t, rows, left, what
<1>7. \A j, k \in DOMAIN order : j < k => ~Later(t, what, order[k], order[j])
  BY <1>4, <1>6
<1>8. Cardinality(rows) \in Nat /\ order \in [1 .. Cardinality(rows) -> rows]
  <2>1. Len(t) \in Int /\ 1 \in Int
    BY <1>4 DEF Timed
  <2>2. IsFiniteSet(1 .. Len(t))
    BY <2>1, FS_Interval
  <2> QED BY <1>4, <1>6, <2>2, FS_Subset, FS_CardinalityType DEF SetToSeqs
<1>9. PICK last \in Int :
         /\ last <= Cardinality(rows) /\ \A k \in request.offset + 1 .. last : order[k] \in ToSet(items)
         /\ Len(items) < PageSize => last = Cardinality(rows)
         /\ ~(Len(items) < PageSize) => last = request.offset + PageSize
  <2> DEFINE c == Cardinality(rows)
             offset == request.offset
  <2>1. Lists(order, c, rows) /\ offset \in Nat
    BY <1>5, <1>8 DEF Lists
  <2>2. items = Taken(order, offset)
    BY DEF Taken
  <2> HIDE DEF c, items, offset
  <2>3. \E last \in Int :
          /\ last <= c /\ \A k \in offset + 1 .. last : order[k] \in ToSet(items)
          /\ Len(items) < PageSize => last = c
          /\ ~(Len(items) < PageSize) => last = offset + PageSize
    BY <2>1, <2>2, PageItems
  <2> QED BY <2>3 DEF c, offset
<1>10. \A i \in request.first \ seen :
          \/ Explained(t, what, rows, left, i)
          \/ last # Cardinality(rows) /\ Unseen(t, what, rows, left, last, i)
  <2> SUFFICES ASSUME NEW i \in request.first \ seen
               PROVE  \/ Explained(t, what, rows, left, i)
                      \/ last # Cardinality(rows) /\ Unseen(t, what, rows, left, last, i)
    OBVIOUS
  <2>1. Unseen(t, what, rows, left, request.offset, i)
    BY <1>5
  <2>2. \A k \in request.offset + 1 .. last : order[k] # i
    BY <1>9
  <2> HIDE DEF seen, items
  <2> DEFINE n == Len(t)
             offset == request.offset
  <2>3. Timed(t, n) /\ rows \in SUBSET (1 .. n) /\ offset \in Nat /\ last \in Int
    BY <1>4, <1>5
  <2>4. Unseen(t, what, rows, left, offset, i) /\ \A k \in offset + 1 .. last : order[k] # i
    BY <2>1, <2>2
  <2>5. last <= Cardinality(rows)
    BY <1>9
  <2> HIDE DEF n, offset
  <2> QED BY <1>6, <1>7, <2>3, <2>4, <2>5, PageTakes
<1> DEFINE full == ~(Len(items) < PageSize)
<1>11. \/ ~full /\ Answer([at |-> "pages", what |-> what, first |-> request.first,
                           last |-> rows, seen |-> seen, left |-> left])
       \/ full /\ /\ request' = [request EXCEPT !.seen = seen, !.offset = @ + PageSize]
                  /\ answer' = answer
  BY <1>3 DEF what, rows, left
<1>12. (~full => last = Cardinality(rows)) /\ (full => last = request.offset + PageSize)
  BY <1>9
<1> HIDE DEF seen, items, full
<1>13. CASE ~full /\ Answer([at |-> "pages", what |-> what, first |-> request.first,
                             last |-> rows, seen |-> seen, left |-> left])
  <2> DEFINE a == [at |-> "pages", what |-> what, first |-> request.first,
                   last |-> rows, seen |-> seen, left |-> left]
  <2>1. answer' = a /\ request' = Idle
    BY <1>13 DEF Answer
  <2>2. /\ a.what = what /\ a.first = request.first /\ a.last = rows /\ a.seen = seen
        /\ a.left = left
    OBVIOUS
  <2> HIDE DEF a
  <2>3. \A i \in request.first \ seen : Explained(t, what, rows, left, i)
    BY <1>10, <1>12, <1>13
  <2>4. PagesOK(tables, a)
    BY <1>4, <1>5, <2>2, <2>3 DEF PagesOK, t
  <2> QED BY <1>1, <2>1, <2>4 DEF PagesInv, Idle
<1>14. CASE full /\ /\ request' = [request EXCEPT !.seen = seen, !.offset = @ + PageSize]
                    /\ answer' = answer
  <2>1. request' = [request EXCEPT !.seen = seen, !.offset = last] /\ answer' = answer
    BY <1>12, <1>14
  <2> DEFINE r == [request EXCEPT !.seen = seen, !.offset = last]
  <2>3. request' = r /\ Turned(r, request, seen, last)
    BY <2>1 DEF Turned
  <2> HIDE DEF r
  <2>2. /\ DOMAIN r = Fields /\ r.what = what /\ r.machines = request.machines
        /\ r.first = request.first /\ r.gone = request.gone /\ r.seen = seen /\ r.offset = last
    BY <1>5, <2>3, TurnedIs DEF what
  <2>4. last \in Nat
    BY <1>5, <1>12, <1>14
  <2>5. \A i \in request.first \ seen : Unseen(t, what, rows, left, last, i)
    BY <1>10 DEF Unseen
  <2>6. \A i \in r.first \ r.seen : Unseen(TableOf(tables, r.what), r.what,
           ListedIn(tables, r.what, r.machines), GoneIn(tables) \ r.gone, r.offset, i)
    BY <1>4, <2>2, <2>5 DEF t, left
  <2>7. r.first \subseteq 1 .. Len(TableOf(tables, r.what))
    BY <1>5, <2>2 DEF t
  <2>8. PageOK(tables, r)
    BY <1>5, <2>2, <2>4, <2>6, <2>7 DEF PageOK
  <2>9. answer'.at = "pages" => PagesOK(tables', answer')
    BY <1>1, <2>1 DEF PagesInv
  <2> QED BY <1>1, <2>3, <2>8, <2>9 DEF PagesInv
<1> QED BY <1>11, <1>13, <1>14

LEMMA PagesStep ==
    ASSUME TypeOK, Marked, PagesInv, [Next]_vars
    PROVE  PagesInv'
<1>1. TypeOK' /\ Grows /\ Moves
  BY NextStep
<1>2. Listable(tables) /\ Growing(tables, tables')
  BY <1>1, TablesList
<1>3. Listable(tables')
  <2>1. (TypeOK => Listable(tables))'
    BY TablesList, PTL
  <2> QED BY <1>1, <2>1
<1>4. \A r : PageOK(tables, r) => PageOK(tables', r)
  BY <1>2, <1>3, PageKept
<1>5. \A a : PagesOK(tables, a) => PagesOK(tables', a)
  BY <1>2, <1>3, PagesKept
<1> DEFINE Other == /\ request'.at # "page" \/ request' = request
                    /\ answer'.at # "pages" \/ answer' = answer
<1>6. CASE Other
  BY <1>4, <1>5, <1>6 DEF PagesInv
<1>7. CASE (\E m \in Machines : PageStart(m)) \/ FleetAlerts
  BY <1>7, PageStartStep
<1>8. CASE Page
  BY <1>8, PageStep
<1>9. Moves => Other \/ Page \/ FleetAlerts \/ \E m \in Machines : PageStart(m)
  <2>1. Asks => \/ FleetAlerts \/ \E m \in Machines : PageStart(m)
                \/ request'.at \in {"history", "detail sample", "fleet twin", "machines", "drift"}
    BY HistoryAsked, DetailAsked, FleetAsked, DriftAsked DEF Asks, Became
  <2>2. Asks /\ answer' = answer => Other \/ FleetAlerts \/ \E m \in Machines : PageStart(m)
    BY <2>1
  <2>3. FleetTwin \/ FleetCritical => Other
    BY FleetGoesOn DEF Became
  <2>4. DetailSample \/ DetailPrediction => Other
    BY DetailGoesOn DEF Became
  <2>5. HistorySnapshots \/ DriftReport => Other
    BY Answered DEF Became
  <2>6. ListMachine => Other
    BY ListGoesOn DEF Became
  <2> QED BY <1>1, <2>2, <2>3, <2>4, <2>5, <2>6 DEF Moves, Idle
<1> QED BY <1>1, <1>6, <1>7, <1>8, <1>9

\* Whatever arrives or leaves while someone pages, every row that was in the listing when he
\* began is shown to him, but where the time alone does not order it, or one that is not
\* before it has left the listing: as long as neither is so, at least as many rows are before
\* it as the pages have taken.
THEOREM PagesAreComplete == Spec => []PagesComplete
<1>1. Init => TypeOK /\ Marked /\ PagesInv
  <2>1. Init => PagesInv
    BY DEF Init, Idle, PagesInv
  <2> QED BY <2>1, InitType, InitMarked
<1>2. TypeOK /\ Marked /\ PagesInv /\ [Next]_vars => (TypeOK /\ Marked /\ PagesInv)'
  BY NextStep, MarkedStep, PagesStep
<1>3. TypeOK /\ Marked /\ PagesInv => PagesComplete
  <2> SUFFICES ASSUME TypeOK, PagesInv, answer.at = "pages", NEW i \in answer.first \ answer.seen
               PROVE  \/ /\ answer.what # "telemetry"
                         /\ \E j \in answer.last : j # i /\ TimeOf(answer.what, i) = TimeOf(answer.what, j)
                      \/ answer.what = "open" /\ \E j \in answer.left : ~Newer(answer.what, i, j)
    BY DEF PagesComplete
  <2>1. /\ \A k : TimeOf(answer.what, k) = TableOf(tables, answer.what)[k].ts
        /\ \A k, j : Newer(answer.what, k, j) <=> Later(TableOf(tables, answer.what), answer.what, k, j)
    BY ListingIs
  <2>2. Explained(TableOf(tables, answer.what), answer.what, answer.last, answer.left, i)
    BY DEF PagesInv, PagesOK
  <2> QED BY <2>1, <2>2 DEF Explained
<1> QED BY <1>1, <1>2, <1>3, PTL DEF Spec

-----------------------------------------------------------------------------
(* A machine's history *)

LEMMA Preceding ==
    ASSUME NEW table, NEW n \in Nat, \A i \in 1 .. n : table[i].ts \in Int
    PROVE  \A h, i, j \in 1 .. n :
             /\ ~Before(table, i, i)
             /\ h # i => Before(table, h, i) \/ Before(table, i, h)
             /\ Before(table, h, i) /\ Before(table, i, j) => Before(table, h, j)
             /\ Before(table, h, i) => table[h].ts <= table[i].ts
BY DEF Before

\* The rank of a row among those of a set takes each value once, and agrees with their order.
LEMMA RanksOf ==
    ASSUME NEW table, NEW n \in Nat, \A i \in 1 .. n : table[i].ts \in Int,
           NEW S \in SUBSET (1 .. n)
    PROVE  /\ Cardinality(S) \in Nat
           /\ \A k \in 1 .. Cardinality(S) : \E i \in S :
                Cardinality({j \in S : Before(table, j, i)}) = k - 1
           /\ \A h, i \in S : Cardinality({j \in S : Before(table, j, h)})
                                < Cardinality({j \in S : Before(table, j, i)})
                                => Before(table, h, i)
<1> DEFINE Lower(i) == {j \in S : Before(table, j, i)}
           rank == [i \in S |-> Cardinality(Lower(i))]
           T == 0 .. Cardinality(S) - 1
<1>1. IsFiniteSet(S) /\ Cardinality(S) \in Nat
  <2>1. n \in Int /\ 1 \in Int
    OBVIOUS
  <2>2. IsFiniteSet(1 .. n)
    BY <2>1, FS_Interval
  <2> QED BY <2>2, FS_Subset, FS_CardinalityType
<1>2. \A h, i, j \in S :
         /\ ~Before(table, i, i)
         /\ h # i => Before(table, h, i) \/ Before(table, i, h)
         /\ Before(table, h, i) /\ Before(table, i, j) => Before(table, h, j)
  BY Preceding
<1>3. \A i \in S : /\ IsFiniteSet(Lower(i)) /\ Cardinality(Lower(i)) \in Nat
                   /\ Cardinality(Lower(i)) < Cardinality(S)
  <2> SUFFICES ASSUME NEW i \in S
               PROVE  /\ IsFiniteSet(Lower(i)) /\ Cardinality(Lower(i)) \in Nat
                      /\ Cardinality(Lower(i)) < Cardinality(S)
    OBVIOUS
  <2>1. Lower(i) \in SUBSET S /\ i \notin Lower(i)
    BY <1>2
  <2> HIDE DEF Lower
  <2>2. /\ IsFiniteSet(Lower(i)) /\ Cardinality(Lower(i)) <= Cardinality(S)
        /\ Cardinality(S) = Cardinality(Lower(i)) => S = Lower(i)
    BY <1>1, <2>1, FS_Subset
  <2>3. Cardinality(Lower(i)) \in Nat
    BY <2>2, FS_CardinalityType
  <2> QED BY <1>1, <2>1, <2>2, <2>3
<1>4. \A h, i \in S : Before(table, h, i) => Cardinality(Lower(h)) < Cardinality(Lower(i))
  <2> SUFFICES ASSUME NEW h \in S, NEW i \in S, Before(table, h, i)
               PROVE  Cardinality(Lower(h)) < Cardinality(Lower(i))
    OBVIOUS
  <2>1. Lower(h) \in SUBSET Lower(i) /\ h \in Lower(i) /\ h \notin Lower(h)
    BY <1>2
  <2> HIDE DEF Lower
  <2>2. /\ Cardinality(Lower(h)) <= Cardinality(Lower(i))
        /\ Cardinality(Lower(i)) = Cardinality(Lower(h)) => Lower(i) = Lower(h)
    BY <1>3, <2>1, FS_Subset
  <2> QED BY <1>3, <2>1, <2>2
<1>5. \A h, i \in S : Cardinality(Lower(h)) < Cardinality(Lower(i)) => Before(table, h, i)
  <2> SUFFICES ASSUME NEW h \in S, NEW i \in S, Cardinality(Lower(h)) < Cardinality(Lower(i))
               PROVE  Before(table, h, i)
    OBVIOUS
  <2> HIDE DEF Lower
  <2>1. h # i /\ ~Before(table, i, h)
    BY <1>3, <1>4
  <2> QED BY <1>2, <2>1
<1>6. \A h, i \in S : Cardinality(Lower(h)) = Cardinality(Lower(i)) => h = i
  <2> HIDE DEF Lower
  <2> SUFFICES ASSUME NEW h \in S, NEW i \in S, Cardinality(Lower(h)) = Cardinality(Lower(i)), h # i
               PROVE  FALSE
    OBVIOUS
  <2> QED BY <1>2, <1>3, <1>4
<1> HIDE DEF Lower
<1>7. rank \in Injection(S, T)
  <2>1. rank \in [S -> T]
    BY <1>1, <1>3
  <2>2. \A i \in S : rank[i] = Cardinality(Lower(i))
    OBVIOUS
  <2>3. DOMAIN rank = S
    OBVIOUS
  <2> HIDE DEF rank, T
  <2>4. IsInjective(rank)
    BY <1>6, <2>2, <2>3 DEF IsInjective
  <2> QED BY <2>1, <2>4 DEF Injection
<1>8. IsFiniteSet(T) /\ Cardinality(T) = Cardinality(S)
  <2> DEFINE c == Cardinality(S)
  <2>1. 0 \in Int /\ c - 1 \in Int /\ c \in Nat
    BY <1>1
  <2> HIDE DEF c
  <2>2. IsFiniteSet(0 .. c - 1) /\ Cardinality(0 .. c - 1) = IF 0 > c - 1 THEN 0 ELSE (c - 1) - 0 + 1
    BY <2>1, FS_Interval, Zenon
  <2>3. (IF 0 > c - 1 THEN 0 ELSE (c - 1) - 0 + 1) = c
    BY <2>1
  <2> QED BY <2>2, <2>3 DEF c
<1>9. rank \in Surjection(S, T)
  <2> HIDE DEF rank, T
  <2> QED BY <1>7, <1>8, FS_Injection
<1>10. \A k \in 1 .. Cardinality(S) : \E i \in S : Cardinality(Lower(i)) = k - 1
  <2> SUFFICES ASSUME NEW k \in 1 .. Cardinality(S)
               PROVE  \E i \in S : Cardinality(Lower(i)) = k - 1
    OBVIOUS
  <2>1. k - 1 \in T
    BY <1>1
  <2>2. \E i \in S : rank[i] = k - 1
    BY <1>9, <2>1 DEF Surjection
  <2> QED BY <2>2
<1> QED BY <1>1, <1>5, <1>10 DEF Lower

\* The points of a window, the earliest first.
Timely(points, from) ==
    /\ points \in Seq([ts : from .. Now, score : Int, state : HealthStates])
    /\ \A k \in 1 .. Len(points) - 1 : points[k].ts <= points[k + 1].ts

LEMMA PointsAre ==
    ASSUME NEW table, NEW n \in Nat, DOMAIN table = 1 .. n,
           \A i \in 1 .. n : /\ table[i].ts \in Int /\ table[i].ts <= Now
                             /\ table[i].score \in Int /\ table[i].state \in HealthStates,
           NEW m, NEW from \in Int
    PROVE  Timely(Points(table, m, from), from)
<1> DEFINE S == InWindow(table, m, from)
           c == Cardinality(S)
           Rank(i) == Cardinality({j \in S : Before(table, j, i)})
           ids == Earliest(table, S)
           Point(i) == [ts |-> table[i].ts, score |-> table[i].score, state |-> table[i].state]
           points == Points(table, m, from)
<1>1. S \in SUBSET (1 .. n) /\ \A i \in S : table[i].ts >= from
  BY DEF InWindow, Where
<1> HIDE DEF S
<1>2. /\ c \in Nat
      /\ \A k \in 1 .. c : \E i \in S : Rank(i) = k - 1
      /\ \A h, i \in S : Rank(h) < Rank(i) => Before(table, h, i)
  BY <1>1, RanksOf
<1>3. ids = [k \in 1 .. c |-> CHOOSE i \in S : Rank(i) = k - 1]
  BY DEF Earliest
<1> HIDE DEF Rank, ids, c
<1>4. DOMAIN ids = 1 .. c /\ \A k \in 1 .. c : ids[k] \in S /\ Rank(ids[k]) = k - 1
  <2>1. DOMAIN ids = 1 .. c /\ \A k \in 1 .. c : ids[k] = CHOOSE i \in S : Rank(i) = k - 1
    BY <1>3
  <2> QED BY <1>2, <2>1
<1>5. points = [k \in 1 .. c |-> Point(ids[k])]
  BY <1>4 DEF Points, ids, S
<1> DEFINE Plotted == [ts : from .. Now, score : Int, state : HealthStates]
<1>6. \A k \in 1 .. c : Point(ids[k]) \in Plotted
  <2> SUFFICES ASSUME NEW k \in 1 .. c PROVE Point(ids[k]) \in Plotted
    OBVIOUS
  <2>1. ids[k] \in S /\ ids[k] \in 1 .. n
    BY <1>1, <1>4
  <2>2. /\ table[ids[k]].ts \in Int /\ table[ids[k]].ts <= Now /\ table[ids[k]].ts >= from
        /\ table[ids[k]].score \in Int /\ table[ids[k]].state \in HealthStates
    BY <1>1, <2>1
  <2>3. table[ids[k]].ts \in from .. Now
    BY <2>2 DEF Now
  <2> QED BY <2>2, <2>3
<1>7. \A k \in 1 .. c - 1 : table[ids[k]].ts <= table[ids[k + 1]].ts
  <2> SUFFICES ASSUME NEW k \in 1 .. c - 1
               PROVE  table[ids[k]].ts <= table[ids[k + 1]].ts
    OBVIOUS
  <2>1. k \in 1 .. c /\ k + 1 \in 1 .. c /\ k - 1 < (k + 1) - 1
    BY <1>2
  <2>2. /\ ids[k] \in S /\ ids[k + 1] \in S /\ Rank(ids[k]) < Rank(ids[k + 1])
    BY <1>4, <2>1
  <2>3. Before(table, ids[k], ids[k + 1])
    BY <1>2, <2>2
  <2>4. table[ids[k]].ts \in Int /\ table[ids[k + 1]].ts \in Int
    BY <1>1, <2>2
  <2> QED BY <2>3, <2>4 DEF Before
<1>8. \A k \in 1 .. c : Point(ids[k]).ts = table[ids[k]].ts
  OBVIOUS
<1> HIDE DEF Point, points, Plotted
<1>9. points \in [1 .. c -> Plotted] /\ \A k \in 1 .. c : points[k] = Point(ids[k])
  BY <1>5, <1>6
<1>10. points \in Seq(Plotted) /\ Len(points) = c
  <2>1. points \in Seq(Plotted)
    BY <1>2, <1>9
  <2> QED BY <1>2, <1>9, <2>1, LenProperties
<1>11. \A k \in 1 .. Len(points) - 1 : points[k].ts <= points[k + 1].ts
  <2> SUFFICES ASSUME NEW k \in 1 .. c - 1 PROVE points[k].ts <= points[k + 1].ts
    BY <1>10
  <2>1. k \in 1 .. c /\ k + 1 \in 1 .. c
    BY <1>2
  <2> QED BY <1>7, <1>8, <1>9, <2>1
<1> QED BY <1>10, <1>11 DEF Timely, points, Plotted

\* What is added after a point, and the sums up to n.
Share(points, counted, i) == IF i \in counted THEN Gap(points, i) ELSE 0

Sums(f, points, counted, n) ==
    f = [i \in 0 .. n |-> IF i = 0 THEN 0 ELSE f[i - 1] + Share(points, counted, i)]

LEMMA SumsExist ==
    ASSUME NEW points, NEW counted, NEW n \in Nat
    PROVE  \E f : Sums(f, points, counted, n)
<1> DEFINE Bad == {k \in 0 .. n : ~\E f : Sums(f, points, counted, k)}
<1>1. SUFFICES ASSUME Bad # {} PROVE FALSE
  BY DEF Sums
<1>2. Bad \in SUBSET Nat
  OBVIOUS
<1>3. PICK k \in Bad : \A j \in Bad : k <= j
  BY <1>1, <1>2, LeastOf
<1>4. k \in 0 .. n /\ ~\E f : Sums(f, points, counted, k)
  OBVIOUS
<1>5. CASE k = 0
  <2>1. Sums([i \in 0 .. 0 |-> 0], points, counted, 0)
    BY DEF Sums
  <2> QED BY <1>4, <1>5, <2>1
<1>6. CASE k # 0
  <2>1. k - 1 \in 0 .. n /\ ~(k <= k - 1)
    BY <1>4, <1>6
  <2>2. k - 1 \notin Bad
    BY <1>3, <2>1
  <2>3. PICK f : Sums(f, points, counted, k - 1)
    BY <2>1, <2>2
  <2> DEFINE g == [i \in 0 .. k |-> IF i = k THEN f[k - 1] + Share(points, counted, k) ELSE f[i]]
             h == [i \in 0 .. k |-> IF i = 0 THEN 0 ELSE g[i - 1] + Share(points, counted, i)]
  <2>4. \A i \in 0 .. k - 1 : f[i] = IF i = 0 THEN 0 ELSE f[i - 1] + Share(points, counted, i)
    BY <2>3 DEF Sums
  <2>5. \A i \in 0 .. k : g[i] = h[i]
    <3> SUFFICES ASSUME NEW i \in 0 .. k PROVE g[i] = h[i]
      OBVIOUS
    <3>1. CASE i = k
      <4>1. g[k] = f[k - 1] + Share(points, counted, k) /\ g[k - 1] = f[k - 1]
        BY <1>4, <1>6
      <4> QED BY <1>4, <1>6, <3>1, <4>1
    <3>2. CASE i # k
      <4>1. i \in 0 .. k - 1 /\ g[i] = f[i]
        BY <1>4, <3>2
      <4>2. i # 0 => g[i - 1] = f[i - 1]
        BY <1>4, <3>2, <4>1
      <4> QED BY <2>4, <4>1, <4>2
    <3> QED BY <3>1, <3>2
  <2>6. g = h
    <3>1. g = [i \in 0 .. k |-> g[i]] /\ h = [i \in 0 .. k |-> h[i]]
      OBVIOUS
    <3> HIDE DEF g, h
    <3> QED BY <2>5, <3>1
  <2>7. Sums(g, points, counted, k)
    <3>1. h = [i \in 0 .. k |-> IF i = 0 THEN 0 ELSE g[i - 1] + Share(points, counted, i)]
      OBVIOUS
    <3> HIDE DEF g, h
    <3> QED BY <2>6, <3>1 DEF Sums
  <2> QED BY <1>4, <2>7
<1> QED BY <1>5, <1>6

LEMMA TimeIs ==
    ASSUME NEW points, NEW counted, Len(points) \in Nat
    PROVE  \E f : Sums(f, points, counted, Len(points)) /\ Time(points, counted) = f[Len(points)]
<1> DEFINE f == CHOOSE upTo : upTo = [i \in 0 .. Len(points) |->
                  IF i = 0 THEN 0 ELSE upTo[i - 1] + (IF i \in counted THEN Gap(points, i) ELSE 0)]
<1>1. Time(points, counted) = f[Len(points)]
  BY DEF Time
<1>2. PICK g : Sums(g, points, counted, Len(points))
  BY SumsExist
<1>3. g = [i \in 0 .. Len(points) |->
             IF i = 0 THEN 0 ELSE g[i - 1] + (IF i \in counted THEN Gap(points, i) ELSE 0)]
  BY <1>2 DEF Sums, Share
<1>4. f = [i \in 0 .. Len(points) |->
             IF i = 0 THEN 0 ELSE f[i - 1] + (IF i \in counted THEN Gap(points, i) ELSE 0)]
  BY <1>3
<1> HIDE DEF f
<1>5. Sums(f, points, counted, Len(points))
  BY <1>4 DEF Sums, Share
<1> QED BY <1>1, <1>5

\* The times of two kinds of point add up to no more than the window.
LEMMA TimesFit ==
    ASSUME NEW points, NEW from \in 1 .. MaxTime, Timely(points, from),
           NEW W, NEW C, W \cap C = {}
    PROVE  Time(points, W) + Time(points, C) <= Now - from
<1> DEFINE n == Len(points)
           ts(k) == points[k].ts
           End(k) == IF k < n THEN ts(k + 1) ELSE ts(n)
<1>1. n \in Nat /\ \A k \in 1 .. n : ts(k) \in from .. Now
  <2>1. n \in Nat
    BY LenProperties DEF Timely
  <2>2. \A k \in 1 .. n : points[k] \in [ts : from .. Now, score : Int, state : HealthStates]
    BY ElementOfSeq DEF Timely
  <2> QED BY <2>1, <2>2
<1>2. \A k \in 1 .. n - 1 : ts(k) <= ts(k + 1)
  BY DEF Timely
<1>3. PICK f : Sums(f, points, W, n) /\ Time(points, W) = f[n]
  BY <1>1, TimeIs
<1>4. PICK g : Sums(g, points, C, n) /\ Time(points, C) = g[n]
  BY <1>1, TimeIs
<1>5. /\ f[0] = 0 /\ g[0] = 0
      /\ \A k \in 1 .. n : /\ f[k] = f[k - 1] + Share(points, W, k)
                           /\ g[k] = g[k - 1] + Share(points, C, k)
  <2>1. /\ \A k \in 0 .. n : f[k] = IF k = 0 THEN 0 ELSE f[k - 1] + Share(points, W, k)
        /\ \A k \in 0 .. n : g[k] = IF k = 0 THEN 0 ELSE g[k - 1] + Share(points, C, k)
    BY <1>3, <1>4 DEF Sums
  <2>2. 0 \in 0 .. n /\ \A k \in 1 .. n : k \in 0 .. n /\ k # 0
    BY <1>1
  <2> QED BY <2>1, <2>2
<1>6. Now \in Int /\ from \in Int /\ from <= Now
  BY DEF Now
<1>7. CASE n = 0
  BY <1>3, <1>4, <1>5, <1>6, <1>7
<1>8. CASE n # 0
  <2> DEFINE Fit(k) == f[k] \in Int /\ g[k] \in Int /\ f[k] + g[k] <= End(k) - ts(1)
             Bad == {k \in 0 .. n : ~Fit(k)}
  <2>1. \A k \in 1 .. n : Gap(points, k) \in Int /\ 0 <= Gap(points, k) /\ Gap(points, k) <= End(k) - ts(k)
    <3> SUFFICES ASSUME NEW k \in 1 .. n
                 PROVE  Gap(points, k) \in Int /\ 0 <= Gap(points, k) /\ Gap(points, k) <= End(k) - ts(k)
      OBVIOUS
    <3>1. CASE k < n
      <4>1. ts(k) \in Int /\ ts(k + 1) \in Int /\ ts(k) <= ts(k + 1) /\ End(k) = ts(k + 1)
        BY <1>1, <1>2, <1>6, <3>1
      <4>2. Gap(points, k) = ts(k + 1) - ts(k) \/ Gap(points, k) = 0
        BY DEF Gap
      <4> HIDE DEF ts, End
      <4> QED BY <4>1, <4>2
    <3>2. CASE ~(k < n)
      <4>1. k = n /\ Gap(points, k) = 0
        BY <1>1, <3>2 DEF Gap
      <4>2. End(k) = ts(k) /\ ts(k) \in Int
        BY <1>1, <1>6, <4>1
      <4> HIDE DEF ts, End
      <4> QED BY <4>1, <4>2
    <3> QED BY <3>1, <3>2
  <2>2. \A k \in 1 .. n : /\ Share(points, W, k) \in Int /\ Share(points, C, k) \in Int
                          /\ Share(points, W, k) + Share(points, C, k) <= End(k) - ts(k)
    <3> SUFFICES ASSUME NEW k \in 1 .. n
                 PROVE  /\ Share(points, W, k) \in Int /\ Share(points, C, k) \in Int
                        /\ Share(points, W, k) + Share(points, C, k) <= End(k) - ts(k)
      OBVIOUS
    <3> DEFINE d == End(k) - ts(k)
               a == Gap(points, k)
    <3>1. a \in Int /\ 0 <= a /\ a <= d /\ d \in Int
      <4>1. End(k) \in Int /\ ts(k) \in Int
        <5>1. (k < n => k + 1 \in 1 .. n) /\ n \in 1 .. n
          BY <1>1, <1>8
        <5> QED BY <1>1, <1>6, <5>1
      <4> QED BY <2>1, <4>1
    <3>2. /\ Share(points, W, k) = a \/ Share(points, W, k) = 0
          /\ Share(points, C, k) = a \/ Share(points, C, k) = 0
          /\ Share(points, W, k) = 0 \/ Share(points, C, k) = 0
      BY DEF Share
    <3> HIDE DEF d, a
    <3>3. Share(points, W, k) + Share(points, C, k) <= d
      BY <3>1, <3>2
    <3> QED BY <3>1, <3>2, <3>3 DEF d
  <2>3. \A k \in 0 .. n : End(k) \in Int
    <3> SUFFICES ASSUME NEW k \in 0 .. n PROVE End(k) \in Int
      OBVIOUS
    <3>1. (k < n => k + 1 \in 1 .. n) /\ n \in 1 .. n
      BY <1>1, <1>8
    <3> QED BY <1>1, <1>6, <3>1
  <2>4. End(0) = ts(1) /\ ts(1) \in Int /\ ts(1) >= from /\ End(n) = ts(n) /\ ts(n) <= Now
    <3>1. 0 < n /\ 1 \in 1 .. n /\ n \in 1 .. n /\ ~(n < n)
      BY <1>1, <1>8
    <3> QED BY <1>1, <1>6, <3>1
  <2>5. \A k \in 1 .. n : End(k - 1) = ts(k) /\ ts(k) \in Int
    BY <1>1, <1>6
  <2> HIDE DEF End, ts
  <2>6. Bad = {}
    <3> SUFFICES ASSUME Bad # {} PROVE FALSE
      OBVIOUS
    <3>1. Bad \in SUBSET Nat
      BY <1>1
    <3>2. PICK k \in Bad : \A j \in Bad : k <= j
      BY <3>1, LeastOf
    <3>3. k \in 0 .. n /\ ~Fit(k)
      OBVIOUS
    <3>4. CASE k = 0
      BY <1>5, <2>4, <3>3, <3>4
    <3>5. CASE k # 0
      <4>1. k \in 1 .. n /\ k - 1 \in 0 .. n /\ ~(k <= k - 1)
        BY <1>1, <3>3, <3>5
      <4>2. Fit(k - 1)
        BY <3>2, <4>1
      <4>3. /\ f[k - 1] \in Int /\ g[k - 1] \in Int /\ f[k - 1] + g[k - 1] <= ts(k) - ts(1)
            /\ ts(k) \in Int /\ ts(1) \in Int
        BY <2>4, <2>5, <4>1, <4>2
      <4>4. f[k] = f[k - 1] + Share(points, W, k) /\ g[k] = g[k - 1] + Share(points, C, k)
        BY <1>5, <4>1
      <4>5. /\ Share(points, W, k) \in Int /\ Share(points, C, k) \in Int /\ End(k) \in Int
            /\ Share(points, W, k) + Share(points, C, k) <= End(k) - ts(k)
        BY <2>2, <2>3, <3>3, <4>1
      <4>6. Fit(k)
        <5> DEFINE x == f[k - 1]
                   y == g[k - 1]
                   a == Share(points, W, k)
                   b == Share(points, C, k)
                   e == End(k)
        <5>1. /\ x \in Int /\ y \in Int /\ a \in Int /\ b \in Int /\ e \in Int
              /\ x + y <= ts(k) - ts(1) /\ a + b <= e - ts(k)
          BY <4>3, <4>5, Zenon
        <5> HIDE DEF x, y, a, b, e
        <5>4. (x + a) + (y + b) <= e - ts(1)
          BY <4>3, <5>1
        <5>2. x + a \in Int /\ y + b \in Int
          BY <5>1
        <5>3. f[k] = x + a /\ g[k] = y + b /\ e = End(k)
          BY <4>4 DEF x, y, a, b, e
        <5> QED BY <5>2, <5>3, <5>4, Zenon
      <4> QED BY <3>3, <4>6
    <3> QED BY <3>4, <3>5
  <2>7. Fit(n)
    BY <1>1, <2>6
  <2> QED BY <1>1, <1>3, <1>4, <1>6, <2>3, <2>4, <2>7
<1> QED BY <1>7, <1>8

\* The bucket of a point lies inside the window, and the point inside its bucket.
LEMMA Division ==
    ASSUME NEW a \in Nat, NEW d \in Nat \ {0}
    PROVE  /\ a \div d \in Nat /\ (a \div d) * d <= a /\ a < (a \div d + 1) * d
OBVIOUS

LEMMA Smaller ==
    ASSUME NEW a \in Int, NEW b \in Int, NEW d \in Nat, a <= b
    PROVE  a * d <= b * d
OBVIOUS

LEMMA MinOf ==
    ASSUME NEW a \in Int, NEW b \in Int
    PROVE  Min({a, b}) = IF a <= b THEN a ELSE b
<1>1. Min({a, b}) = CHOOSE x \in {a, b} : \A y \in {a, b} : x <= y
  BY DEF Min
<1> QED BY <1>1

LEMMA BucketIs ==
    ASSUME NEW from \in 1 .. MaxTime, NEW p, p.ts \in from .. Now
    PROVE  LET b == Bucket(p, from, Now)
               x == (p.ts - from) * MaxPoints
           IN  /\ b \in 0 .. MaxPoints - 1 /\ b * (Now - from) <= x
               /\ b = MaxPoints - 1 \/ x < (b + 1) * (Now - from)
<1> DEFINE d == Now - from
           x == (p.ts - from) * MaxPoints
           q == x \div d
<1>1. d \in Nat \ {0}
  BY DEF Now
<1>2. x \in Nat
  <2>1. p.ts - from \in Nat
    BY DEF Now
  <2> QED BY <2>1
<1>3. Bucket(p, from, Now) = Min({q, MaxPoints - 1})
  BY DEF Bucket
<1> HIDE DEF d, x
<1>4. q \in Nat /\ q * d <= x /\ x < (q + 1) * d
  BY <1>1, <1>2, Division
<1> HIDE DEF q
<1>5. Bucket(p, from, Now) = IF q <= MaxPoints - 1 THEN q ELSE MaxPoints - 1
  BY <1>3, <1>4, MinOf
<1>6. CASE q <= MaxPoints - 1
  BY <1>4, <1>5, <1>6 DEF d, x
<1>7. CASE ~(q <= MaxPoints - 1)
  <2>1. (MaxPoints - 1) * d <= q * d
    BY <1>1, <1>4, <1>7, Smaller
  <2>2. (MaxPoints - 1) * d <= x
    <3>1. (MaxPoints - 1) * d \in Int /\ q * d \in Int
      BY <1>1, <1>4
    <3> QED BY <1>2, <1>4, <2>1, <3>1
  <2>3. Bucket(p, from, Now) = MaxPoints - 1 /\ MaxPoints - 1 \in 0 .. MaxPoints - 1
    BY <1>5, <1>7
  <2> QED BY <2>2, <2>3 DEF d, x
<1> QED BY <1>6, <1>7

\* What a thinned trend keeps.
Kept(points, from, trend) ==
    LET span == Now - from
    IN  /\ DOMAIN trend \subseteq 0 .. MaxPoints - 1
        /\ trend # <<>> => \A p \in ToSet(points) : \E b \in DOMAIN trend :
             /\ b * span <= (p.ts - from) * MaxPoints
             /\ b = MaxPoints - 1 \/ (p.ts - from) * MaxPoints < (b + 1) * span
             /\ p.state = "CRITICAL" => trend[b] = "CRITICAL"
             /\ p.state = "WARNING" => trend[b] # "HEALTHY"

LEMMA TrendIs ==
    ASSUME NEW from \in 1 .. MaxTime, NEW points, Timely(points, from)
    PROVE  Kept(points, from, _downsample_health(points, from, Now))
<1> DEFINE B(p) == Bucket(p, from, Now)
           In(b) == {p \in ToSet(points) : B(p) = b}
           trend == _downsample_health(points, from, Now)
<1>1. trend = [b \in {B(p) : p \in ToSet(points)} |-> Represent(In(b))]
  BY DEF _downsample_health
<1>2. \A p \in ToSet(points) : p.ts \in from .. Now
  <2>1. DOMAIN points = 1 .. Len(points)
    BY LenProperties DEF Timely
  <2>2. \A k \in 1 .. Len(points) : points[k] \in [ts : from .. Now, score : Int, state : HealthStates]
    BY ElementOfSeq DEF Timely
  <2> QED BY <2>1, <2>2 DEF ToSet
<1>3. \A p \in ToSet(points) :
        /\ B(p) \in 0 .. MaxPoints - 1 /\ B(p) * (Now - from) <= (p.ts - from) * MaxPoints
        /\ B(p) = MaxPoints - 1 \/ (p.ts - from) * MaxPoints < (B(p) + 1) * (Now - from)
  BY <1>2, BucketIs
<1> HIDE DEF B, trend
<1>4. \A p \in ToSet(points) : B(p) \in DOMAIN trend /\ trend[B(p)] = Represent(In(B(p)))
  BY <1>1
<1>5. \A p \in ToSet(points) : /\ p.state = "CRITICAL" => trend[B(p)] = "CRITICAL"
                               /\ p.state = "WARNING" => trend[B(p)] # "HEALTHY"
  <2> SUFFICES ASSUME NEW p \in ToSet(points)
               PROVE  /\ p.state = "CRITICAL" => trend[B(p)] = "CRITICAL"
                      /\ p.state = "WARNING" => trend[B(p)] # "HEALTHY"
    OBVIOUS
  <2>1. p \in In(B(p))
    OBVIOUS
  <2> DEFINE S == In(B(p))
  <2>2. p \in S /\ trend[B(p)] = Represent(S)
    BY <1>4, <2>1
  <2> HIDE DEF S
  <2>3. p.state = "CRITICAL" => Represent(S) = "CRITICAL"
    BY <2>2 DEF Represent, IsCritical
  <2>4. p.state = "WARNING" => Represent(S) # "HEALTHY"
    BY <2>2 DEF Represent
  <2> QED BY <2>2, <2>3, <2>4
<1>6. DOMAIN trend \subseteq 0 .. MaxPoints - 1
  BY <1>1, <1>3
<1> QED BY <1>3, <1>4, <1>5, <1>6 DEF Kept, trend

HistoryInv ==
    /\ request.at = "history" =>
         request.from \in 1 .. MaxTime /\ Timely(request.points, request.from)
    /\ TrendKeepsAlarms

LEMMA TablesTimed ==
    ASSUME TypeOK
    PROVE  /\ DOMAIN predictions = 1 .. Len(predictions) /\ Len(predictions) \in Nat
           /\ DOMAIN snapshots = 1 .. Len(snapshots) /\ Len(snapshots) \in Nat
           /\ \A i \in 1 .. Len(predictions) :
                /\ predictions[i].ts \in Int /\ predictions[i].ts <= Now
                /\ predictions[i].score \in Int /\ predictions[i].state \in HealthStates
           /\ \A i \in 1 .. Len(snapshots) :
                /\ snapshots[i].ts \in Int /\ snapshots[i].ts <= Now
                /\ snapshots[i].score \in Int /\ snapshots[i].state \in HealthStates
<1>1. /\ DOMAIN predictions = 1 .. Len(predictions) /\ Len(predictions) \in Nat
      /\ DOMAIN snapshots = 1 .. Len(snapshots) /\ Len(snapshots) \in Nat
  BY Same DEF TypeOK, TablesOK
<1>2. \A i \in 1 .. Len(predictions) :
        /\ predictions[i].ts \in Int /\ predictions[i].ts <= Now
        /\ predictions[i].score \in Int /\ predictions[i].state \in HealthStates
  <2>1. \A i \in 1 .. Len(predictions) : predictions[i] \in Results
    BY ElementOfSeq DEF TypeOK, TablesOK
  <2>2. \A r \in Results : /\ r.ts \in 1 .. MaxTime /\ r.score \in Int /\ r.state \in HealthStates
    BY DEF Results
  <2> QED BY <2>1, <2>2 DEF Now
<1>3. \A i \in 1 .. Len(snapshots) :
        /\ snapshots[i].ts \in Int /\ snapshots[i].ts <= Now
        /\ snapshots[i].score \in Int /\ snapshots[i].state \in HealthStates
  <2> SUFFICES ASSUME NEW i \in 1 .. Len(snapshots)
               PROVE  /\ snapshots[i].ts \in Int /\ snapshots[i].ts <= Now
                      /\ snapshots[i].score \in Int /\ snapshots[i].state \in HealthStates
    OBVIOUS
  <2> DEFINE t == snapshots[i].payload
             s == snapshots[i]
  <2>1. /\ t \in TwinStates /\ s.state = t.state /\ s.ts = t.ts
        /\ s.score = IF t.score = None THEN 0 ELSE t.score
    BY Columns
  <2> HIDE DEF t
  <2>2. t.ts \in Times /\ t.state \in HealthStates /\ t.score \in Int \cup {None}
    BY <2>1, TwinsAre
  <2> QED BY <2>1, <2>2 DEF Times, Now
<1> QED BY <1>1, <1>2, <1>3

LEMMA HistoryStart ==
    ASSUME TypeOK, HistoryInv, NEW m, HistoryPredictions(m)
    PROVE  HistoryInv'
<1>1. PICK from \in 1 .. MaxTime :
         Ask([at |-> "history", machine |-> m, from |-> from, points |-> Points(predictions, m, from)])
  BY DEF HistoryPredictions
<1>2. Timely(Points(predictions, m, from), from)
  BY TablesTimed, PointsAre
<1>3. answer' = answer /\ request'.from = from /\ request'.points = Points(predictions, m, from)
  BY <1>1 DEF Ask
<1> QED BY <1>2, <1>3 DEF HistoryInv, TrendKeepsAlarms

LEMMA HistoryAnswer ==
    ASSUME TypeOK, HistoryInv, HistorySnapshots
    PROVE  HistoryInv'
<1> DEFINE m == request.machine
           from == request.from
           points == IF InWindow(snapshots, m, from) # {} THEN Points(snapshots, m, from)
                     ELSE request.points
           trend == IF Len(points) > MaxPoints THEN _downsample_health(points, from, Now) ELSE <<>>
<1>1. request.at = "history" /\ from \in 1 .. MaxTime /\ Timely(request.points, from)
  BY DEF HistorySnapshots, HistoryInv
<1>2. Timely(points, from)
  <2>1. Timely(Points(snapshots, m, from), from)
    BY <1>1, TablesTimed, PointsAre
  <2> QED BY <1>1, <2>1
<1>3. /\ request' = Idle
      /\ answer' = [at |-> "history", from |-> from, points |-> points,
                    warning |-> time_warning(points), critical |-> time_critical(points),
                    trend |-> trend]
  BY DEF HistorySnapshots, Answer
<1> HIDE DEF from, points, m
<1>4. Kept(points, from, trend)
  <2>1. CASE Len(points) > MaxPoints
    BY <1>1, <1>2, <2>1, TrendIs
  <2>2. CASE ~(Len(points) > MaxPoints)
    <3>1. trend = <<>> /\ DOMAIN <<>> = {}
      BY <2>2
    <3> HIDE DEF trend
    <3> QED BY <3>1 DEF Kept
  <2> QED BY <2>1, <2>2
<1> HIDE DEF trend
<1>5. time_warning(points) + time_critical(points) <= Now - from
  BY <1>1, <1>2, TimesFit DEF time_warning, time_critical
<1>6. /\ answer'.from = from /\ answer'.points = points /\ answer'.trend = trend
      /\ answer'.warning = time_warning(points) /\ answer'.critical = time_critical(points)
  BY <1>3
<1>7. TrendKeepsAlarms'
  BY <1>4, <1>5, <1>6 DEF TrendKeepsAlarms, Kept
<1> QED BY <1>3, <1>7 DEF HistoryInv, Idle

LEMMA HistoryStep ==
    ASSUME TypeOK, Marked, HistoryInv, [Next]_vars
    PROVE  HistoryInv'
<1>1. Moves
  BY NextStep
<1> DEFINE Other == /\ request'.at # "history" \/ request' = request
                    /\ answer'.at # "history" \/ answer' = answer
<1>2. CASE Other
  <2>1. TrendKeepsAlarms'
    BY <1>2 DEF HistoryInv, TrendKeepsAlarms
  <2> QED BY <1>2, <2>1 DEF HistoryInv
<1>3. CASE \E m \in Machines : HistoryPredictions(m)
  BY <1>3, HistoryStart
<1>4. CASE HistorySnapshots
  BY <1>4, HistoryAnswer
<1>5. Other \/ HistorySnapshots \/ \E m \in Machines : HistoryPredictions(m)
  <2>1. Asks => \/ \E m \in Machines : HistoryPredictions(m)
                \/ request'.at \in {"page", "detail sample", "fleet twin", "machines", "drift"}
    BY PageAsked, DetailAsked, FleetAsked, DriftAsked DEF Asks, Became
  <2>2. Asks /\ answer' = answer => Other \/ \E m \in Machines : HistoryPredictions(m)
    BY <2>1
  <2>3. FleetTwin \/ FleetCritical => Other
    BY FleetGoesOn DEF Became
  <2>4. DetailSample \/ DetailPrediction => Other
    BY DetailGoesOn DEF Became
  <2>5. DriftReport => Other
    BY Answered DEF Became
  <2>6. ListMachine \/ Page => Other
    BY ListGoesOn DEF Became
  <2> QED BY <1>1, <2>2, <2>3, <2>4, <2>5, <2>6 DEF Moves, Idle
<1> QED BY <1>2, <1>3, <1>4, <1>5

\* A machine's history does not lose an alarm by thinning its trend: the points of a window
\* are sorted by time, so that what is added up between them is at most the window; a bucket
\* is a division that is cut off at the last one, and is as bad as the worst of its points.
THEOREM TrendsKeepAlarms == Spec => []TrendKeepsAlarms
<1>1. Init => TypeOK /\ Marked /\ HistoryInv
  <2>1. Init => HistoryInv
    BY DEF Init, Idle, HistoryInv, TrendKeepsAlarms
  <2> QED BY <2>1, InitType, InitMarked
<1>2. TypeOK /\ Marked /\ HistoryInv /\ [Next]_vars => (TypeOK /\ Marked /\ HistoryInv)'
  BY NextStep, MarkedStep, HistoryStep
<1>3. HistoryInv => TrendKeepsAlarms
  BY DEF HistoryInv
<1> QED BY <1>1, <1>2, <1>3, PTL DEF Spec
=============================================================================
