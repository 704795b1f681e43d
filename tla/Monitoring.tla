------------------------------- MODULE Monitoring -------------------------------
(***************************************************************************)
(* From a stored sample to what the operators read: inference, the health  *)
(* engine and its alerts, the twin and its snapshots, on the MQTT thread;  *)
(* and the read-only services, whose requests are several queries, each of *)
(* which sees what is committed by then.  A sample's number stands for its *)
(* row; what IngestTwin models of the way there is left out.               *)
(***************************************************************************)
EXTENDS HealthRules, Analytics, FiniteSetsExt

CONSTANTS
    Machines,
    Messages,    \* what may be published
    Statistics,  \* what the rows of a report may come to, by feature
    Listings,    \* bound: the listings that are asked for, of a machine and of the fleet
    PageSize,    \* limit of a page
    MaxRows,     \* bound: the samples
    MaxTime,     \* bound: the time, from 1; now is one later
    MaxEvents    \* bound: how often a machine falls silent, an alert is left, a row not handled

ASSUME PageAssumption == PageSize \in Nat \ {0}
ASSUME TimeAssumption == MaxTime \in Nat

\* What is compared with a threshold is a number.
ASSUME StatisticsAssumption ==
    \A st \in Statistics, f \in Continuous \cup Categorical :
      st[f].psi \in Int /\ st[f].count \in Int

VARIABLES
    telemetry,    \* the tables: rows by their number
    predictions,
    alerts,
    snapshots,
    twins,        \* TwinService._states
    history,      \* HealthEngine._machine_history: the severity of the last evaluation
    work,         \* the message in the handler: where it is, its row, its result
    request,      \* the request in progress, what it has read, and what was there at first
    answer        \* the last answer

tables == <<telemetry, predictions, alerts, snapshots>>
vars == <<tables, twins, history, work, request, answer>>

Now == MaxTime + 1
Idle == [at |-> "idle"]

\* Add to the end, and read the part of a table that satisfies a condition.
Where(table, Test(_)) == {i \in DOMAIN table : Test(table[i])}
Rows(table, m) == Where(table, LAMBDA r : r.machine = m)

\* What has befallen machines, alerts and samples, for MaxEvents: those whose handling is
\* over have a prediction and a snapshot each.
Offline == Cardinality(Where(snapshots, LAMBDA s : s.state = "OFFLINE"))
Events ==
    LET handled == Len(telemetry) - (IF work.at = "idle" THEN 0 ELSE 1)
        shown   == Len(snapshots) - Offline
    IN  Offline + Cardinality(Where(alerts, LAMBDA a : a.status # "OPEN")) + handled - shown
Befalls == Events < MaxEvents

-----------------------------------------------------------------------------
(* The MQTT thread *)

Accepted == [topic \in Machines |-> {message \in Messages : validate(message, topic).valid}]
ASSUME ModelsAssumption ==
    \A topic \in Machines : \A message \in Accepted[topic] :
      LET made == Models[telemetry_to_feature_df(message)]
      IN  made.p \in 0 .. 100 /\ made.a \in (0 .. 100) \cup {None, Fails}

Rejected == UNION {Messages \ Accepted[topic] : topic \in Machines}

\* A sample on the topic of a machine is persisted; late ones have earlier times.
Persist(topic) ==
    /\ work.at = "idle" /\ Len(telemetry) < MaxRows
    /\ \E ts \in 1 .. MaxTime, message \in Accepted[topic] :
         telemetry' = Append(telemetry, normalize_telemetry(message, ts))
    /\ work' = [at |-> "infer", row |-> Len(telemetry')]
    /\ UNCHANGED <<predictions, alerts, snapshots, twins, history, request, answer>>

\* _rejected: any other is logged and dropped.
Reject ==
    /\ work.at = "idle" /\ Rejected # {}
    /\ UNCHANGED vars

Row == telemetry[work.row]

\* run_inference: the result for the payload, of which the row has all that counts. The
\* alerts its check will find OPEN are a history: no column has them.
Result ==
    LET features == telemetry_to_feature_df(Row)
        x == Counted(Row, predict_risk(features), predict_anomaly(features))
    IN  [machine |-> Row.machine, ts |-> Row.ts, score |-> compute_health_score(x),
         state |-> determine_health_state(x), band |-> classify_risk_band(x.p),
         alarm |-> alert(x, history[Row.machine]),
         advice |-> generate_recommendation(x, explain(features)), found |-> {}]

\* The model is not loaded, or fails: there is a row, and nothing else.
InferenceFails ==
    /\ work.at = "infer" /\ Befalls
    /\ work' = Idle
    /\ UNCHANGED <<tables, twins, history, request, answer>>

Infer ==
    /\ work.at = "infer"
    /\ work' = [at |-> "predict", row |-> work.row, result |-> Result]
    /\ history' = [history EXCEPT ![Row.machine] = Result.alarm.severity]
    /\ UNCHANGED <<tables, twins, request, answer>>

\* Mutant: an OPEN alert of any type is enough.
OpenAlertAny(r) ==
    Where(alerts, LAMBDA a : a.machine = r.machine /\ a.status = "OPEN")

OpenAlert(r) ==
    Where(alerts, LAMBDA a : /\ a.machine = r.machine /\ a.status = "OPEN"
                             /\ a.type = r.alarm.type)

\* persist_prediction, to its query: an alarming result looks for an OPEN alert of its type.
CheckAlert ==
    /\ work.at = "predict"
    /\ work' = [work EXCEPT !.at = "commit",
                  !.result.found = IF work.result.alarm.severity \in Alarming
                                     THEN OpenAlert(work.result) ELSE {}]
    /\ UNCHANGED <<tables, twins, history, request, answer>>

\* To its commit: the prediction, and an alert if it is alarming and none was found,
\* whatever has become of those that were: the query locks no row.
PersistPrediction ==
    /\ work.at = "commit"
    /\ LET r == work.result
       IN  /\ predictions' = Append(predictions, r)
           /\ alerts' = IF r.alarm.severity \in Alarming /\ r.found = {}
                          THEN Append(alerts, [machine |-> r.machine, type |-> r.alarm.type,
                                               severity |-> r.alarm.severity, ts |-> r.ts,
                                               status |-> "OPEN", left |-> 0])
                          ELSE alerts
    /\ work' = [work EXCEPT !.at = "twin"]
    /\ UNCHANGED <<telemetry, snapshots, twins, history, request, answer>>

\* The query fails, or the commit.
PredictionFails ==
    /\ work.at \in {"predict", "commit"} /\ Befalls
    /\ work' = Idle
    /\ UNCHANGED <<tables, twins, history, request, answer>>

Shown(r) == [machine |-> r.machine, ts |-> r.ts, score |-> r.score, state |-> r.state,
             band |-> r.band]

Unfed(m) == [machine |-> m, ts |-> Now, score |-> None, state |-> "OFFLINE", band |-> None]

\* A snapshot's columns, beside the twin itself.
Column(twin) ==
    [machine |-> twin.machine, ts |-> twin.ts, state |-> twin.state, payload |-> twin,
     score |-> IF twin.score = None THEN 0 ELSE twin.score]

\* The twin is replaced, and its snapshot stored, if that does not fail.
UpdateTwin ==
    /\ work.at = "twin"
    /\ twins' = [twins EXCEPT ![work.result.machine] = Shown(work.result)]
    /\ \/ snapshots' = Append(snapshots, Column(Shown(work.result)))
       \/ Befalls /\ snapshots' = snapshots
    /\ work' = Idle
    /\ UNCHANGED <<telemetry, predictions, alerts, history, request, answer>>

\* mark_offline keeps the score. A machine that is not in memory, as after a restart, has
\* none; the snapshot's column then says 0, and its time is that of the message. Bound:
\* once per twin.
MarkOffline(m) ==
    /\ work.at = "idle" /\ Befalls
    /\ twins[m] # None => twins[m].state # "OFFLINE"
    /\ twins' = [twins EXCEPT ![m] = IF @ # None THEN [@ EXCEPT !.state = "OFFLINE"]
                                     ELSE Unfed(m)]
    /\ snapshots' = Append(snapshots, Column(twins'[m]))
    /\ UNCHANGED <<telemetry, predictions, alerts, history, work, request, answer>>

\* An operator acknowledges or resolves it; it had seen so many predictions.
Leaves(i) ==
    /\ alerts[i].status = "OPEN" /\ Befalls
    /\ alerts' = [alerts EXCEPT ![i].status = "ACKNOWLEDGED", ![i].left = Len(predictions)]
    /\ UNCHANGED <<telemetry, predictions, snapshots, twins, history, work, request, answer>>

\* The process ends between two of its steps, and starts.
Restart ==
    /\ ~(work.at = "idle" /\ \A m \in Machines : twins[m] = None /\ history[m] = None)
    /\ work.at # "idle" => Befalls
    /\ work' = Idle /\ request' = Idle
    /\ twins' = [m \in Machines |-> None] /\ history' = [m \in Machines |-> None]
    /\ UNCHANGED <<tables, answer>>

-----------------------------------------------------------------------------
(* get_machine_history *)

\* Bound: one request and its answer, since requests change nothing.
Ask(r) == answer = Idle /\ request = Idle /\ request' = r /\ UNCHANGED answer
Answer(a) == answer' = a /\ request' = Idle

\* Of two rows of one time the one stored first comes first.
Before(table, i, j) == table[i].ts < table[j].ts \/ (table[i].ts = table[j].ts /\ i < j)

Earliest(table, ids) ==
    [n \in 1 .. Cardinality(ids) |->
       CHOOSE i \in ids : Cardinality({j \in ids : Before(table, j, i)}) = n - 1]

InWindow(table, m, from) == Where(table, LAMBDA r : r.machine = m /\ r.ts >= from)

Points(table, m, from) ==
    LET ids == Earliest(table, InWindow(table, m, from))
    IN  [i \in DOMAIN ids |-> [ts |-> table[ids[i]].ts, score |-> table[ids[i]].score,
                               state |-> table[ids[i]].state]]

\* The predictions of the window, and then its snapshots.
HistoryPredictions(m) ==
    /\ \E from \in 1 .. MaxTime :
         Ask([at |-> "history", machine |-> m, from |-> from,
              points |-> Points(predictions, m, from)])
    /\ UNCHANGED <<tables, twins, history, work>>

\* Without snapshots the predictions stand in. Then all is computed.
HistorySnapshots ==
    /\ request.at = "history"
    /\ LET m == request.machine
           from == request.from
           points == IF InWindow(snapshots, m, from) # {} THEN Points(snapshots, m, from)
                     ELSE request.points
       IN  Answer([at |-> "history", from |-> from, points |-> points,
                   warning |-> time_warning(points), critical |-> time_critical(points),
                   trend |-> IF Len(points) > MaxPoints
                               THEN _downsample_health(points, from, Now) ELSE <<>>])
    /\ UNCHANGED <<tables, twins, history, work>>

-----------------------------------------------------------------------------
(* get_fleet_history: machine by machine the twin, then two counts of alerts *)

\* ORDER BY ts DESC LIMIT 1: whichever of two of one time.
Latest(table, m) ==
    {i \in Rows(table, m) : \A j \in Rows(table, m) : table[j].ts <= table[i].ts}

\* get_latest_twin: memory, else the latest snapshot.
LatestTwin(m) ==
    IF twins[m] # None THEN {twins[m]}
    ELSE IF Rows(snapshots, m) = {} THEN {[state |-> "OFFLINE", score |-> None]}
    ELSE {snapshots[i].payload : i \in Latest(snapshots, m)}

\* What has been said so far, and of one machine more.
Said(m, what) ==
    [k \in DOMAIN request.said \cup {m} |-> IF k = m THEN what ELSE request.said[k]]

FleetStart ==
    /\ Ask([at |-> "fleet twin", left |-> Machines, said |-> <<>>, first |-> Len(alerts)])
    /\ UNCHANGED <<tables, twins, history, work>>

FleetTwin ==
    /\ request.at = "fleet twin"
    /\ \E m \in request.left : \E twin \in LatestTwin(m) :
         request' = [at |-> "fleet critical", left |-> request.left \ {m}, first |-> request.first,
                     machine |-> m,
                     said |-> Said(m, [state |-> twin.state,
                                       tally |-> health_distribution(twin.score, None),
                                       count |-> Cardinality(Rows(alerts, m)),
                                       critical |-> 0])]
    /\ UNCHANGED <<tables, twins, history, work, answer>>

Critical(m) == Where(alerts, LAMBDA a : a.machine = m /\ a.severity = "CRITICAL")

FleetCritical ==
    /\ request.at = "fleet critical"
    /\ LET said == [request.said EXCEPT ![request.machine].critical =
                      Cardinality(Critical(request.machine))]
       IN  IF request.left = {}
             THEN Answer([at |-> "fleet", said |-> said, first |-> request.first,
                          last |-> Len(alerts)])
             ELSE /\ request' = [at |-> "fleet twin", left |-> request.left, said |-> said,
                                 first |-> request.first]
                  /\ UNCHANGED answer
    /\ UNCHANGED <<tables, twins, history, work>>

-----------------------------------------------------------------------------
(* get_machines: of each machine the twin in memory, else the snapshot's columns *)

Summary(state, score) == [state |-> state, score |-> score]

Summaries(m) ==
    IF twins[m] # None THEN {Summary(twins[m].state, twins[m].score)}
    ELSE IF Rows(snapshots, m) = {} THEN {Summary("OFFLINE", None)}
    ELSE {Summary(snapshots[i].state, snapshots[i].score) : i \in Latest(snapshots, m)}

MachinesStart ==
    /\ Ask([at |-> "machines", left |-> Machines, said |-> <<>>])
    /\ UNCHANGED <<tables, twins, history, work>>

ListMachine ==
    /\ request.at = "machines"
    /\ \E m \in request.left : \E summary \in Summaries(m) :
         LET said == Said(m, summary)
         IN  IF request.left = {m} THEN Answer([at |-> "machines", said |-> said])
             ELSE /\ request' = [request EXCEPT !.left = @ \ {m}, !.said = said]
                  /\ UNCHANGED answer
    /\ UNCHANGED <<tables, twins, history, work>>

(* get_machine: the twin, then the latest sample, then the latest prediction *)

DetailTwin(m) ==
    /\ \E twin \in LatestTwin(m) :
         Ask([at |-> "detail sample", machine |-> m, twin |-> twin])
    /\ UNCHANGED <<tables, twins, history, work>>

\* The time of the latest row; 0 where there is none.
LatestTime(table, m) ==
    IF Rows(table, m) = {} THEN 0 ELSE table[CHOOSE i \in Latest(table, m) : TRUE].ts

DetailSample ==
    /\ request.at = "detail sample"
    /\ request' = [at |-> "detail prediction", machine |-> request.machine,
                   twin |-> request.twin, sample |-> LatestTime(telemetry, request.machine)]
    /\ UNCHANGED <<tables, twins, history, work, answer>>

DetailPrediction ==
    /\ request.at = "detail prediction"
    /\ Answer([at |-> "detail", twin |-> request.twin, sample |-> request.sample,
               prediction |-> LatestTime(predictions, request.machine)])
    /\ UNCHANGED <<tables, twins, history, work>>

-----------------------------------------------------------------------------
(* The listings, page after page: of a machine, or of the fleet's alerts *)

get_telemetry(m)    == Rows(telemetry, m)
get_predictions(m)  == Rows(predictions, m)
get_twin_history(m) == Rows(snapshots, m)

\* The filter is the status, or acknowledged, which is one of two.
get_alerts(ms, statuses) ==
    Where(alerts, LAMBDA a : a.machine \in ms /\ a.status \in statuses)

Listed(what, ms) ==
    CASE what = "telemetry"   -> UNION {get_telemetry(m) : m \in ms}
      [] what = "predictions" -> UNION {get_predictions(m) : m \in ms}
      [] what = "snapshots"   -> UNION {get_twin_history(m) : m \in ms}
      [] what = "open"        -> get_alerts(ms, {"OPEN"})
      [] OTHER                -> get_alerts(ms, {"OPEN", "ACKNOWLEDGED"})

TimeOf(what, i) ==
    CASE what = "telemetry"   -> telemetry[i].ts
      [] what = "predictions" -> predictions[i].ts
      [] what = "snapshots"   -> snapshots[i].ts
      [] OTHER                -> alerts[i].ts

\* Mutant: rows of one time come in any order.
NewerByTime(what, i, j) == TimeOf(what, i) > TimeOf(what, j)

\* ORDER BY ts DESC; of the samples, and of no other, also seq DESC.
Newer(what, i, j) ==
    \/ TimeOf(what, i) > TimeOf(what, j)
    \/ what = "telemetry" /\ TimeOf(what, i) = TimeOf(what, j) /\ i > j

\* The rows in an order the query may return them in.
Orders(what, ids) ==
    {q \in SetToSeqs(ids) : \A i, j \in DOMAIN q : i < j => ~Newer(what, q[j], q[i])}

\* The alerts that have been left.
Gone == Where(alerts, LAMBDA a : a.status # "OPEN")

Asked(what, ms) ==
    Ask([at |-> "page", what |-> what, machines |-> ms, first |-> Listed(what, ms),
         gone |-> Gone, seen |-> {}, offset |-> 0])

PageStart(m) ==
    /\ \E what \in Listings.machine : Asked(what, {m})
    /\ UNCHANGED <<tables, twins, history, work>>

\* list_alerts: of the whole fleet.
FleetAlerts ==
    /\ \E what \in Listings.fleet \cap {"alerts", "open"} : Asked(what, Machines)
    /\ UNCHANGED <<tables, twins, history, work>>

\* A page, until one is not full.
Page ==
    /\ request.at = "page"
    /\ \E order \in Orders(request.what, Listed(request.what, request.machines)) :
         LET items == SubSeq(order, request.offset + 1,
                             Least(request.offset + PageSize, Len(order)))
             seen  == request.seen \cup ToSet(items)
         IN  IF Len(items) < PageSize
               THEN Answer([at |-> "pages", what |-> request.what, first |-> request.first,
                            last |-> Listed(request.what, request.machines), seen |-> seen,
                            left |-> Gone \ request.gone])
               ELSE /\ request' = [request EXCEPT !.seen = seen, !.offset = @ + PageSize]
                    /\ UNCHANGED answer
    /\ UNCHANGED <<tables, twins, history, work>>

-----------------------------------------------------------------------------
(* get_drift_report *)

Since(cutoff) == Where(telemetry, LAMBDA r : r.ts >= cutoff)

\* Mutant: too few rows in the window are as good as none.
DriftWindowAny(cutoff) == Cardinality(Since(cutoff)) >= MinSample

DriftWindow(cutoff) == Since(cutoff) # {}

\* The rows of the window; where there are none, another query for all.
DriftQuery ==
    /\ \E cutoff \in 1 .. Now :
         Ask([at |-> "drift", cutoff |-> cutoff, first |-> Since(cutoff),
              rows |-> IF DriftWindow(cutoff) THEN Since(cutoff) ELSE {}])
    /\ UNCHANGED <<tables, twins, history, work>>

DriftReport ==
    /\ request.at = "drift"
    /\ LET rows == IF request.rows # {} THEN request.rows ELSE DOMAIN telemetry
       IN  \E st \in Statistics :
             Answer([at |-> "drift", cutoff |-> request.cutoff, first |-> request.first,
                     rows |-> rows, st |-> st,
                     report |-> generate_drift_report(Cardinality(rows), st)])
    /\ UNCHANGED <<tables, twins, history, work>>

-----------------------------------------------------------------------------
Init ==
    /\ telemetry = <<>> /\ predictions = <<>> /\ alerts = <<>> /\ snapshots = <<>>
    /\ twins = [m \in Machines |-> None] /\ history = [m \in Machines |-> None]
    /\ work = Idle /\ request = Idle /\ answer = Idle

Ingest ==
    \/ \E m \in Machines : Persist(m) \/ MarkOffline(m)
    \/ Reject \/ Infer \/ InferenceFails
    \/ CheckAlert \/ PersistPrediction \/ PredictionFails \/ UpdateTwin

Read ==
    \/ \E m \in Machines : HistoryPredictions(m) \/ DetailTwin(m) \/ PageStart(m)
    \/ HistorySnapshots \/ FleetStart \/ FleetTwin \/ FleetCritical
    \/ MachinesStart \/ ListMachine \/ DetailSample \/ DetailPrediction
    \/ FleetAlerts \/ Page
    \/ DriftQuery \/ DriftReport

Next == Ingest \/ Read \/ Restart \/ \E i \in DOMAIN alerts : Leaves(i)

Spec == Init /\ [][Next]_vars

-----------------------------------------------------------------------------
(* Properties *)

\* For every stored prediction that calls for an alert, or for urgent action, there is an
\* alert of its machine, its type and its severity that was raised by then and has not been
\* taken from the operators' list before. persist_prediction allows one exception, and this
\* no other: an alert that the prediction's own query found OPEN and that was taken off the
\* list between the query and the commit. Such a prediction raises none.
AlarmsCover ==
    \A i \in DOMAIN predictions :
      LET r == predictions[i]
      IN  r.alarm.severity \in Alarming \/ r.advice.urgency \in {"HIGH", "IMMEDIATE"} =>
            \E k \in DOMAIN alerts :
              LET a == alerts[k]
              IN  /\ a.machine = r.machine /\ Alarm(a.severity, a.type) = r.alarm
                  /\ a.severity \in Alarming
                  /\ \/ a.status = "OPEN" \/ a.left >= i
                     \/ k \in r.found /\ a.left = i - 1

\* A machine's history does not lose an alarm by thinning its trend: a CRITICAL point has
\* its bucket CRITICAL and a WARNING one does not have it HEALTHY, the buckets stay inside
\* the window, and the times do not add up to more than the window.
TrendKeepsAlarms ==
    answer.at = "history" =>
      LET trend == answer.trend
          span  == Now - answer.from
      IN  /\ answer.warning + answer.critical <= span
          /\ DOMAIN trend \subseteq 0 .. MaxPoints - 1
          /\ trend # <<>> => \A p \in ToSet(answer.points) : \E b \in DOMAIN trend :
               /\ b * span <= (p.ts - answer.from) * MaxPoints
               /\ b = MaxPoints - 1 \/ (p.ts - answer.from) * MaxPoints < (b + 1) * span
               /\ p.state = "CRITICAL" => trend[b] = "CRITICAL"
               /\ p.state = "WARNING" => trend[b] # "HEALTHY"

\* What a page shows belongs together, though several queries tell it. On the fleet's pages
\* a machine shown HEALTHY has a good score, one without a score is OFFLINE, and none has
\* more critical alerts than alerts, unless one was raised between the two counts; on a
\* machine's page the twin is not ahead of the sample and the prediction beside it.
ViewsAgree ==
    /\ answer.at = "fleet" =>
         \A m \in Machines :
           LET s == answer.said[m]
           IN  /\ s.state = "HEALTHY" => s.tally = "healthy"
               /\ s.tally = "offline" => s.state = "OFFLINE"
               /\ answer.first = answer.last => s.critical <= s.count
    /\ answer.at = "machines" =>
         \A m \in Machines :
           LET s == answer.said[m]
           IN  IF s.score = None THEN s.state = "OFFLINE"
               ELSE s.state = "HEALTHY" => s.score >= 8000
    /\ answer.at = "detail" /\ answer.twin.score # None =>
         answer.twin.ts <= answer.sample /\ answer.twin.ts <= answer.prediction

\* What arrives, also late, while someone pages through a listing makes him see some rows
\* twice, and never hides one that was there when he began: but for a row of the same time
\* as another, where only the time orders them, and for alerts that have left a listing of
\* those that are OPEN, or come behind one that has, even one that came in between.
PagesComplete ==
    answer.at = "pages" =>
      \A i \in answer.first \ answer.seen :
        \/ /\ answer.what # "telemetry"
           /\ \E j \in answer.last : j # i /\ TimeOf(answer.what, i) = TimeOf(answer.what, j)
        \/ answer.what = "open" /\ \E j \in answer.left : ~Newer(answer.what, i, j)

\* A drift report gives no verdict on too few rows, takes older rows only where the window
\* had none, alerts on every feature that has moved, and is as bad as the worst of them.
DriftHonest ==
    answer.at = "drift" =>
      LET r == answer.report
          Moved(f) == answer.st[f].psi >= 25 /\ answer.st[f].count >= MinSample
      IN  /\ Cardinality(answer.rows) < MinSample
               => r.overall = "INSUFFICIENT_DATA" /\ r.alerts = {}
          /\ answer.first # {} => answer.rows = answer.first
          /\ Cardinality(answer.rows) >= MinSample => \A f \in Continuous \cup Categorical :
               Moved(f) => r.overall = "DRIFT" /\ DriftAlert(f, "CRITICAL", "PSI") \in r.alerts
=============================================================================
