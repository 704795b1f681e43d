# Formal models of EdgeTwin-AI

TLA+ modules about EdgeTwin-AI: what the edge devices, the ingestion service, the digital
twin, the health engine, the operators' requests and pages, and the governed life of the
risk model do when messages are late, repeated or lost, steps fail, several people work at
once and processes restart. TLC checks them on small instances; TLAPS proves every safety
property of the runs that hold for every value of the constants.

    tlc -config MCEdgeLink.cfg MCEdgeLink.tla      # one run; see "Runs"
    tlapm EdgeSafetyProofs.tla                     # one set of proofs

`PROJECT.json` holds, for the tools, what is written here for a reader: the
components, the runs, the lines each definition models (`map`), a plausible bug per
property that the property catches (`mutants`), the hazards and the findings.

## The system

    sensors -> process model -> telemetry -> ring buffer --MQTT--> Mosquitto <--MQTT-- virtual edge
                  ^ commands                                           |
                  +-------------------- MQTT -----                     v
    dashboard <-WebSocket/REST- twin <- health engine <- persistence <- MQTT ingestion
         |                                  ^ model
         +- REST -> alerts, work orders,    +--- registry <- retrain, gate, promote, roll back
                    feedback                                  ^ prepared, split data

Paths are relative to `src/`.

| Component | State it keeps | Operations | Interaction | Hard behaviour | What makes it correct |
|---|---|---|---|---|---|
| Ring buffer, `edge/ring_buffer.cpp` | slots, head, tail, count | push, peek, dropFront, pop, clear | called by `firmware.ino` | wrap-around; full | a FIFO that drops its oldest; never reads an unwritten slot |
| Process model and commands, `edge/process_model.cpp`, `edge/command.cpp` | state, trip, lamp, measured values, overload timer | update (1 Hz), start, stop, reset, injectScenario | loop() and MQTT callback of one thread | `millis()` wraps; commands in any order; stale timer | trips in time; trip is shown; no reset while unsafe |
| Telemetry path, `edge/firmware.ino`, `edge/telemetry.cpp` | seq, payload, ring buffer, connection | tick, connect, announce, flush, publish | MQTT QoS 1, retained status, last will | lost acknowledgements, bounded flush, reboot | nothing lost but what the bound gives up; status right; backlog drains |
| Virtual edge, `simulation/virtual_edge.py`, `simulation/process_model.py` | deque, seq, paho's queue, simulated machine | step, flush, connect, disconnect | main thread and paho's thread | two threads flush one deque; goodbye races a reconnection | as the firmware's path; a scenario trips in time |
| MQTT ingestion, `api/app/ingest/`, `simulation/contract.py` | session, `_connected` | connect, message, validate, disconnect | paho's thread calls `handle_message` | redelivery, clean session | each sample processed once |
| Prediction and alerts, `api/app/inference/persistence.py` | predictions, alerts tables | process_and_persist | after telemetry, own transaction | fails between two commits; check then insert | one prediction per row, one OPEN alert per type |
| Inference and health, `api/app/inference/`, `ml/models/health.py` | severity of the last evaluation | predict, score, classify, alert, advise | called by `handle_message` | precedence; memory lost in restarts | no alarm is swallowed, but by an alert that leaves as it is found |
| Digital twin, `api/app/twin/` | `_states` in memory, `twin_snapshots` | update_from_inference, mark_offline, snapshot, query | written by ingestion, read by REST and WebSocket | two copies; restart | a LIVE answer rests on committed rows; no state is replayed |
| Read-only REST, `api/app/services/`, `mlops/drift.py` | none | history, fleet, machine, listing and drift pages | several queries per answer | rows come between two queries or two pages | parts of an answer agree; a page hides nothing; no verdict on too little |
| WebSocket and dashboard, `api/app/ws/`, `dashboard/src/` | connected clients; token, sockets, timer, page | login, connect, snapshot, reconnect, dispose | event loop; browser | late closes of replaced sockets, expiry, restarts | the page never goes back and connects again |
| Operations, `api/app/services/`, `api/app/routes/` | alerts, work orders, feedback, users | login and role check, acknowledge, resolve, feedback, create, update | concurrent requests on PostgreSQL | read, check, write without a lock | times are kept; one feedback per alert |
| Governance, `mlops/` | registry, aliases, audit log, artifacts | retrain, register, gate, promote, rollback, load | MLflow; the engine loads by alias | two writers, crash between any two steps | only what the gate asks for is promoted, and it is recorded |
| Training data, `ml/data/` | prepared and split files | prepare, split, save, load | read by retraining while it may be rewritten | files of two generations | training and validation share nothing |
| Model evaluation, `ml/models/` | none | count, sweep thresholds, choose threshold, calibration, champion | called by the training scripts | ties, bounds, empty classes, missing scores | what is chosen is what its name says; the bands are the alarms |
| Scenario route, scripts, notebooks | none | | | | not modelled, see the end |

## Modules

| Module | Models | Form |
|---|---|---|
| `BoundedFifo` | what a store-and-forward buffer promises | abstract specification |
| `RingBuffer` | `TelemetryRingBuffer` | array, two indices, count; refines `BoundedFifo` |
| `EdgeSafety` | `EdgeProcessModel`, `EdgeCommandProcessor`, the tick that drives them | machine record; one operator per method; three actions |
| `EdgeLink` | loop(), connectMQTT(), flushBufferedTelemetry(), broker and network | one action per step and outcome; buffer is an instance of `BoundedFifo` |
| `SimulatedMachine`, `VirtualEdge` | the Python edge: its machine and scenarios; its two threads, paho, broker | one operator per step of the machine; one action per access to deque, queue and broker |
| `IngestTwin` | ingestion client, `handle_message`, persistence, twin, snapshots, query | one action per transaction and per outcome |
| `Contract`, `HealthRules` | `TelemetryValidator`, normalizer, features; score, state, alert, recommendation | functions of a message, of the models' output |
| `Analytics` | arithmetic of `history_service.py` and `mlops/drift.py` | functions of rows |
| `Monitoring` | from a stored sample to alerts, twin and snapshots, and the read-only requests | one action per step and per query; uses the four above |
| `LiveView` | AuthContext, TwinWebSocketClient, the API's end of a socket | one action per event |
| `Operations` | requests that write | one action per statement |
| `TrainingData` | `prepare.py`, `splits.py`, feature sets and the leakage guard | functions of dataframes |
| `ModelEvaluation` | what `ml/models` decides from the output of a fitted model | functions of labels, probabilities and metrics; uses `TrainingData` |
| `Governance` | data pipeline, `retrain.py`, `register.py`, `promote.py`, `ModelEngine` | one action per access to file, registry or log; uses `TrainingData` |
| `RingBufferProofs`, `EdgeSafetyProofs`, `EdgeLinkProofs`, `VirtualEdgeProofs`, `IngestTwinProofs`, `MonitoringProofs`, `ConsoleProofs`, `GovernanceProofs` | | proofs, the last two of `LiveView` with `Operations`, and of `Governance` with `TrainingData` and `ModelEvaluation` |
| `MC*` | | instances for TLC; `MCConsole` puts `LiveView` and `Operations` side by side |

**RingBuffer.** One action per method: every call runs to its end on the firmware's
one thread. A payload is an identity and a length, because cutting it to
`MAX_PAYLOAD_SIZE` is all that `strncpy` does to it. The refinement maps array and
indices to the sequence `Contents`.

**EdgeSafety.** A method is an operator from a machine to a machine, so that a command
composes them as the code does. Physical values are kept to what the rules compare:
more than 45 C above the air (`hot`), the current in three bands split at 32 A and 45 A,
vibration above 15 mm/s (`shaking`). What a tick measures is any reading. Time is in
seconds on a clock that wraps modulo `ClockSpan`. `latched`, `overRun` and
`hazardTicks` are histories, read by properties only.

**EdgeLink.** `pc` says where the single thread is; the broker's half (`session`,
`status`, `received`) changes between any two of its steps. A publish that fails may
have reached the broker or not. A tick whose payload does not fit its buffer publishes
nothing and is a stutter here. The text of the JSON is left out.

**IngestTwin.** The state of one machine, handled by one API process, whose paho
thread handles one message at a time; `pc` is its place in `handle_message`. Every
transaction is one action, with another for its failure; `Restart` may come between
any two. The edge and the broker are the environment, as `EdgeLink` describes them:
any sample of the backlog may arrive, repeatedly, and after `EdgeReboot` numbers
restart from 0. `produced` doubles as the wall clock that orders timestamps. Not in the
model: a commit of telemetry that succeeds although the client sees it fail, WebSocket
callbacks, `tick_staleness` (which nothing calls), and SQLite, which does not enforce
the foreign key that refuses a snapshot of an unregistered machine.

**VirtualEdge.** Of paho, what the code relies on: a QoS 1 message is kept until
acknowledged and sent again after a reconnection, publishing without a socket makes
`wait_for_publish` raise, and nothing is read or written while a callback runs. The two
flushes, in `step` and in `_on_connect`, peek and pop one deque. `evicted`, `strained` and
`late` are histories. A machine's step is an operator of `SimulatedMachine`; a scenario is
the step it triggers at, its fault's trip and the delay to it.

**Monitoring.** `Contract` says which messages pass and what they are made into,
`HealthRules` what a row of features comes to, with the models' numbers as inputs:
probabilities in percent, scores in hundredths. A request begins at any time and runs
its queries one by one, the MQTT thread between them; `request` keeps what it has read and
what was there at first, for the properties. Out-of-range flags of the validator are
dropped by the handler, as in the code. The machine list takes a score from the last
snapshot's column, which is 0 without a score, the machine and fleet pages from its
payload, which has none. PSI and the KS statistic are inputs. `persist_prediction` is two
steps, its query for an OPEN alert (`CheckAlert`) and its commit (`PersistPrediction`),
since nothing is locked in between; `found`, what the query found, stays in the stored row as
a history.

**LiveView.** A socket has two ends, which learn of a break separately. The API sends a
snapshot at the start of a socket and then nothing: see the finding on the event loop.
What `Answered` does is in the code's order, so a 401 that comes late ends a new session.

**Operations.** A request reads its user, reads and checks what it changes, and writes the
columns that differ from what it read, as SQLAlchemy does; another may be at any
of these places. Texts, names and times are left out but for a time being there or not.
Feedback on a prediction alone is a row without an alert, which is all the code stores of it.

**Governance.** Every access to a file, to the registry or to the log is a step; an
operation may fail or die before any of them. A training comes to any recall, precision and
soundness. `stale`, in a job, is a history: which of the things it has read others
have changed since. The local model file, `artifact`, has beside the model whose it is and as
which version that model was registered, as histories: the code knows neither. A
registration writes the file before it registers, and the engine, which takes the file if it is
there, reports the constant `LocalLabel` for it. The datasets are real rows: `Dataset` is
computed by `TrainingData` from `RawData`. Noise that breaks ties of the ranking is a `CHOOSE`. Readings out of range
are nullified here and fed to the model as they are when serving.

**ModelEvaluation.** No state: each function of `ml/models` that decides something is an
operator of the same name, and what it promises a formula of its inputs. Probabilities
and scores are in percent; a ratio is a pair of integers, compared without
rounding, where the code has a float. Areas under curves come with a result. The named
assumptions of `MCGovernance` have TLC evaluate each promise on all small inputs;
`GovernanceProofs` proves six of them.

## Runs

| Run | Question | Bounds, and why they are enough |
|---|---|---|
| `ring_buffer` | Do array, indices and count implement the FIFO? | Three slots wrap at every offset; a payload that fits and one that is cut. 4,381 states |
| `edge_safety` | Does the edge trip in time, show why, and reset only when safe, under any ticks, commands, reboots and clock wraps? | Delay 4, clock of 9 s: an overload starts at every distance from the wrap. Gap up to 2, ramp 2. Every accepted command and one per rejection. 106,885 states |
| `edge_link` | Is anything lost, reordered or misreported over an unreliable link, and does the backlog drain? | Buffer of 2, flush of 1, four samples told apart: the buffer overflows, a backlog outlasts a flush, a live sample overtakes. Later samples are all `MaxSeq`, so behaviours go on for ever. 23,246 states |
| `virtual_edge` | The same for the Python edge's two threads; do scenarios trip in time? | Deque of 2 and three samples: it overflows while either thread flushes. One break, one wait given up: each thread meets each. A scenario whose fault begins in the ramp, and one that falls silent. 369,898 states |
| `ingest_twin` | Do answers rest on committed rows, is nothing processed twice? | Two samples and an inbox of two: overtaking, redelivery, reuse of a number after a reboot. About a million states |
| `monitoring` | Is an alarm swallowed on the way from a message to what operators read, and do answers made of several queries hold together? | Two machines, two sensors; four kinds of accepted messages and the rejected ones; two samples at two times, in any order; pages of one row, trends of two buckets; one thing that befalls (machine silent, alert left, row not handled, restart in mid-work). One request and its answer: a request writes nothing, so a second one meets what the first could have. 1,159,519 states |
| `console` | What does a page show over expiring sessions, breaks and restarts; what do concurrent requests make of one alert? | Two tokens, two sockets, one call, one break: an old socket closes after the new one opened. Two request slots, three requests, two alerts: two requests between each other's check and write, and a third that finds the result. 235,631 states; the halves share no variable, so a behaviour takes one |
| `governance` | What do gate, audit log, training data and served model guarantee when two people work at once and anything may die? | Two users with one operation each at a time, two in all: every pair interleaves at every step. Two generations of a dataset of seven machines, with duplicates, rows out of range, an unknown prefix, and rankings in opposite order; a training that passes the gates, one that is worse by more than the margin, one too imprecise and unsound. 1,010,597 states |
| `edge_latch`, `edge_sustained`, `twin_recent`, `twin_revives` | Documented claims the code does not meet | as above, `edge_sustained` with STOP and START as the only commands; each ends in a counterexample |

What the properties say is written above each of them in its module. Users and machines
are symmetric where no liveness property is checked. Deadlock checking is off in
`virtual_edge` (the edge's process ends), `console` (no more logins or requests within the
bounds) and `governance` (no more operations); `monitoring` is cut after one answer by
a state constraint, so that its states have successors all the same.

**Fairness.**

- `EdgeLink`, `BacklogDrains`: weak fairness of `Loop`, because loop() runs for ever and
  none of its steps blocks for good (connect and publish have timeouts); strong fairness of
  `TickReconnect`, because an offline edge tries again every 5 s; and strong fairness of
  `ConnectSucceeds` and `FlushAcked`, the assumption about the network: tried again and
  again, it lets a connection, and a publish, through. Without the last two an edge that
  is never online keeps its backlog, rightly.
- `VirtualEdge`, `Delivered`: weak fairness of each thread, which the operating system
  schedules. paho's loop reconnects by itself and the breaks are bounded, so the network
  needs no assumption of its own. A wait given up, a disconnection, a break and a kill are
  outside the fairness: they need never happen.
- `LiveView`, `Reconnects`: weak fairness of rendering, of the reconnection timer and of
  each socket's events, all of which the browser's and the server's event loops run. Breaks,
  logins and expiry are outside of it.

## Findings

With a run, each a counterexample:

- `edge_latch`: `stop()` leaves TRIPPED for STOPPED, and START is then accepted; SCN-02,
  SCN-03 and SCN-06 leave TRIPPED as well. The documents and a native test say that only a
  reset does.
- `edge_sustained`: the overload timer survives a stop and a start, where the comment asks
  for a sustained overload. One sample at 32 A, STOP, START, the ramp's samples below 32 A,
  and the first sample at 32 A after it trips, one delay after the one before the stop.
- `twin_recent`: `update_from_inference` compares no timestamps: a sample flushed late
  from a backlog replaces the newer one the twin shows.
- `twin_revives`: a rebooted edge numbers from 0 again, and `UNIQUE(machine_id, seq)` makes
  duplicates of what it sends: the twin stays OFFLINE though telemetry arrives.

Met while reading, without a run; `PROJECT.json` quotes the line that says otherwise:

- Edge: a trip zeroes the current that the reset check then looks at; the trip limits in
  the evaluation report are not those of the code.
- Twin: nothing calls `tick_staleness`, so no twin goes STALE; the twin's WebSocket callback
  finds no event loop on paho's thread, so nothing is broadcast.
- Health: quality flags found by the validator cost no points; there is no hysteresis.
- Pages: a trend's bucket is not the worst state observed in it; CRITICAL time with a
  score above 60 counts as WARNING; an offline machine with a score is not counted offline.
- Drift: rows enough but too few readings of every feature make STABLE; `DATA_QUALITY` is
  never reported; an empty window is filled with rows of any age; the recall of the
  feedback metrics is the constant 1.0.
- Operations: two requests may both give feedback on an alert, after which reading it
  raises; ACKNOWLEDGED may be written over RESOLVED; a work order may take any status after
  any other; the alert that a prediction finds OPEN may be acknowledged before the
  prediction is committed, which then raises none; of feedback on a prediction the code
  neither stores which one it is nor refuses a second, and the metrics count both; the
  scenario route publishes nothing.
- Console: a refused token shows as 1006, not 1008, and is tried for ever.
- Governance: an alias moves before its audit entry is written; a rollback takes versions
  that never passed the gate; the gate's thresholds are not the documented ones; the
  challenger is evaluated on the data it was calibrated on; a local artifact hides the
  registry from the engine, though its docstring says the reverse, and is loaded once; it is
  reported as `edgetwin-risk:v2-champion` whatever it holds, and a registration writes it
  before the gate.
- Training: `classify_risk_band` asks for a threshold below 0.80 and checks nothing, while
  the sweep goes to 0.90: with such a one, CRITICAL rows are not alarms. The isotonic
  calibration is said to have to beat the sigmoid's by 20 %; if the sigmoid was refused it
  is compared with the raw scores.
- Training data: with four or five machines the test set is empty; a missing machine type
  with an unknown prefix stays missing.

Consequences worth knowing, which contradict no document: listings of predictions,
snapshots and alerts are ordered by time alone, so rows of equal time may be on neither of
two pages; paging through OPEN alerts while they are acknowledged skips rows; a late 401
logs a new session out.

## Proofs

`RingBufferProofs`, for every capacity, payload size and set of payloads
(`CapacityAssumption`, `PayloadAssumption`, `SentinelAssumption`): `TypeOK`,
`IndicesAgree` and `LiveSlotsWritten`, which are inductive only together: a push writes
the slot after the last live one because the indices and the count agree. From them,
`RingImplementsFifo`: each method's effect on `Contents` is the abstract operation, by
lemmas on `Slot` (arithmetic modulo the capacity), on the head of `Contents`, on dropping
it, and on appending.

`EdgeSafetyProofs`, for every delay, clock span, gap and ramp with
`TripDelay + MaxGap <= ClockSpan` (`TimeAssumption`: the clock does not wrap twice within
an overload; 10 s and seconds against 49 days): `TypeOK`, `TripAnnounced`,
`OverloadNeverOutlastsDelay`, `HazardBounded` and `ResetOnlyWhenSafe`. The invariant is

- `Sound(m)`, which every method preserves: lamp and code agree, no current without
  power, a ramp in STARTING is not yet over;
- `OverloadTimed`: a run of overloaded samples is no longer than the modular distance
  from `overload_start_ms_`, which is below the delay. `SinceGrows` is the step the
  wrap-around needs;
- `HazardTimed`: an unseen hazard is no older than the ramp.

The last two are needed because neither bound is inductive alone: that a run is shorter
than the delay says nothing of the next tick unless the run is tied to the timer.

`EdgeLinkProofs`, for every capacity, flush and bound (`LinkAssumption`): `TypeOK`,
`NothingLost`, `OldestGiveWay`, `NoIdleDuplicate`, `OnlineAnnounced`. The invariant adds
`Ordered`: all that is in the buffer, at the broker or given up is older than the next
number and than the pending one, the buffer is in order, and a buffered sample that the
broker has was sent without an acknowledgement coming back; and there is no connection while
one is being made. Without it a push into a full buffer might give
up a sample that is newer than one it keeps.

`VirtualEdgeProofs`, for every capacity, number of samples, length of the start, and set of
scenarios (`CapacityAssumption`, `SamplesAssumption`, `RampAssumption`; `ScenariosAssumption`:
a trip code belongs to a fault of the signals, as in the files of `simulation/scenarios`):
`NothingLost`, `RepeatsCaused`, `StatusTruthful`, `ScenarioTripsInTime`, and a `TypeOK` stated
there, as the one of `MonitoringProofs` is. The invariant ties the two threads together:

- `Queues` and `Threads`: paho keeps a message once, and what each thread may be doing
  given the place of the other and the connection;
- `Peeked`: the message the main thread waits for is the front of the deque until it
  is acknowledged, so that the pop after the wait removes what was sent. This is what makes
  two flushes of one deque safe. It holds because only the main thread pops: the callback
  waits on the very thread that would write its message, so its wait ends unpublished;
- `Backlog` and `Accounted`: the deque is in order, what it gave up is older, and every
  number up to `seq` is somewhere;
- `Copies`: a sample is written once unless it is `strained`. A sample in the deque
  is unpublished, awaited, or in the hands of the network thread;
- `Heard`: what the broker will hear last, `Parting`, while the main thread says goodbye;
- `Trips`: where the ramp, the trigger and the delay leave the machine.

`IngestTwinProofs`, for any alert types and any number of samples (`IngestAssumption`,
`NoneAssumption`): `TypeOK`, `LiveAnswersBacked`, `PredictedOnce`, `OneOpenAlert`,
`NoReplay`. The invariant says what is in hand at each place of `handle_message` (past the
commit, a row that is stored, not yet predicted and never shown), that only stored rows are
predicted and only predicted ones shown, and that every LIVE state, in memory and among the
snapshots, has its row and its prediction. The snapshots are needed because a restart
brings them back.

`MonitoringProofs`, for any machines, sensors, messages, models and statistics, and every
page size, number of points and span of time (that the models' numbers are percentages,
`ModelsAssumption`, and the statistics numbers, `StatisticsAssumption`; the rest says that
sizes are positive and that `None` is no value): `TypeOK`, `AlarmsCover`, `ViewsAgree`,
`PagesComplete`, `DriftHonest`, `TrendKeepsAlarms`. The invariant holds

- of every stored prediction that alarms, an alert that stands for it (`Covered`,
  `Stands`): raised by its transaction, OPEN at that time, or found OPEN by its query and
  left before its commit; of the prediction in the handler, that what its query found was OPEN then
  (`Checked`), without which the last case could be anything; and the severity remembered
  of a machine is the one its last evaluation came to (`Marked`);
- of every request under way, what its earlier queries have in common with what the tables
  hold now (`ViewsInv`). Tables only grow, so what was read stays a part of them;
- of a listing (`PageOK`), the reason why a row that was there at the first page has not been seen:
  as many rows as the pages have taken come before it, or a row of equal time or
  one that left has shifted it. That the rows are ranked, `Earliest`, and counted, is by
  the lemmas on ranks in a finite set;
- of a history (`HistoryInv`), that its points are sorted, so that the sums of their
  gaps are at most the window.

Two attempts failed for good reasons, and changed the model. `HealthRules.alert` had two
arms that overlapped, of which a `CASE` may take either and the code takes the
first: the recovery now requires the state to be HEALTHY. And `PagesComplete` said that a
row is missing only if another one of its time is there at the end; that is false of
OPEN alerts, from which the other one may have left, at bounds the run does not reach.

`ConsoleProofs`, of `Operations`, for any users, requests and alerts (`OpsAssumption`):
`LifecycleKept`, of alerts and work orders, and `FeedbackOnce`. The invariant dates rows, in
the tables and as requests
have read them: what a request read has no time that its row lacks, and the feedback it
found was there before anything written since. A write of the columns that differ can then
take nothing back that it has not seen. And of `LiveView`, for any number of tokens, sockets,
calls, breaks and updates (`LiveAssumption`): `OneSocketHeard` and `ViewForward`. The
invariant `PageInv` says that only the client's own socket has handlers
(`OneAttached`), which `cleanup`, called before a socket is made or given up, secures, and that
a socket carries at most one snapshot, not newer than the last update and, if the socket is
heard, not older than the page (`Snapshots`). What the page shows could otherwise be
taken back by the close or the snapshot of a socket that was replaced.

`GovernanceProofs`, for any users, trainings, generations and number of operations
(`GovernanceAssumption`: a first dataset, integer row labels and the columns the code
reads, integer metrics, and `NaN` is no user): `TypeOK`, `PromotionsProtected`, `AuditAgrees`,
`RetrainingsKeptApart`, `TrainingDataSound`, `ServedModelKnown`. The invariant is, for each
job, `Fits`: where it may be and what it holds there, and that what it has read still
holds unless `stale` says it was told of a change (`ReadsAgree`, `OwnLatest`, `AliasesKept`), that a promotion past its gate brings
what the gate asked for (`Gated`), and that a move about to be logged was made
(`MoveMade`); with the lineage of every version and the engine's two look-ups. Beside it, `FileInv`
follows the local file: as long as it has a writer, that is a registration about to register
what it holds, which the others leave alone (`OthersGoOn`); so what was registered from a file
is the training it holds, when the engine copies it and afterwards. Each
property relates the end of an operation to its beginning, so none is inductive without
what the operation carries in between.

Of the data, for every dataset and every fraction: `SplitsShareNoMachine`, from the split of
a row being that of its machine, on which `TrainingDataSound` rests, and
`PreparedRepeatsNullified`, because duplicates are removed before readings out of range are
nullified. Of `ModelEvaluation`, for any rows and any sweep: `ThresholdsTradeOff`, by
the cardinalities of the four sets of rows; `DearerMissesAreFewer`, by exchanging two
choices, each the cheaper at its own ratio (`Exchange`), after showing that the `CHOOSE` of
`Best` has a witness in spite of ties (`FirstOfLeast`: the order is by cost, misses and
false alarms, since for one set of labels recall orders as misses do, `RecallByMisses`);
`ChampionIsBest` likewise; `CalibrationNeverHarms`, `BandsAreAlarms` (for a threshold up to
0.80, which the code documents and does not check) and `ScoresKeepOrder`.

Model-checked only: what is live, `BacklogDrains`, `Delivered` and `Reconnects`, which rests
on fairness and is out of this prover's reach. Of `ModelEvaluation`, the choices by F1
(`TargetsMet`), the sums over failure types (`FailureTypes`) and over bins (`Bins`), which
need induction over data, as does what the fold in `_assign_machines_to_splits` deals each
split (its quota); nothing proved depends on them.

## Not modelled

- Numbers: fitting of models and calibrators, areas under curves, SHAP, PSI, the KS test.
  What they may come to are inputs. The scripts that train, compare and report
  (`train.py`, most of `compare.py`, `explain.py`) call these in sequence.
- Broadcasts: their coroutines are never run in the deployed system, for want of an event
  loop on paho's thread. `tick_staleness`, which is never called.
- `feedback_metrics.py`, which counts rows of feedback for one answer.
- The scenario route, which validates, records and publishes nothing.
- Sensor drivers and fallbacks: hardware; their readings are inputs.
- Rendering and the other pages of the dashboard; password hashing and the signatures of
  tokens; 404 answers, totals and filters by time of the listings.
- The schema beyond the constraints the actions rely on; SQLite, which does not enforce the
  foreign key that refuses a snapshot of an unregistered machine.
- Verification and benchmark scripts, notebooks, build files.

## What is left

In order of importance:

1. `IngestTwin` and `EdgeLink` composed, so that the environment of ingestion is the edge
   itself rather than what `EdgeLink` says of it; then the refinement of that environment.
2. Broadcasts, when they have an event loop to run on: order per client, slow clients, and
   the snapshot against the updates.
3. An abstract delivery specification that both `EdgeLink` and `VirtualEdge` implement.
4. The training scripts as processes: a comparison that is interrupted, the files and MLflow
   runs it leaves.
