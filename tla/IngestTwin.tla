----------------------------- MODULE IngestTwin -----------------------------
(***************************************************************************)
(* The backend's path from MQTT to the digital twin, for one machine:      *)
(* MQTTIngestionClient receives on paho's network thread, handle_message   *)
(* stores the telemetry, the prediction with its alert, the twin in memory *)
(* and a snapshot of it, each in a transaction of its own and each able to *)
(* fail alone; the process may restart between any two; and                *)
(* TwinQueryService answers from memory, or else from the snapshots.       *)
(*                                                                         *)
(* The edge and the broker are the environment, from how the code uses     *)
(* them and as EdgeLink has them: samples arrive late, out of order and    *)
(* more than once, and a restarted edge numbers them from 0 again.         *)
(***************************************************************************)
EXTENDS Integers, Sequences, FiniteSets

CONSTANTS
    AlertTypes, \* alert_type values
    MaxSamples, \* bound: the samples the edge produces
    MaxInbox,   \* bound: the messages between the broker and the handler
    None        \* no sample, no alert, no machine state

ASSUME IngestAssumption ==
    /\ MaxSamples \in Nat \ {0} /\ MaxInbox \in Nat \ {0}
    /\ None \notin AlertTypes

VARIABLES
    produced,   \* how many samples the edge has produced; also the wall clock
    seq,        \* the seq its next one carries
    backlog,    \* the samples it has not yet seen acknowledged
    status,     \* the retained message on the status topic
    online,     \* _connected: the ingestion client's session
    inbox,      \* what the broker has sent it
    pc,         \* where handle_message is
    msg,        \* the message it handles
    registered, \* is there a row in machines?
    rows,       \* the telemetry table
    predictions,\* the predictions of each row
    open,       \* the OPEN alerts of each type
    latest,     \* the rows of twin_snapshots with the greatest ts
    twin,       \* TwinService._states[machine_id]
    shown       \* history: the samples the twin has shown

edge == <<produced, seq, backlog, status>>
mqtt == <<online, inbox>>
db   == <<registered, rows, predictions, open, latest>>
vars == <<edge, mqtt, pc, msg, db, twin, shown>>

-----------------------------------------------------------------------------
\* A sample: its seq, and when it was produced, which is the order of its ts.
Sample  == [seq : 0 .. MaxSamples - 1, at : 1 .. MaxSamples]
Message == [kind : {"telemetry"}, sample : Sample]
             \cup [kind : {"OFFLINE", "ONLINE", "invalid"}, sample : {None}]
Twin    == [sync : {"LIVE", "OFFLINE"}, sample : Sample \cup {None}]
Steps   == {"idle", "dispatch", "persist", "infer", "twin", "snapshot"}

ASSUME NoneAssumption == None \notin Message /\ None \notin Twin

Telemetry(s) == [kind |-> "telemetry", sample |-> s]
Bare(kind)   == [kind |-> kind, sample |-> None]

-----------------------------------------------------------------------------
(* The edge and the broker *)

\* The broker forwards a message to the ingestion client if it is subscribed.
Forward(m) ==
    IF online THEN Len(inbox) < MaxInbox /\ inbox' = Append(inbox, m)
              ELSE inbox' = inbox

handler == <<pc, msg, db, twin, shown>>

Produce ==
    /\ produced < MaxSamples
    /\ produced' = produced + 1 /\ seq' = seq + 1
    /\ backlog' = backlog \cup {[seq |-> seq, at |-> produced + 1]}
    /\ UNCHANGED <<status, mqtt, handler>>

\* Any sample of the backlog reaches the broker; its acknowledgement may be lost.
Publish ==
    /\ \E s \in backlog :
         /\ Forward(Telemetry(s))
         /\ backlog' \in {backlog, backlog \ {s}}
    /\ UNCHANGED <<produced, seq, status, online, handler>>

\* Something else on a subscribed topic: not JSON, against the contract, or of another
\* machine than its topic.
PublishInvalid ==
    /\ Forward(Bare("invalid"))
    /\ UNCHANGED <<edge, online, handler>>

\* The retained status: the edge announces itself, or its will is published.
PublishStatus ==
    /\ \E k \in {"ONLINE", "OFFLINE"} \ {status} : status' = k /\ Forward(Bare(k))
    /\ UNCHANGED <<produced, seq, backlog, online, handler>>

EdgeReboot ==
    /\ seq > 0
    /\ seq' = 0 /\ backlog' = {}
    /\ UNCHANGED <<produced, status, mqtt, handler>>

-----------------------------------------------------------------------------
(* MQTTIngestionClient *)

\* _on_connect: subscribe again; the broker sends the retained status at once.
Connect ==
    /\ ~online
    /\ online' = TRUE
    /\ inbox' = IF status = "NONE" THEN <<>> ELSE <<Bare(status)>>
    /\ UNCHANGED <<edge, handler>>

\* _on_disconnect: with clean_session the broker keeps nothing for the client.
Disconnect ==
    /\ online
    /\ online' = FALSE /\ inbox' = <<>>
    /\ UNCHANGED <<edge, handler>>

\* _on_message, on the network thread: one message at a time.
Receive ==
    /\ pc = "idle" /\ inbox # <<>>
    /\ pc' = "dispatch" /\ msg' = Head(inbox) /\ inbox' = Tail(inbox)
    /\ UNCHANGED <<edge, online, db, twin, shown>>

-----------------------------------------------------------------------------
(* handle_message *)

\* _on_message ignores what handle_message returns.
Return == pc' = "idle" /\ msg' = None

\* mark_offline keeps what the twin last showed.
mark_offline(t) == [sync |-> "OFFLINE", sample |-> IF t = None THEN None ELSE t.sample]

\* Step 0, and the checks of steps 1 to 5.
Dispatch ==
    /\ pc = "dispatch"
    /\ \/ /\ msg.kind = "telemetry"
          /\ pc' = "persist"
          /\ UNCHANGED <<msg, twin>>
       \/ /\ msg.kind = "OFFLINE"
          /\ twin' = mark_offline(twin)
          /\ pc' = "snapshot"
          /\ UNCHANGED <<msg>>
       \/ msg.kind = "ONLINE"  /\ Return /\ UNCHANGED twin
       \/ msg.kind = "invalid" /\ Return /\ UNCHANGED twin
    /\ UNCHANGED <<edge, mqtt, db, shown>>

\* Mutant: the constraint covers the time as well.
StoredAtThatTime(s) == s \in rows

\* UNIQUE(machine_id, seq)
Stored(s) == \E r \in rows : r.seq = s.seq

\* persist_telemetry: a new row, in one transaction with the machine's.
Persist ==
    /\ pc = "persist" /\ ~Stored(msg.sample)
    /\ rows' = rows \cup {msg.sample}
    /\ registered' = TRUE
    /\ pc' = "infer"
    /\ UNCHANGED <<edge, mqtt, msg, predictions, open, latest, twin, shown>>

\* Mutant: a duplicate is processed like a new row.
PersistDuplicateGoesOn ==
    /\ pc = "persist" /\ Stored(msg.sample)
    /\ pc' = "infer"
    /\ UNCHANGED <<edge, mqtt, msg, db, twin, shown>>

\* persist_telemetry: UNIQUE(machine_id, seq) is violated, and nothing else happens.
PersistDuplicate ==
    /\ pc = "persist" /\ Stored(msg.sample)
    /\ Return
    /\ UNCHANGED <<edge, mqtt, db, twin, shown>>

\* persist_telemetry raises: rolled back, and the message is dropped.
PersistFails ==
    /\ pc = "persist"
    /\ Return
    /\ UNCHANGED <<edge, mqtt, db, twin, shown>>

\* Mutant: every warning raises an alert.
RaisedAlways(a) == IF a = None THEN open ELSE [open EXCEPT ![a] = @ + 1]

\* persist_prediction raises an alert unless one of its type is OPEN.
Raised(a) == IF a = None \/ open[a] > 0 THEN open ELSE [open EXCEPT ![a] = @ + 1]

CommitPrediction ==
    /\ predictions' = [predictions EXCEPT ![msg.sample.seq] = @ + 1]
    /\ \E a \in AlertTypes \cup {None} : open' = Raised(a)

\* process_and_persist: a prediction for the row of this seq, and its alert.
Infer ==
    /\ pc = "infer"
    /\ CommitPrediction
    /\ pc' = "twin"
    /\ UNCHANGED <<edge, mqtt, msg, registered, rows, latest, twin, shown>>

\* Mutant: the twin is updated although the inference failed.
InferFailsGoesOn ==
    /\ pc = "infer"
    /\ pc' = "twin"
    /\ UNCHANGED <<edge, mqtt, msg, db, twin, shown>>

\* Mutant: a failure is retried, although the commit may have gone through.
InferFailsRetries ==
    /\ pc = "infer"
    /\ CommitPrediction
    /\ UNCHANGED <<edge, mqtt, pc, msg, registered, rows, latest, twin, shown>>

\* The model, or the transaction, or the refresh after it fails: the row stays, with or
\* without its prediction, and the twin is not updated.
InferFails ==
    /\ pc = "infer"
    /\ CommitPrediction \/ UNCHANGED <<predictions, open>>
    /\ Return
    /\ UNCHANGED <<edge, mqtt, registered, rows, latest, twin, shown>>

\* update_from_inference: the twin is LIVE with this sample, whatever it showed.
UpdateTwin ==
    /\ pc = "twin"
    /\ twin' = [sync |-> "LIVE", sample |-> msg.sample]
    /\ shown' = shown \cup {msg.sample}
    /\ pc' = "snapshot"
    /\ UNCHANGED <<edge, mqtt, msg, db>>

\* A snapshot of twin t, dated by its telemetry or else by the clock, among those with
\* the greatest ts.
Recorded(t) ==
    LET x == [ts |-> IF t.sample = None THEN produced ELSE t.sample.at, state |-> t]
    IN  {y \in latest : y.ts >= x.ts} \cup (IF \E y \in latest : y.ts > x.ts THEN {} ELSE {x})

\* persist_twin_snapshot, with the machine_id a foreign key of machines; its failure
\* is logged and changes nothing.
Snapshot ==
    /\ pc = "snapshot"
    /\ \/ registered /\ latest' = Recorded(twin)
       \/ UNCHANGED latest
    /\ Return
    /\ UNCHANGED <<edge, mqtt, registered, rows, predictions, open, twin, shown>>

-----------------------------------------------------------------------------
\* A user acknowledges or resolves an OPEN alert.
AcknowledgeAlert ==
    /\ \E a \in AlertTypes : open[a] > 0 /\ open' = [open EXCEPT ![a] = @ - 1]
    /\ UNCHANGED <<edge, mqtt, pc, msg, registered, rows, predictions, latest,
                   twin, shown>>

\* The API process restarts: what is in memory is lost.
Restart ==
    /\ online' = FALSE /\ inbox' = <<>>
    /\ pc' = "idle" /\ msg' = None
    /\ twin' = None
    /\ UNCHANGED <<edge, db, shown>>

Init ==
    /\ produced = 0 /\ seq = 0 /\ backlog = {} /\ status = "NONE"
    /\ online = FALSE /\ inbox = <<>>
    /\ pc = "idle" /\ msg = None
    /\ registered = FALSE /\ rows = {} /\ latest = {}
    /\ predictions = [n \in 0 .. MaxSamples - 1 |-> 0]
    /\ open = [a \in AlertTypes |-> 0]
    /\ twin = None /\ shown = {}

Next ==
    \/ Produce \/ Publish \/ PublishInvalid \/ PublishStatus \/ EdgeReboot
    \/ Connect \/ Disconnect \/ Receive
    \/ Dispatch \/ Persist \/ PersistDuplicate \/ PersistFails
    \/ Infer \/ InferFails \/ UpdateTwin \/ Snapshot
    \/ AcknowledgeAlert \/ Restart

Spec == Init /\ [][Next]_vars

-----------------------------------------------------------------------------
(* TwinQueryService.get_latest_twin: the states it may answer with.  Without a twin in
   memory get_latest_snapshot orders by ts, which leaves ties open. *)

Answers ==
    IF ~registered THEN {}
    ELSE IF twin # None THEN {twin}
    ELSE IF latest # {} THEN {x.state : x \in latest}
    ELSE {[sync |-> "OFFLINE", sample |-> None]}

-----------------------------------------------------------------------------
(* Properties *)

\* The variables have their types, a message is held exactly while it is handled, and
\* (machine_id, seq) identifies a row.
TypeOK ==
    /\ produced \in 0 .. MaxSamples /\ seq \in 0 .. MaxSamples /\ backlog \subseteq Sample
    /\ status \in {"NONE", "ONLINE", "OFFLINE"}
    /\ online \in BOOLEAN /\ inbox \in Seq(Message) /\ Len(inbox) <= MaxInbox
    /\ pc \in Steps /\ msg \in Message \cup {None}
    /\ pc = "idle" <=> msg = None
    /\ pc \in {"persist", "infer", "twin"} => msg.kind = "telemetry"
    /\ registered \in BOOLEAN /\ rows \subseteq Sample
    /\ \A r, q \in rows : r.seq = q.seq => r = q
    /\ predictions \in [0 .. MaxSamples - 1 -> Nat] /\ open \in [AlertTypes -> Nat]
    /\ latest \subseteq [ts : 0 .. MaxSamples, state : Twin]
    /\ twin \in Twin \cup {None} /\ shown \subseteq Sample

\* A LIVE answer, from memory or after a restart from the snapshots, shows a sample
\* whose row and prediction are committed.
LiveAnswersBacked ==
    \A a \in Answers : a.sync = "LIVE" => a.sample \in rows /\ predictions[a.sample.seq] > 0

\* A row is predicted at most once, however often its sample is delivered.
PredictedOnce == \A n \in DOMAIN predictions : predictions[n] <= 1

\* A type of alert is OPEN at most once, while users acknowledge alerts in between.
OneOpenAlert == \A a \in AlertTypes : open[a] <= 1

\* The twin shows a sample at most once: a late duplicate never brings an old state, or
\* an OFFLINE machine, back.
NoReplay ==
    [][twin' \notin {twin, None} /\ twin'.sync = "LIVE" => twin'.sample \notin shown]_vars

\* Claimed by the twin's docstring, and not true: the twin shows the most recent of the
\* telemetry it has been given.
TwinShowsMostRecent ==
    [][(twin # None /\ twin' # None) =>
         (twin.sample # None => twin'.sample.at >= twin.sample.at)]_vars

\* Claimed by the twin's docstring, and not true: valid telemetry makes an OFFLINE twin
\* LIVE.  A sample newer than all that is stored would at least not be a duplicate.
FreshTelemetryRevives ==
    (/\ pc = "persist" /\ twin # None /\ twin.sync = "OFFLINE"
     /\ \A r \in rows : r.at < msg.sample.at) => ~Stored(msg.sample)
=============================================================================
