-------------------------- MODULE IngestTwinProofs --------------------------
(***************************************************************************)
(* For any number of samples, any inbox and any alert types: what the twin *)
(* and the snapshots show is committed, a row is predicted once, a type of *)
(* alert is open once, and the twin never shows a sample again.            *)
(***************************************************************************)
EXTENDS IngestTwin, TLAPS

USE IngestAssumption, NoneAssumption DEF IngestAssumption

\* A state of the twin that is LIVE shows a sample that is stored and predicted.
Backed(t) ==
    t # None /\ t.sync = "LIVE" => t.sample \in rows /\ predictions[t.sample.seq] > 0

\* What is being handled, between two of its transactions: a new row, which the twin has
\* not shown, then its prediction, then its twin.
Handled ==
    /\ pc \in {"infer", "twin"} => msg.sample \in rows /\ msg.sample \notin shown
    /\ pc = "infer" => predictions[msg.sample.seq] = 0
    /\ pc = "twin" => predictions[msg.sample.seq] > 0
    /\ pc = "snapshot" => twin # None

\* Only stored samples are predicted or shown.
Stores ==
    /\ shown \subseteq rows
    /\ \A n \in DOMAIN predictions :
         predictions[n] <= 1 /\ (predictions[n] > 0 => \E r \in rows : r.seq = n)

IInv ==
    /\ TypeOK /\ seq <= produced
    /\ Handled /\ Stores /\ OneOpenAlert
    /\ Backed(twin) /\ \A x \in latest : Backed(x.state)

-----------------------------------------------------------------------------
\* A message about a sample holds it; the others hold none.
LEMMA MessageTypes ==
    ASSUME NEW s \in Sample, NEW k \in {"OFFLINE", "ONLINE", "invalid"}
    PROVE  /\ Telemetry(s) \in Message /\ Telemetry(s).kind = "telemetry"
           /\ Bare(k) \in Message
BY DEF Telemetry, Bare, Message

LEMMA MessageHolds ==
    ASSUME NEW m \in Message, m.kind = "telemetry"
    PROVE  m.sample \in Sample
BY DEF Message

LEMMA EmptyInbox == <<>> \in Seq(Message) /\ Len(<<>>) <= MaxInbox
<1>1. Len(<<>>) = 0
  OBVIOUS
<1> QED BY <1>1

\* Forwarding keeps the inbox within its bound.
LEMMA Forwarded ==
    ASSUME TypeOK, NEW m \in Message, Forward(m)
    PROVE  inbox' \in Seq(Message) /\ Len(inbox') <= MaxInbox
<1>1. inbox \in Seq(Message) /\ Len(inbox) <= MaxInbox
  BY DEF TypeOK
<1>2. CASE online
  BY <1>1, <1>2 DEF Forward
<1>3. CASE ~online
  BY <1>1, <1>3 DEF Forward
<1> QED BY <1>2, <1>3

-----------------------------------------------------------------------------
LEMMA InitInv == Init => IInv
<1> SUFFICES ASSUME Init PROVE IInv
  OBVIOUS
<1>1. TypeOK /\ seq <= produced
  BY DEF Init, TypeOK, Steps
<1>2. Handled /\ Stores /\ OneOpenAlert
  BY DEF Init, Handled, Stores, OneOpenAlert
<1>3. Backed(twin) /\ \A x \in latest : Backed(x.state)
  BY DEF Init, Backed
<1> QED BY <1>1, <1>2, <1>3 DEF IInv

\* The edge and the sessions change nothing the backend has stored or is handling.
LEMMA EdgeStep ==
    ASSUME IInv,
           Produce \/ Publish \/ PublishInvalid \/ PublishStatus \/ EdgeReboot
             \/ Connect \/ Disconnect
    PROVE  IInv'
<1> USE DEF IInv, handler, db
<1>1. UNCHANGED <<pc, msg, registered, rows, predictions, open, latest, twin, shown>>
  BY DEF Produce, Publish, PublishInvalid, PublishStatus, EdgeReboot, Connect, Disconnect
<1>2. Handled' /\ Stores' /\ OneOpenAlert'
  BY <1>1 DEF Handled, Stores, OneOpenAlert
<1>3. Backed(twin)' /\ (\A x \in latest : Backed(x.state))'
  BY <1>1 DEF Backed
<1>4. TypeOK' /\ (seq <= produced)'
  <2>1. CASE Produce
    <3>1. [seq |-> seq, at |-> produced + 1] \in Sample
      BY <2>1 DEF Produce, TypeOK, Sample
    <3> QED BY <2>1, <3>1, <1>1 DEF Produce, TypeOK, mqtt
  <2>2. CASE Publish
    <3>1. PICK s \in backlog : Forward(Telemetry(s)) /\ backlog' \in {backlog, backlog \ {s}}
      BY <2>2 DEF Publish
    <3>2. inbox' \in Seq(Message) /\ Len(inbox') <= MaxInbox
      BY <3>1, Forwarded, MessageTypes DEF TypeOK
    <3> QED BY <2>2, <3>1, <3>2, <1>1 DEF Publish, TypeOK
  <2>3. CASE PublishInvalid
    <3>1. inbox' \in Seq(Message) /\ Len(inbox') <= MaxInbox
      BY <2>3, Forwarded, Bare("invalid") \in Message DEF PublishInvalid, Bare, Message
    <3> QED BY <2>3, <3>1, <1>1 DEF PublishInvalid, TypeOK, edge
  <2>4. CASE PublishStatus
    <3>1. PICK k \in {"ONLINE", "OFFLINE"} : status' = k /\ Forward(Bare(k))
      BY <2>4 DEF PublishStatus
    <3>2. inbox' \in Seq(Message) /\ Len(inbox') <= MaxInbox
      BY <3>1, Forwarded, Bare(k) \in Message DEF Bare, Message
    <3> QED BY <2>4, <3>1, <3>2, <1>1 DEF PublishStatus, TypeOK
  <2>5. CASE EdgeReboot
    BY <2>5, <1>1 DEF EdgeReboot, TypeOK, mqtt
  <2>6. CASE Connect
    <3>1. CASE status = "NONE"
      <4>1. inbox' = <<>>
        BY <2>6, <3>1 DEF Connect
      <4> QED BY <2>6, <4>1, <1>1 DEF Connect, TypeOK, edge
    <3>2. CASE status # "NONE"
      <4> DEFINE m == Bare(status)
      <4>1. m \in Message
        BY <3>2 DEF TypeOK, Bare, Message
      <4>2. inbox' = <<m>>
        BY <2>6, <3>2 DEF Connect
      <4> HIDE DEF m
      <4>3. inbox' \in Seq(Message) /\ Len(inbox') = 1
        BY <4>1, <4>2
      <4> QED BY <2>6, <4>3, <1>1 DEF Connect, TypeOK, edge
    <3> QED BY <3>1, <3>2
  <2>7. CASE Disconnect
    <3>1. inbox' = <<>> /\ online' = FALSE /\ UNCHANGED edge
      BY <2>7 DEF Disconnect
    <3>2. inbox' \in Seq(Message) /\ Len(inbox') <= MaxInbox /\ online' \in BOOLEAN
      BY <3>1, EmptyInbox
    <3>3. produced' = produced /\ seq' = seq /\ backlog' = backlog /\ status' = status
      BY <3>1 DEF edge
    <3> QED BY <3>2, <3>3, <1>1 DEF TypeOK
  <2> QED BY <2>1, <2>2, <2>3, <2>4, <2>5, <2>6, <2>7
<1> QED BY <1>2, <1>3, <1>4

\* The handler's steps, one at a time.
LEMMA ReceiveStep == ASSUME IInv, Receive PROVE IInv'
<1> USE DEF IInv, db
<1>1. UNCHANGED <<edge, online, registered, rows, predictions, open, latest, twin, shown>>
  BY DEF Receive
<1>2. Head(inbox) \in Message /\ Tail(inbox) \in Seq(Message) /\ Len(Tail(inbox)) <= MaxInbox
  BY DEF Receive, TypeOK
<1>3. TypeOK' /\ (seq <= produced)'
  BY <1>1, <1>2 DEF Receive, TypeOK, Steps, edge
<1>4. Handled' /\ Stores' /\ OneOpenAlert'
  BY <1>1 DEF Receive, Handled, Stores, OneOpenAlert
<1>5. Backed(twin)' /\ (\A x \in latest : Backed(x.state))'
  BY <1>1 DEF Backed
<1> QED BY <1>3, <1>4, <1>5

LEMMA DispatchStep == ASSUME IInv, Dispatch PROVE IInv'
<1> USE DEF IInv, db, mqtt, edge
<1>1. UNCHANGED <<edge, mqtt, registered, rows, predictions, open, latest, shown>>
  BY DEF Dispatch
<1>2. /\ pc = "dispatch" /\ msg \in Message
      /\ \/ msg.kind = "telemetry" /\ pc' = "persist" /\ msg' = msg /\ twin' = twin
         \/ pc' = "snapshot" /\ msg' = msg /\ twin' = mark_offline(twin)
         \/ pc' = "idle" /\ msg' = None /\ twin' = twin
  BY DEF Dispatch, Return, TypeOK
<1>3. mark_offline(twin) \in Twin /\ mark_offline(twin).sync = "OFFLINE"
  BY DEF mark_offline, Twin, TypeOK
<1>4. TypeOK' /\ (seq <= produced)'
  BY <1>1, <1>2, <1>3 DEF TypeOK, Steps
<1>5. Handled' /\ Stores' /\ OneOpenAlert'
  BY <1>1, <1>2, <1>3 DEF Handled, Stores, OneOpenAlert
<1>6. Backed(twin)' /\ (\A x \in latest : Backed(x.state))'
  BY <1>1, <1>2, <1>3 DEF Backed
<1> QED BY <1>4, <1>5, <1>6

\* A row that is new has no prediction and was never shown.
LEMMA PersistStep == ASSUME IInv, Persist PROVE IInv'
<1> USE DEF IInv, db
<1>1. UNCHANGED <<edge, mqtt, msg, predictions, open, latest, twin, shown>>
  BY DEF Persist
<1>2. msg.sample \in Sample /\ msg # None
  BY MessageHolds DEF Persist, TypeOK
<1>3. rows' = rows \cup {msg.sample} /\ pc' = "infer" /\ registered' = TRUE
  BY DEF Persist
<1>4. \A r \in rows : r.seq # msg.sample.seq
  BY DEF Persist, Stored
<1>5. TypeOK' /\ (seq <= produced)'
  BY <1>1, <1>2, <1>3, <1>4 DEF Persist, TypeOK, Steps, edge, mqtt
<1>6. predictions[msg.sample.seq] = 0
  <2>1. msg.sample.seq \in DOMAIN predictions /\ predictions[msg.sample.seq] \in Nat
    BY <1>2 DEF Sample, TypeOK
  <2> QED BY <2>1, <1>4 DEF Stores
<1>7. Handled' /\ Stores' /\ OneOpenAlert'
  BY <1>1, <1>2, <1>3, <1>4, <1>6 DEF Handled, Stores, OneOpenAlert
<1>8. Backed(twin)' /\ (\A x \in latest : Backed(x.state))'
  BY <1>1, <1>3 DEF Backed
<1> QED BY <1>5, <1>7, <1>8

\* What ends the handling early: the message is gone, and nothing else has changed.
LEMMA ReturnStep ==
    ASSUME IInv, PersistDuplicate \/ PersistFails
    PROVE  IInv'
<1> USE DEF IInv, db
<1>1. UNCHANGED <<edge, mqtt, db, twin, shown>> /\ pc' = "idle" /\ msg' = None
  BY DEF PersistDuplicate, PersistFails, Return
<1>2. TypeOK' /\ (seq <= produced)'
  BY <1>1 DEF TypeOK, Steps, edge, mqtt
<1>3. Handled' /\ Stores' /\ OneOpenAlert'
  BY <1>1 DEF Handled, Stores, OneOpenAlert
<1>4. Backed(twin)' /\ (\A x \in latest : Backed(x.state))'
  BY <1>1 DEF Backed
<1> QED BY <1>2, <1>3, <1>4

\* The transaction of an inference: the row's first prediction, and at most one alert of
\* a type that has none open.
LEMMA Committed ==
    ASSUME IInv, pc = "infer", CommitPrediction
    PROVE  /\ predictions' \in [0 .. MaxSamples - 1 -> Nat]
           /\ predictions'[msg.sample.seq] = 1
           /\ \A n \in DOMAIN predictions : n # msg.sample.seq => predictions'[n] = predictions[n]
           /\ open' \in [AlertTypes -> Nat] /\ OneOpenAlert'
<1> USE DEF IInv
<1>1. msg.sample.seq \in 0 .. MaxSamples - 1 /\ predictions[msg.sample.seq] = 0
  BY DEF Handled, TypeOK, Sample
<1>2. PICK a \in AlertTypes \cup {None} : open' = Raised(a)
  BY DEF CommitPrediction
<1>3. open' \in [AlertTypes -> Nat] /\ OneOpenAlert'
  BY <1>2 DEF Raised, OneOpenAlert, TypeOK
<1> QED BY <1>1, <1>3 DEF CommitPrediction, TypeOK

\* An inference that commits, whether or not it goes on to the twin.
LEMMA InferStep ==
    ASSUME IInv, Infer \/ InferFails
    PROVE  IInv'
<1> USE DEF IInv, db
<1>1. /\ UNCHANGED <<edge, mqtt, registered, rows, latest, twin, shown>>
      /\ pc = "infer" /\ msg \in Message /\ msg.kind = "telemetry"
      /\ (pc' = "twin" /\ msg' = msg) \/ (pc' = "idle" /\ msg' = None)
  BY DEF Infer, InferFails, Return, TypeOK
<1>2. msg.sample \in rows /\ msg.sample \notin shown
  BY <1>1 DEF Handled
<1>3. CASE CommitPrediction
  <2>1. TypeOK' /\ (seq <= produced)'
    BY <1>1, <1>3, Committed DEF TypeOK, Steps, edge, mqtt
  <2>2. Handled' /\ OneOpenAlert'
    <3>1. predictions'[msg.sample.seq] = 1 /\ OneOpenAlert'
      BY <1>1, <1>3, Committed
    <3> QED BY <1>1, <1>2, <3>1 DEF Handled
  <2>3. Stores'
    <3>1. DOMAIN predictions' = DOMAIN predictions /\ predictions'[msg.sample.seq] = 1
      BY <1>1, <1>3, Committed DEF TypeOK
    <3>2. \A n \in DOMAIN predictions : n # msg.sample.seq => predictions'[n] = predictions[n]
      BY <1>1, <1>3, Committed
    <3> QED BY <1>1, <1>2, <3>1, <3>2 DEF Stores
  <2>4. \A n \in DOMAIN predictions : predictions[n] > 0 => predictions'[n] > 0
    <3>1. predictions'[msg.sample.seq] = 1
      BY <1>1, <1>3, Committed
    <3>2. \A n \in DOMAIN predictions : n # msg.sample.seq => predictions'[n] = predictions[n]
      BY <1>1, <1>3, Committed
    <3> QED BY <3>1, <3>2
  <2>5. \A s \in rows : s.seq \in DOMAIN predictions
    BY DEF TypeOK, Sample
  <2>6. Backed(twin)' /\ (\A x \in latest : Backed(x.state))'
    BY <1>1, <2>4, <2>5 DEF Backed
  <2> QED BY <2>1, <2>2, <2>3, <2>6
<1>4. CASE UNCHANGED <<predictions, open>> /\ InferFails
  <2>1. pc' = "idle" /\ msg' = None
    BY <1>4 DEF InferFails, Return
  <2>2. TypeOK' /\ (seq <= produced)'
    BY <1>1, <1>4, <2>1 DEF TypeOK, Steps, edge, mqtt
  <2>3. Handled' /\ Stores' /\ OneOpenAlert'
    BY <1>1, <1>4, <2>1 DEF Handled, Stores, OneOpenAlert
  <2>4. Backed(twin)' /\ (\A x \in latest : Backed(x.state))'
    BY <1>1, <1>4 DEF Backed
  <2> QED BY <2>2, <2>3, <2>4
<1> QED BY <1>3, <1>4 DEF Infer, InferFails

\* The twin shows what has just been predicted.
LEMMA UpdateStep == ASSUME IInv, UpdateTwin PROVE IInv'
<1> USE DEF IInv, db
<1>1. /\ UNCHANGED <<edge, mqtt, msg, registered, rows, predictions, open, latest>>
      /\ pc = "twin" /\ pc' = "snapshot" /\ shown' = shown \cup {msg.sample}
      /\ twin' = [sync |-> "LIVE", sample |-> msg.sample]
  BY DEF UpdateTwin
<1>2. msg \in Message /\ msg.sample \in Sample /\ msg.sample \in rows
  BY <1>1, MessageHolds DEF TypeOK, Handled
<1>3. twin' \in Twin /\ twin' # None
  BY <1>1, <1>2 DEF Twin
<1>4. TypeOK' /\ (seq <= produced)'
  BY <1>1, <1>2, <1>3 DEF TypeOK, Steps, edge, mqtt
<1>5. Handled' /\ Stores' /\ OneOpenAlert'
  BY <1>1, <1>2, <1>3 DEF Handled, Stores, OneOpenAlert
<1>6. Backed(twin)' /\ (\A x \in latest : Backed(x.state))'
  BY <1>1, <1>2 DEF Backed, Handled
<1> QED BY <1>4, <1>5, <1>6

\* A snapshot is of the twin as it is.
LEMMA SnapshotStep == ASSUME IInv, Snapshot PROVE IInv'
<1> USE DEF IInv, db
<1>1. /\ UNCHANGED <<edge, mqtt, registered, rows, predictions, open, twin, shown>>
      /\ pc = "snapshot" /\ pc' = "idle" /\ msg' = None
      /\ latest' = latest \/ latest' = Recorded(twin)
  BY DEF Snapshot, Return
<1>2. twin \in Twin
  BY <1>1 DEF Handled, TypeOK
<1> DEFINE snap == [ts |-> IF twin.sample = None THEN produced ELSE twin.sample.at, state |-> twin]
<1>3. snap \in [ts : 0 .. MaxSamples, state : Twin]
  BY <1>2 DEF Twin, Sample, TypeOK
<1>4. latest' \subseteq latest \cup {snap}
  BY <1>1 DEF Recorded
<1>5. \A x \in latest' : x \in [ts : 0 .. MaxSamples, state : Twin] /\ Backed(x.state)
  BY <1>3, <1>4 DEF TypeOK
<1>6. TypeOK' /\ (seq <= produced)'
  BY <1>1, <1>5 DEF TypeOK, Steps, edge, mqtt
<1>7. Handled' /\ Stores' /\ OneOpenAlert'
  BY <1>1 DEF Handled, Stores, OneOpenAlert
<1>8. Backed(twin)' /\ (\A x \in latest : Backed(x.state))'
  BY <1>1, <1>5 DEF Backed
<1> QED BY <1>6, <1>7, <1>8

LEMMA AcknowledgeStep == ASSUME IInv, AcknowledgeAlert PROVE IInv'
<1> USE DEF IInv
<1>1. UNCHANGED <<edge, mqtt, pc, msg, registered, rows, predictions, latest, twin, shown>>
  BY DEF AcknowledgeAlert
<1>2. PICK a \in AlertTypes : open[a] > 0 /\ open' = [open EXCEPT ![a] = @ - 1]
  BY DEF AcknowledgeAlert
<1>3. open' \in [AlertTypes -> Nat] /\ OneOpenAlert'
  BY <1>2 DEF OneOpenAlert, TypeOK
<1>4. TypeOK' /\ (seq <= produced)'
  BY <1>1, <1>3 DEF TypeOK, edge, mqtt
<1>5. Handled' /\ Stores'
  BY <1>1 DEF Handled, Stores
<1>6. Backed(twin)' /\ (\A x \in latest : Backed(x.state))'
  BY <1>1 DEF Backed
<1> QED BY <1>3, <1>4, <1>5, <1>6

\* A restart loses the twin and what was being handled, and no row.
LEMMA RestartStep == ASSUME IInv, Restart PROVE IInv'
<1> USE DEF IInv, db
<1>1. /\ UNCHANGED <<edge, registered, rows, predictions, open, latest, shown>>
      /\ online' = FALSE /\ inbox' = <<>> /\ pc' = "idle" /\ msg' = None /\ twin' = None
  BY DEF Restart
<1>2. /\ inbox' \in Seq(Message) /\ Len(inbox') <= MaxInbox /\ online' \in BOOLEAN
      /\ pc' = "idle" /\ msg' = None /\ twin' \in Twin \cup {None}
      /\ UNCHANGED <<registered, rows, predictions, open, latest, shown>>
  BY <1>1, EmptyInbox
<1>3. produced' = produced /\ seq' = seq /\ backlog' = backlog /\ status' = status
  BY <1>1 DEF edge
<1>4. TypeOK' /\ (seq <= produced)'
  BY <1>2, <1>3 DEF TypeOK, Steps
<1>5. Handled' /\ Stores' /\ OneOpenAlert'
  BY <1>1 DEF Handled, Stores, OneOpenAlert
<1>6. Backed(twin)' /\ (\A x \in latest : Backed(x.state))'
  BY <1>1 DEF Backed
<1> QED BY <1>4, <1>5, <1>6

-----------------------------------------------------------------------------
LEMMA StepInv == ASSUME IInv, [Next]_vars PROVE IInv'
<1>1. CASE UNCHANGED vars
  BY <1>1 DEF vars, edge, mqtt, db, IInv, TypeOK, Handled, Stores, OneOpenAlert, Backed
<1> QED BY <1>1, EdgeStep, ReceiveStep, DispatchStep, PersistStep, ReturnStep, InferStep,
           UpdateStep, SnapshotStep, AcknowledgeStep, RestartStep DEF Next

\* The inductive invariant holds for every number of samples and every inbox.
THEOREM Invariant == Spec => []IInv
<1>1. Init => IInv
  BY InitInv
<1>2. IInv /\ [Next]_vars => IInv'
  BY StepInv
<1> QED BY <1>1, <1>2, PTL DEF Spec

\* The types, the identity of a row by its seq, and the message held while it is handled.
THEOREM TypesKept == Spec => []TypeOK
<1>1. IInv => TypeOK
  BY DEF IInv
<1> QED BY <1>1, Invariant, PTL

\* A LIVE answer shows a stored and predicted sample, from memory or after any restart.
THEOREM LiveBacked == Spec => []LiveAnswersBacked
<1>1. IInv => LiveAnswersBacked
  <2> SUFFICES ASSUME IInv, NEW a \in Answers, a.sync = "LIVE"
               PROVE  a.sample \in rows /\ predictions[a.sample.seq] > 0
    BY DEF LiveAnswersBacked
  <2>1. a \in Twin \/ a = [sync |-> "OFFLINE", sample |-> None]
    BY DEF IInv, TypeOK, Answers
  <2>2. a # None
    BY <2>1 DEF Twin
  <2>3. a = twin \/ \E x \in latest : a = x.state
    BY DEF Answers
  <2> QED BY <2>2, <2>3 DEF IInv, Backed
<1> QED BY <1>1, Invariant, PTL

\* A row is predicted at most once, however often its sample is delivered.
THEOREM RowsPredictedOnce == Spec => []PredictedOnce
<1>1. IInv => PredictedOnce
  BY DEF IInv, Stores, PredictedOnce
<1> QED BY <1>1, Invariant, PTL

\* A type of alert is OPEN at most once.
THEOREM AlertsOpenOnce == Spec => []OneOpenAlert
<1>1. IInv => OneOpenAlert
  BY DEF IInv
<1> QED BY <1>1, Invariant, PTL

\* The twin shows a sample at most once, whatever arrives late or again.
THEOREM NeverReplays == Spec => NoReplay
<1>1. IInv /\ [Next]_vars =>
        [twin' \notin {twin, None} /\ twin'.sync = "LIVE" => twin'.sample \notin shown]_vars
  <2> SUFFICES ASSUME IInv, Next, twin' \notin {twin, None}, twin'.sync = "LIVE"
               PROVE  twin'.sample \notin shown
    BY DEF vars
  <2>1. UpdateTwin \/ (Dispatch /\ twin' = mark_offline(twin))
    BY DEF Next, Produce, Publish, PublishInvalid, PublishStatus, EdgeReboot, Connect,
           Disconnect, Receive, Dispatch, Persist, PersistDuplicate, PersistFails, Infer,
           InferFails, Snapshot, AcknowledgeAlert, Restart, handler, db
  <2>2. CASE UpdateTwin
    BY <2>2 DEF UpdateTwin, IInv, Handled
  <2>3. CASE twin' = mark_offline(twin)
    BY <2>3 DEF mark_offline
  <2> QED BY <2>1, <2>2, <2>3
<1> QED BY <1>1, Invariant, PTL DEF Spec, NoReplay

=============================================================================
