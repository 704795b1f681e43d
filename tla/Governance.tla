----------------------------- MODULE Governance -----------------------------
(***************************************************************************)
(* The governed life of the risk model: the data pipeline that writes the  *)
(* split files (ml/data), mlops/retrain.py, mlops/promote.py and           *)
(* mlops/register.py over one MLflow registry, and the ModelEngine that    *)
(* serves.  Operators work at the same time, from the API's thread pool    *)
(* and from the command line: every file, registry and log access is a     *)
(* step of its own, and an operation may fail or die before any of them.   *)
(*                                                                         *)
(* The registry is modelled by the calls made on it: versions are numbered *)
(* in the order they are registered and are never deleted; an alias names  *)
(* one version.                                                            *)
(***************************************************************************)
EXTENDS TrainingData

CONSTANTS
    Users,      \* who runs operations, one at a time each
    RawData,    \* the raw dataset of each generation of the data
    Trainings,  \* what a training may come to: [recall, precision, sound]
    Margin,     \* RECALL_MARGIN
    Floor,      \* MIN_PRECISION_FLOOR
    MaxOps      \* bound: the operations ever begun

\* There is a first dataset; its rows have the columns the code reads; NaN
\* is nobody.
ASSUME GovernanceAssumption ==
    /\ 1 \in DOMAIN RawData /\ DOMAIN RawData \subseteq Int
    /\ \A g \in DOMAIN RawData : Frame(RawData[g])
    /\ Trainings \subseteq [recall : Int, precision : Int, sound : BOOLEAN]
    /\ NaN \notin Users
    /\ Margin \in Nat /\ Floor \in Int /\ MaxOps \in Nat

VARIABLES
    data,       \* the generation of the prepared dataset
    files,      \* the generation in each split file
    versions,   \* the registered model versions
    champion,   \* the aliases; 0 when not set
    challenger,
    log,        \* the audit log
    meta,       \* whose retraining wrote artifacts/challenger_metadata.json
    artifact,   \* artifacts/calibrated_classifier_sigmoid.joblib, and whose it is
    engine,     \* ModelEngine
    job,        \* what each user is doing
    begun,      \* how many operations have begun
    moves,      \* history: the moves of the champion alias
    unlogged    \* history: those whose operation died before its audit entry

store    == <<data, files>>
registry == <<versions, champion, challenger>>
vars == <<store, registry, log, meta, artifact, engine, job, begun, moves, unlogged>>

Generations == DOMAIN RawData
Version     == 0 .. Len(versions)    \* 0 where there is none
Files       == {"train", "val", "test"}

\* The split files of each generation, as split_dataset makes them.
Dataset == [g \in Generations |-> split_dataset(prepare_dataset(RawData[g]))]

-----------------------------------------------------------------------------
(* Operations *)

\* What a user is doing; "stale" is a history of what others changed since it was read.
Idle == [op |-> "idle", at |-> "", read |-> <<>>, model |-> NaN, own |-> 0,
         version |-> 0, prev |-> 0, base |-> 0, stale |-> {}]

\* Others' jobs are told that something they may have read has changed.
Touched(u, what) ==
    [w \in Users |-> IF w = u \/ job[w].op = "idle" THEN job[w]
                     ELSE [job[w] EXCEPT !.stale = @ \cup {what}]]

Go(u, at) == job' = [job EXCEPT ![u].at = at]
Done(u)   == job' = [job EXCEPT ![u] = Idle]

Mixed == \E f, g \in Files : files[f] # files[g]

Begin(u, op, at) ==
    /\ job[u].op = "idle" /\ begun < MaxOps
    /\ begun' = begun + 1
    /\ job' = [job EXCEPT ![u] = [Idle EXCEPT !.op = op, !.at = at,
                                  !.stale = IF Mixed THEN {"splits"} ELSE {}]]

\* The model in a local file; the user whose operation is yet to register it, and the
\* version registered from it, 0 where there is none, are history.
File(model, writer, version) == [model |-> model, writer |-> writer, version |-> version]
NoFile == File(NaN, NaN, 0)

\* An audit entry: the event, the version it names, the version it says that one came
\* from; "sure" is history, whether what it says was current.
Entry(event, version, from, sure) ==
    [event |-> event, version |-> version, from |-> from, sure |-> sure]

append_audit_log(event, version, from, sure) ==
    log' = log \cup {Entry(event, version, from, sure)}

-----------------------------------------------------------------------------
(* The data pipeline: prepare, split and save_splits *)

Prepare(u) ==
    /\ job[u].op = "idle" /\ begun < MaxOps
    /\ begun' = begun + 1
    /\ data' \in {data, data + 1} \cap Generations
    /\ job' = [job EXCEPT ![u] = [Idle EXCEPT !.op = "pipeline", !.at = "train", !.base = data']]
    /\ UNCHANGED <<files, registry, log, meta, artifact, engine, moves, unlogged>>

NextFile == [train |-> "val", val |-> "test"]

\* save_splits writes its files one after the other.
SaveSplit(u) ==
    /\ job[u].op = "pipeline"
    /\ LET f == job[u].at
       IN  /\ files' = [files EXCEPT ![f] = job[u].base]
           /\ job' = [Touched(u, "splits") EXCEPT ![u] =
                        IF f = "test" THEN Idle ELSE [@ EXCEPT !.at = NextFile[f]]]
    /\ UNCHANGED <<data, registry, log, meta, artifact, engine, begun, moves, unlogged>>

-----------------------------------------------------------------------------
(* Retraining and registration *)

StartRetrain(u) ==
    /\ Begin(u, "retrain", "read")
    /\ append_audit_log("retrain_started", 0, 0, TRUE)
    /\ UNCHANGED <<store, registry, meta, artifact, engine, moves, unlogged>>

StartRegister(u) ==
    /\ Begin(u, "register", "read")
    /\ UNCHANGED <<store, registry, log, meta, artifact, engine, moves, unlogged>>

\* The files in the order they are read: both hashes before both contents in a
\* retraining; load_splits hashes nothing and reads the test file too.
Reads(op) == IF op = "retrain" THEN <<"train", "val", "train", "val">>
                               ELSE <<"train", "val", "test">>

ReadSplit(u) ==
    /\ job[u].at = "read" /\ Len(job[u].read) < Len(Reads(job[u].op))
    /\ LET f == Reads(job[u].op)[Len(job[u].read) + 1]
       IN  job' = [job EXCEPT ![u].read = Append(@, files[f])]
    /\ UNCHANGED <<store, registry, log, meta, artifact, engine, begun, moves, unlogged>>

\* Mutant: a retraining writes the model file of the champion too.
TrainShared(u) ==
    /\ job[u].at = "read" /\ Len(job[u].read) = Len(Reads(job[u].op))
    /\ \E m \in Trainings :
         /\ job' = [Touched(u, "meta") EXCEPT
                      ![u].model = m, ![u].at = "register", ![u].stale = @ \ {"meta"}]
         /\ meta' = IF job[u].op = "retrain" THEN u ELSE meta
         /\ artifact' = File(m, u, 0)
    /\ UNCHANGED <<store, registry, log, engine, begun, moves, unlogged>>

\* Train, calibrate and evaluate; then write the artifact files, which all operations
\* share. A registration writes the model file before the model is registered or gated.
Train(u) ==
    /\ job[u].at = "read" /\ Len(job[u].read) = Len(Reads(job[u].op))
    /\ \E m \in Trainings :
         /\ job' = [Touched(u, "meta") EXCEPT
                      ![u].model = m, ![u].at = "register", ![u].stale = @ \ {"meta"}]
         /\ IF job[u].op = "retrain"
              THEN meta' = u /\ UNCHANGED artifact
              ELSE artifact' = File(m, u, 0) /\ UNCHANGED meta
    /\ UNCHANGED <<store, registry, log, engine, begun, moves, unlogged>>

\* mlflow.pyfunc.log_model registers the next version. A retraining attaches the metadata
\* file as it finds it; "mine" says whose that was, "stale" is its history.
RegisterVersion(u) ==
    /\ job[u].at = "register"
    /\ versions' = Append(versions,
           [recall |-> job[u].model.recall, precision |-> job[u].model.precision,
            sound  |-> job[u].model.sound,  read |-> job[u].read,
            mine   |-> job[u].op = "register" \/ meta = u,
            stale  |-> job[u].stale \cap {"splits", "meta"}])
    /\ job' = [Touched(u, "versions") EXCEPT
                 ![u].own = Len(versions) + 1, ![u].at = "latest",
                 ![u].stale = @ \ {"versions"}]
    /\ artifact' = IF artifact.writer = u THEN File(artifact.model, NaN, Len(versions) + 1)
                                          ELSE artifact
    /\ UNCHANGED <<store, champion, challenger, log, meta, engine, begun, moves, unlogged>>

\* Mutant: the alias is read instead, before it is moved.
FindLatestByAlias(u) ==
    /\ job[u].at = "latest"
    /\ job' = [job EXCEPT ![u].version = challenger, ![u].at = "alias"]
    /\ UNCHANGED <<store, registry, log, meta, artifact, engine, begun, moves, unlogged>>

\* Mutant: the number the next one would have.
FindLatestCount(u) ==
    /\ job[u].at = "latest"
    /\ job' = [job EXCEPT ![u].version = job[u].own + 1, ![u].at = "alias"]
    /\ UNCHANGED <<store, registry, log, meta, artifact, engine, begun, moves, unlogged>>

\* The greatest version number there is is taken for the one just registered.
FindLatest(u) ==
    /\ job[u].at = "latest"
    /\ job' = [job EXCEPT ![u].version = Len(versions), ![u].at = "alias"]
    /\ UNCHANGED <<store, registry, log, meta, artifact, engine, begun, moves, unlogged>>

\* An alias moved while the engine is between its two look-ups.
EngineSees(alias) ==
    IF engine.at = "loading" /\ engine.via = alias THEN [engine EXCEPT !.moved = TRUE]
                                                   ELSE engine

SetChallenger(u) ==
    /\ job[u].at = "alias"
    /\ challenger' = job[u].version
    /\ engine' = EngineSees("challenger")
    /\ job' = [Touched(u, "challenger") EXCEPT
                 ![u].at = IF job[u].op = "retrain" THEN "log" ELSE "verify"]
    /\ UNCHANGED <<store, versions, champion, log, meta, artifact, begun, moves, unlogged>>

LogRetrain(u) ==
    /\ job[u].op = "retrain" /\ job[u].at = "log"
    /\ append_audit_log("retrain_completed", job[u].version, job[u].own,
                        "versions" \notin job[u].stale)
    /\ Done(u)
    /\ UNCHANGED <<store, registry, meta, artifact, engine, begun, moves, unlogged>>

\* train_challenger's except clause.
RetrainFails(u) ==
    /\ job[u].op = "retrain"
    /\ append_audit_log("retrain_failed", 0, 0, TRUE)
    /\ Done(u)
    /\ UNCHANGED <<store, registry, meta, artifact, engine, begun, moves, unlogged>>

\* verify_promotion_gate, in register_champion_model: what the alias names now.
VerifyRegistered(u) ==
    /\ job[u].at = "verify"
    /\ IF versions[challenger].sound THEN Go(u, "champion") ELSE Done(u)
    /\ UNCHANGED <<store, registry, log, meta, artifact, engine, begun, moves, unlogged>>

-----------------------------------------------------------------------------
(* Promotion and rollback *)

\* Mutant: the margin is missing its sign.
WithinMarginLoose(challengerRecall, championRecall) == challengerRecall - Margin <= championRecall

WithinMargin(challengerRecall, championRecall) == challengerRecall >= championRecall - Margin

StartPromote(u) ==
    /\ job[u].op = "idle" /\ begun < MaxOps
    /\ begun' = begun + 1
    /\ job' = [job EXCEPT ![u] = [Idle EXCEPT !.op = "promote", !.at = "base",
                                  !.prev = champion]]
    /\ UNCHANGED <<store, registry, log, meta, artifact, engine, moves, unlogged>>

\* run_promotion_gate: without a champion, or a challenger, it raises.
GateChampion(u) ==
    /\ job[u].at = "base"
    /\ IF champion = 0 THEN Done(u)
       ELSE job' = [job EXCEPT ![u].base = champion, ![u].at = "candidate"]
    /\ UNCHANGED <<store, registry, log, meta, artifact, engine, begun, moves, unlogged>>

GateChallenger(u) ==
    /\ job[u].at = "candidate"
    /\ IF challenger = 0 THEN Done(u)
       ELSE job' = [job EXCEPT ![u].version = challenger, ![u].at = "gate",
                               ![u].stale = @ \ {"challenger"}]
    /\ UNCHANGED <<store, registry, log, meta, artifact, engine, begun, moves, unlogged>>

\* The hard gates on the metrics MLflow has for the two; the technical one, whose own
\* look-up of the alias comes last; and a metric that cannot be fetched fails its gate.
\* The contract gates compare what every training logs: FROZEN_* with itself.
GatePasses(u, fetched) ==
    LET new == versions[job[u].version]
        old == versions[job[u].base]
    IN  /\ fetched
        /\ WithinMargin(new.recall, old.recall)
        /\ new.precision >= Floor
        /\ Cardinality(FeatureColumns("+physics")) = 14
        /\ versions[challenger].sound

Gate(u) ==
    /\ job[u].at = "gate"
    /\ \E fetched \in BOOLEAN :
         Go(u, IF GatePasses(u, fetched) THEN "champion" ELSE "refused")
    /\ UNCHANGED <<store, registry, log, meta, artifact, engine, begun, moves, unlogged>>

LogRefused(u) ==
    /\ job[u].at = "refused"
    /\ append_audit_log("promotion_gate_failed", job[u].version, 0, TRUE)
    /\ Done(u)
    /\ UNCHANGED <<store, registry, meta, artifact, engine, begun, moves, unlogged>>

\* rollback_champion: the target need only be in the registry.
StartRollback(u) ==
    /\ job[u].op = "idle" /\ begun < MaxOps
    /\ begun' = begun + 1
    /\ \E target \in DOMAIN versions :
         job' = [job EXCEPT ![u] = [Idle EXCEPT !.op = "rollback", !.at = "current",
                                    !.version = target]]
    /\ UNCHANGED <<store, registry, log, meta, artifact, engine, moves, unlogged>>

ReadDemoted(u) ==
    /\ job[u].at = "current"
    /\ job' = [job EXCEPT ![u].prev = champion, ![u].at = "champion",
                          ![u].stale = @ \ {"champion"}]
    /\ UNCHANGED <<store, registry, log, meta, artifact, engine, begun, moves, unlogged>>

Audited == {"promote", "rollback"}
Move(u) == [op |-> job[u].op, from |-> champion, to |-> job[u].version]

SetChampion(u) ==
    /\ job[u].at = "champion"
    /\ champion' = job[u].version
    /\ engine' = EngineSees("champion")
    /\ job' = [Touched(u, "champion") EXCEPT ![u] =
                 IF job[u].op \in Audited THEN [@ EXCEPT !.at = "log"] ELSE Idle]
    /\ moves' = moves \cup {Move(u)}
    /\ UNCHANGED <<store, versions, challenger, log, meta, artifact, begun, unlogged>>

\* Mutant: the entry names the champion the gate compared with, read later.
LogMoveBase(u) ==
    /\ job[u].op \in Audited /\ job[u].at = "log"
    /\ append_audit_log(job[u].op, job[u].version, job[u].base, "champion" \notin job[u].stale)
    /\ Done(u)
    /\ UNCHANGED <<store, registry, meta, artifact, engine, begun, moves, unlogged>>

\* promotion_completed, rollback_executed: after the alias has moved.
LogMove(u) ==
    /\ job[u].op \in Audited /\ job[u].at = "log"
    /\ append_audit_log(job[u].op, job[u].version, job[u].prev, "champion" \notin job[u].stale)
    /\ Done(u)
    /\ UNCHANGED <<store, registry, meta, artifact, engine, begun, moves, unlogged>>

-----------------------------------------------------------------------------
\* The process dies, or the operation raises outside the except clause of a retraining.
Die(u) ==
    /\ job[u].op # "idle"
    /\ unlogged' = IF job[u].op \in Audited /\ job[u].at = "log"
                     THEN unlogged \cup {<<job[u].op, job[u].version>>} ELSE unlogged
    /\ artifact' = IF artifact.writer = u THEN File(artifact.model, NaN, 0) ELSE artifact
    /\ Done(u)
    /\ UNCHANGED <<store, registry, log, meta, engine, begun, moves>>

-----------------------------------------------------------------------------
(* ModelEngine, loaded once for the life of the API process *)

Off == [at |-> "off", label |-> 0, via |-> "none", model |-> NaN, moved |-> FALSE]

\* The version "edgetwin-risk:v2-champion" names.
LocalLabel == 2

\* _load_risk_model: the local files are preferred, whatever the registry says, and get
\* the same label whatever they hold.
LoadLocal ==
    /\ engine.at = "off" /\ artifact # NoFile
    /\ engine' = [Off EXCEPT !.at = "ready", !.label = LocalLabel, !.via = "file",
                             !.model = artifact]
    /\ UNCHANGED <<store, registry, log, meta, artifact, job, begun, moves, unlogged>>

Aliases(v) == {a \in {"champion", "challenger"} :
                 v = IF a = "champion" THEN champion ELSE challenger}

\* Where the local files are missing, or cannot be read: first the version of the alias,
\* which names the label, and its aliases, of which the first is kept, in whatever order.
FindChampion ==
    /\ engine.at = "off" /\ champion # 0
    /\ \E a \in Aliases(champion) :
         engine' = [Off EXCEPT !.at = "loading", !.label = champion, !.via = a]
    /\ UNCHANGED <<store, registry, log, meta, artifact, job, begun, moves, unlogged>>

\* load_model resolves the alias a second time.
LoadModel ==
    /\ engine.at = "loading"
    /\ engine' = [engine EXCEPT !.at = "ready",
                    !.model = IF engine.via = "champion" THEN champion ELSE challenger]
    /\ UNCHANGED <<store, registry, log, meta, artifact, job, begun, moves, unlogged>>

RestartApi ==
    /\ engine.at # "off"
    /\ engine' = Off
    /\ UNCHANGED <<store, registry, log, meta, artifact, job, begun, moves, unlogged>>

-----------------------------------------------------------------------------
Registered(m, read) == [recall |-> m.recall, precision |-> m.precision, sound |-> m.sound,
                        read |-> read, mine |-> TRUE, stale |-> {}]

\* A champion has just been registered, and its files are where the API looks for them; or
\* a challenger has been trained since, and the API is deployed without the files.
Init ==
    /\ data = 1 /\ files = [f \in Files |-> 1]
    /\ \E m, n \in Trainings :
         /\ m.sound
         /\ \/ versions = <<Registered(m, <<1, 1, 1>>)>> /\ artifact = File(m, NaN, 1)
            \/ /\ versions = <<Registered(m, <<1, 1, 1>>), Registered(n, <<1, 1, 1, 1>>)>>
               /\ artifact = NoFile
    /\ champion = 1 /\ challenger = Len(versions)
    /\ log = {} /\ meta = NaN /\ engine = Off
    /\ job = [u \in Users |-> Idle]
    /\ begun = 0 /\ moves = {} /\ unlogged = {}

Next ==
    \/ \E u \in Users :
         \/ Prepare(u) \/ SaveSplit(u)
         \/ StartRetrain(u) \/ StartRegister(u) \/ ReadSplit(u) \/ Train(u)
         \/ RegisterVersion(u) \/ FindLatest(u) \/ SetChallenger(u) \/ LogRetrain(u)
         \/ RetrainFails(u) \/ VerifyRegistered(u)
         \/ StartPromote(u) \/ GateChampion(u) \/ GateChallenger(u) \/ Gate(u)
         \/ LogRefused(u) \/ StartRollback(u) \/ ReadDemoted(u)
         \/ SetChampion(u) \/ LogMove(u) \/ Die(u)
    \/ LoadLocal \/ FindChampion \/ LoadModel \/ RestartApi

Spec == Init /\ [][Next]_vars

-----------------------------------------------------------------------------
(* Properties *)

TypeOK ==
    /\ data \in Generations /\ files \in [Files -> Generations]
    /\ \A v \in DOMAIN versions :
         /\ \E m \in Trainings : /\ versions[v].recall = m.recall
                                 /\ versions[v].precision = m.precision
                                 /\ versions[v].sound = m.sound
         /\ Range(versions[v].read) \subseteq Generations
         /\ versions[v].mine \in BOOLEAN /\ versions[v].stale \subseteq {"splits", "meta"}
    /\ champion \in DOMAIN versions /\ challenger \in DOMAIN versions
    /\ meta \in Users \cup {NaN}
    /\ artifact.model \in Trainings \cup {NaN} /\ artifact.version \in Version
    /\ engine.at \in {"off", "loading", "ready"} /\ engine.label \in Version \cup {LocalLabel}
    /\ \A u \in Users : job[u].op \in {"idle", "pipeline", "retrain", "register",
                                       "promote", "rollback"}
    /\ begun \in 0 .. MaxOps
    /\ moves \subseteq [op : Audited \cup {"register"}, from : Version, to : Version]
    /\ unlogged \subseteq Audited \X Version
    /\ \A e \in log : e.version \in Version /\ e.from \in Version

\* A promotion never puts in the champion's place a version that is worse than it by more
\* than the margin, too imprecise or not sound: whatever was registered, promoted or
\* rolled back meanwhile, unless the champion moved since the operation began, or the
\* challenger while its gate was evaluated.
PromotionsProtected ==
    [][\A u \in Users :
         job[u].op = "promote" /\ job[u].at = "champion" /\ job'[u].at = "log" =>
           LET old == versions[champion]
               new == versions[champion']
           IN  /\ new.precision >= Floor
               /\ "champion" \notin job[u].stale => new.recall >= old.recall - Margin
               /\ "challenger" \notin job[u].stale => new.sound]_vars

\* The audit log and the registry agree, in both directions. Every promotion and rollback
\* of the champion has its entry, but for one whose operation is about to write it or died
\* there; no entry tells of a move that was not made; and the version an entry says was
\* replaced is the one that was, unless another move came in between.
AuditAgrees ==
    /\ \A m \in moves : m.op \in Audited =>
         \/ \E e \in log : e.event = m.op /\ e.version = m.to
         \/ \E u \in Users : job[u].op = m.op /\ job[u].at = "log" /\ job[u].version = m.to
         \/ <<m.op, m.to>> \in unlogged
    /\ \A e \in log : e.event \in Audited =>
         \E m \in moves : /\ m.op = e.event /\ m.to = e.version
                          /\ e.sure => m.from = e.from

\* What a retraining records is its own: the version it reports is the one it registered,
\* and the metadata attached to it are those of its data, unless another training wrote
\* or registered in the very interval.
RetrainingsKeptApart ==
    /\ \A e \in log : e.event = "retrain_completed" /\ e.sure => e.version = e.from
    /\ \A v \in DOMAIN versions : "meta" \notin versions[v].stale => versions[v].mine

TrainedOn(v) == LET r == versions[v].read IN IF Len(r) = 4 THEN r[3] ELSE r[1]
Validated(v) == LET r == versions[v].read IN IF Len(r) = 4 THEN r[4] ELSE r[2]

RepeatsOnlyNullified(df) ==
    \A i, j \in DOMAIN df : i # j /\ Compared(df[i]) = Compared(df[j]) => df[i].reading = NaN

\* No machine in both, and no row twice, but for rows that became alike when their readings
\* were nullified.
Separate == { p \in Generations \X Generations :
    LET train == Dataset[p[1]].train
        val   == Dataset[p[2]].val
    IN  /\ machine_overlap(train, val) = {}
        /\ RepeatsOnlyNullified(train) /\ RepeatsOnlyNullified(val) }

\* A version whose split files were not rewritten while it read them, nor left half
\* written by a pipeline that died, was trained on data of the recorded hashes, and
\* validated on other machines and other rows.
TrainingDataSound ==
    \A v \in DOMAIN versions : "splits" \notin versions[v].stale =>
      /\ versions[v].read[1] = TrainedOn(v) /\ versions[v].read[2] = Validated(v)
      /\ <<TrainedOn(v), Validated(v)>> \in Separate

\* r is what a registration, not a retraining, made of the training m.
RegisteredAs(r, m) ==
    /\ Len(r.read) = Len(Reads("register"))
    /\ r.recall = m.recall /\ r.precision = m.precision /\ r.sound = m.sound

\* What the engine serves through the registry is the version it reports, unless the alias
\* it loads through moved between its two look-ups. Of the local file its label says
\* nothing (it is LocalLabel, whatever the file holds, and the model may have failed its
\* gate); but the version registered from what it serves, if one was when it was loaded,
\* is of that very training, and of a registration: never what a retraining brought,
\* whoever wrote the file and registered in between.
ServedModelKnown ==
    engine.at = "ready" =>
      IF engine.via = "file"
        THEN engine.model.version # 0 =>
               RegisteredAs(versions[engine.model.version], engine.model.model)
        ELSE ~engine.moved => engine.model = engine.label
=============================================================================
