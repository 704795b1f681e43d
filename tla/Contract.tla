-------------------------------- MODULE Contract --------------------------------
(***************************************************************************)
(* The telemetry contract (simulation/contract.py) and the two readers of  *)
(* a message that passed it: the table's row (ingest/normalizer.py) and    *)
(* the row of features the models are asked about.                         *)
(*                                                                         *)
(* A message has a set of fields, whether its time parses and it fits the  *)
(* schema, its machine, and by sensor a reading: "absent", "within" or     *)
(* "beyond" its range.  "derived" is whether what the edge derived agrees  *)
(* with its readings.                                                      *)
(***************************************************************************)
EXTENDS Integers, FiniteSets, Sequences, SequencesExt

CONSTANTS
    Sensors,  \* the signals of the contract
    TypeOf,   \* MACHINE_ID_PREFIX_MAP: the type of a machine whose prefix is known
    None      \* no value: NaN in a dataframe, None elsewhere

ASSUME SensorsAssumption == IsFiniteSet(Sensors)
ASSUME NoneAssumption == None \notin Int

FORBIDDEN_TELEMETRY_FIELDS ==
    {"Failure_Type", "Machine_Failure", "Sensor_Batch_Code", "Checksum_Flag"}

\* What ends the validation before it looks any deeper.
FatalErrors(message) ==
    (message.fields \cap FORBIDDEN_TELEMETRY_FIELDS)
      \cup (IF message.parses THEN {} ELSE {"ts"}) \cup (IF message.fits THEN {} ELSE {"schema"})

\* A reading's flag; the edge's own is kept where there is a reading in its range.
quality_flags(message) ==
    [s \in Sensors |-> CASE message.reading[s] = "absent" -> "MISSING"
                         [] message.reading[s] = "beyond" -> "OUT_OF_RANGE"
                         [] OTHER -> message.quality[s]]

Warnings(message) ==
    (IF message.machine \in DOMAIN TypeOf THEN {} ELSE {"prefix"})
      \cup {s \in Sensors : message.reading[s] = "beyond"}
      \cup (IF message.derived THEN {} ELSE {"derived"})

\* topic is the machine whose topic the message came on.
validate(message, topic) ==
    LET fatal == FatalErrors(message)
    IN  IF fatal # {} THEN [valid |-> FALSE, warnings |-> {}, quality_flags |-> <<>>]
        ELSE [valid |-> topic = message.machine, warnings |-> Warnings(message),
              quality_flags |-> quality_flags(message)]

\* The row: any reading, and the edge's flags, not those of the validation.
normalize_telemetry(message, ts) ==
    [machine |-> message.machine, ts |-> ts, reading |-> message.reading,
     quality |-> message.quality, worn |-> message.worn, trip |-> message.trip]

\* A reading beyond its range is a feature like any other, here; prepare.py, which makes
\* the data the models are trained on, takes it for missing.
telemetry_to_feature_df(message) ==
    [s \in Sensors |-> IF message.reading[s] = "absent" THEN None ELSE message.reading[s]]
      @@ [c \in {"Machine_Type"} |-> IF message.machine \in DOMAIN TypeOf
                                        THEN TypeOf[message.machine] ELSE "Unknown"]
=============================================================================
