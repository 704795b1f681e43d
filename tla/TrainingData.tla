---------------------------- MODULE TrainingData ----------------------------
(***************************************************************************)
(* What ml/data computes: the prepared dataset (ml/data/prepare.py), its   *)
(* split by machine (ml/data/splits.py), and the columns of a feature set  *)
(* with the leakage guard (ml/data/features.py, engineering.py).           *)
(*                                                                         *)
(* A dataframe is a function from row labels, which pandas keeps when rows *)
(* are dropped, to rows.  The ten sensor columns are one column, reading,  *)
(* with one range; a machine is its identifier's prefix and a number.      *)
(***************************************************************************)
EXTENDS Integers, Sequences, SequencesExt

CONSTANTS
    PrefixMap,  \* MACHINE_ID_PREFIX_MAP: known prefixes, each to its type
    Lo, Hi,     \* SENSOR_RANGES
    TrainPct,   \* train_frac and val_frac, in percent
    ValPct,
    NaN         \* a missing value

-----------------------------------------------------------------------------
(* prepare.py *)

Columns == {"machine", "type", "reading", "failure", "batch"}

\* A dataframe as it is read: integer labels, and rows of these columns.
Frame(df) ==
    /\ DOMAIN df \subseteq Int
    /\ \A i \in DOMAIN df : df[i] = [c \in Columns |-> df[i][c]]

DerivedType(machine) ==
    IF machine[1] \in DOMAIN PrefixMap THEN PrefixMap[machine[1]] ELSE NaN

\* The derived type replaces the given one, also where it is missing or they conflict.
derive_machine_type(df) ==
    [i \in DOMAIN df |-> [df[i] EXCEPT !.type = DerivedType(df[i].machine)]]

\* DUPLICATE_IGNORE_COLUMNS: what two duplicates may differ in.
Compared(row) == [row EXCEPT !.batch = NaN]

remove_duplicates(df) ==
    Restrict(df, {i \in DOMAIN df :
                    \A j \in DOMAIN df : j < i => Compared(df[j]) # Compared(df[i])})

InRange(reading) == reading # NaN => Lo <= reading /\ reading <= Hi

\* Out of range is taken for missing: no clipping, and no row is dropped.
validate_ranges(df) ==
    [i \in DOMAIN df |-> IF InRange(df[i].reading) THEN df[i]
                         ELSE [df[i] EXCEPT !.reading = NaN]]

\* Mutant: duplicates are looked for in the file as it came.
prepare_datasetDedupFirst(df) ==
    validate_ranges(derive_machine_type(remove_duplicates(df)))

prepare_dataset(df) == validate_ranges(remove_duplicates(derive_machine_type(df)))

-----------------------------------------------------------------------------
(* splits.py *)

Splits == <<"train", "val", "test">>

\* Python's round: to the nearest integer, halves to the even one.
Round(p, q) ==
    LET down == p \div q
        rest == 2 * (p % q)
    IN  IF rest < q \/ (rest = q /\ down % 2 = 0) THEN down ELSE down + 1

Quotas(n) ==
    LET train == Round(n * TrainPct, 100)
        val   == Round(n * ValPct, 100)
    IN  [train |-> train, val |-> val, test |-> n - train - val]

\* The split after k turns of the cycle.
Cycle(k) == Splits[(k % 3) + 1]

\* One machine of the ranking: the next split of the cycle with room; none has room only
\* when every quota is used up.
Deal(quotas, state, machine) ==
    LET room(k) == state.counts[Cycle(k)] < quotas[Cycle(k)]
        turns   == {d \in 0 .. 2 : room(state.next + d)}
    IN  IF turns = {} THEN state
        ELSE LET at == state.next + Min(turns)
             IN  [next   |-> at + 1,
                  counts |-> [state.counts EXCEPT ![Cycle(at)] = @ + 1],
                  of     |-> [state.of EXCEPT ![machine] = Cycle(at)]]

_assign_machines_to_splits(ranking) ==
    LET quotas == Quotas(Len(ranking))
        deal(state, machine) == Deal(quotas, state, machine)
        start == [next   |-> 0,
                  counts |-> [train |-> 0, val |-> 0, test |-> 0],
                  of     |-> [m \in ToSet(ranking) |-> NaN]]
    IN  FoldLeft(deal, start, ranking).of

MachinesOf(df) == {df[i].machine : i \in DOMAIN df}

Failures(df, m) == Cardinality({i \in DOMAIN df : df[i].machine = m /\ df[i].failure = 1})
RowsOf(df, m)   == Cardinality({i \in DOMAIN df : df[i].machine = m})

\* By failure rate; the seeded noise that breaks ties is left to CHOOSE.
Ranked(df) ==
    SetToSortSeq(MachinesOf(df), LAMBDA a, b :
        Failures(df, a) * RowsOf(df, b) < Failures(df, b) * RowsOf(df, a))

\* The rows of each split: those of its machines.
split_dataset(df) ==
    LET of == _assign_machines_to_splits(Ranked(df))
    IN  [s \in ToSet(Splits) |-> RestrictDomain(df, LAMBDA i : of[df[i].machine] = s)]

\* split_stats: the machines two of the splits share.
machine_overlap(a, b) == MachinesOf(a) \cap MachinesOf(b)

-----------------------------------------------------------------------------
(* features.py and engineering.py *)

NUMERIC_SENSOR_COLUMNS ==
    {"Air_Temperature_C", "Process_Temperature_C", "Rotational_Speed_RPM", "Torque_Nm",
     "Vibration_mm_s", "Pressure_bar", "Current_A", "Voltage_V", "Tool_Wear_Min",
     "Operating_Hours"}
FORBIDDEN_FEATURE_COLUMNS ==
    {"Failure_Type", "Machine_ID", "Timestamp", "Sensor_Batch_Code", "Checksum_Flag"}
PHYSICS_COLS == {"Delta_T_C", "Apparent_Power_VA", "Mech_Power_W"}

FeatureColumns(set) ==
    NUMERIC_SENSOR_COLUMNS \cup {"Machine_Type"}
      \cup (IF set = "base10" THEN {} ELSE PHYSICS_COLS)
      \cup (IF set = "+wear_rate" THEN {"Wear_Rate"} ELSE {})

Leaks(columns) == columns \cap FORBIDDEN_FEATURE_COLUMNS # {}
=============================================================================
