------------------------------ MODULE HealthRules ------------------------------
(***************************************************************************)
(* What the API makes of one sample: the score and the state of            *)
(* ml/models/health.py, the alert and the recommendation of the health     *)
(* engine.  Probabilities and anomaly scores are percentages, health       *)
(* scores and penalties hundredths of a point.                             *)
(***************************************************************************)
EXTENDS Contract

CONSTANTS
    Models,  \* what the models make of a row of features: p, a and the factors; of the last
             \* two None where there is no detector or no explainer
    Fails    \* or that it fails

Least(a, b) == IF a <= b THEN a ELSE b
Clip(x, top) == IF x < 0 THEN 0 ELSE Least(x, top)

-----------------------------------------------------------------------------
(* engine.py and thresholds.py *)

predict_risk(features) == Models[features].p

\* A detector that fails finds an anomaly.
predict_anomaly(features) ==
    LET a == Models[features].a IN IF a = Fails THEN 50 ELSE a

explain(features) ==
    LET factors == Models[features].factors
    IN  IF factors \in {None, Fails} THEN <<>> ELSE factors

classify_risk_band(p) ==
    CASE p < 15 -> "LOW" [] p = 15 -> "MEDIUM" [] p \in 16 .. 79 -> "HIGH"
      [] OTHER -> "CRITICAL"

-----------------------------------------------------------------------------
(* health.py, on x: p and a, the counts out and missing, worn, technician, offline, trip *)

compute_sensor_penalty(x) == 100 * Least(15, 5 * x.out + 5 * x.missing)

compute_health_score(x) ==
    IF x.offline \/ x.p = None THEN None
    ELSE Clip(10000 - (60 * Clip(x.p, 100)
                         + 25 * (IF x.a = None THEN 0 ELSE Clip(x.a, 100))
                         + compute_sensor_penalty(x)), 10000)

Anomalous(x) == x.a # None /\ x.a >= 50

\* Mutant: the limits of the states are those of the fleet's page.
ExceedsLate(x) == compute_health_score(x) < 7000 \/ x.p >= 15

Exceeds(x) == compute_health_score(x) < 8000 \/ x.p >= 15

\* The first that applies.
determine_health_state(x) ==
    IF compute_health_score(x) = None THEN "OFFLINE"
    ELSE IF x.worn \/ x.technician THEN "MAINTENANCE_REQUIRED"
    ELSE IF compute_health_score(x) < 5000 \/ x.p >= 80 \/ x.trip THEN "CRITICAL"
    ELSE IF Exceeds(x) \/ Anomalous(x) \/ compute_sensor_penalty(x) > 0 \/ x.missing >= 3
      THEN "WARNING"
    ELSE "HEALTHY"

-----------------------------------------------------------------------------
(* health_engine.py and recommendations.py *)

\* What is counted: the payload's own flags, not those the validator found.
Counted(payload, p, a) ==
    LET missing == {s \in Sensors : payload.reading[s] = "absent"}
    IN  [p |-> p, a |-> a, missing |-> Cardinality(missing),
         out |-> Cardinality({s \in Sensors \ missing : payload.quality[s] = "OUT_OF_RANGE"}),
         worn |-> payload.worn, trip |-> payload.trip, technician |-> FALSE, offline |-> FALSE]

Alarm(severity, type) == [severity |-> severity, type |-> type]
Alarming == {"WARNING", "CRITICAL"}
ASSUME AlarmingAssumption == None \notin Alarming

\* The alert, after an evaluation whose severity was previous.
alert(x, previous) ==
    LET state == determine_health_state(x)
    IN  IF x.trip THEN Alarm("CRITICAL", "HARDWARE_SAFETY_TRIP")
        ELSE CASE state = "CRITICAL" -> Alarm("CRITICAL", "CRITICAL_MACHINE_HEALTH")
               [] state = "MAINTENANCE_REQUIRED" -> Alarm("WARNING", "MAINTENANCE_REQUIRED")
               [] state = "WARNING" -> Alarm("WARNING", "WARNING_ELEVATED_RISK")
               [] state = "OFFLINE" -> Alarm("INFO", "MACHINE_OFFLINE")
               [] state = "HEALTHY" /\ previous \in Alarming -> Alarm("INFO", "RECOVERED_TO_HEALTHY")
               [] OTHER -> Alarm(None, None)

\* The component a feature points to; of the others nothing is recommended.
Component ==
    [f \in {"Process_Temperature_C", "Delta_T_C", "Air_Temperature_C"} |-> "THERMAL_COOLING"] @@
    [f \in {"Current_A", "Voltage_V", "Apparent_Power_VA"} |-> "ELECTRICAL_SUPPLY"] @@
    [f \in {"Torque_Nm", "Rotational_Speed_RPM", "Mech_Power_W"} |-> "DRIVE_TRAIN"] @@
    [f \in {"Vibration_mm_s"} |-> "BEARINGS_ROTORS"] @@
    [f \in {"Pressure_bar"} |-> "PRESSURE_HYDRAULICS"] @@
    [f \in {"Tool_Wear_Min"} |-> "TOOLING"]

\* The factors that raise the risk and point somewhere, in the order of their weight.
Pointing(factors) ==
    SelectSeq(factors, LAMBDA f : f.shap > 0 /\ f.feature \in DOMAIN Component)

Advice(component, urgency) == [component |-> component, urgency |-> urgency]

generate_recommendation(x, factors) ==
    LET state  == determine_health_state(x)
        at_risk == state \in Alarming \/ (x.p # None /\ x.p >= 16)
        high   == x.p # None /\ x.p >= 80
    IN  IF x.trip THEN Advice("SAFETY_SYSTEM", "IMMEDIATE")
        ELSE IF state = "OFFLINE" THEN Advice("COMMUNICATIONS", "LOW")
        ELSE IF state = "MAINTENANCE_REQUIRED" \/ x.worn
          THEN Advice("TOOLING", IF high THEN "HIGH" ELSE "MEDIUM")
        ELSE IF at_risk /\ Pointing(factors) # <<>>
          THEN Advice(Component[Pointing(factors)[1].feature],
                      IF state = "CRITICAL" \/ high THEN "HIGH" ELSE "MEDIUM")
        ELSE IF x.out > 0 \/ x.missing >= 3 THEN Advice("SENSORS_TELEM", "MEDIUM")
        ELSE IF Anomalous(x) THEN Advice("GENERAL_SYSTEM", "MEDIUM")
        ELSE Advice("SYSTEM", "ROUTINE")
=============================================================================
