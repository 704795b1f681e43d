----------------------------- MODULE MCMonitoring -----------------------------
(***************************************************************************)
(* Four kinds of sample: calm; a little at risk, with a factor that        *)
(* explains it; a worn tool, a reading missing; and tripped, with a score  *)
(* that is not bad and a detector that fails.  And three that the contract *)
(* rejects.                                                                *)
(***************************************************************************)
EXTENDS Monitoring, TLC

CONSTANTS m1, m2, vibration, pressure

Message(m, vib, press, worn, trip) ==
    [machine |-> m, fields |-> {"signals"}, parses |-> TRUE, fits |-> TRUE, derived |-> TRUE,
     reading |-> (vibration :> vib) @@ (pressure :> press),
     quality |-> (vibration :> "OK") @@ (pressure :> "LIMIT_ALARM"),
     worn |-> worn, trip |-> trip]
Calm(m) == Message(m, "within", "within", FALSE, FALSE)

MCMessages == UNION
    { { Calm(m), Message(m, "beyond", "within", FALSE, FALSE),
        Message(m, "absent", "within", TRUE, FALSE), Message(m, "within", "beyond", FALSE, TRUE),
        [Calm(m) EXCEPT !.fields = {"signals", "Failure_Type"}, !.fits = FALSE],
        [Calm(m) EXCEPT !.parses = FALSE] } : m \in Machines }

MCTypeOf == [m \in Machines |-> "Motor"]

Features(vib, press) ==
    (vibration :> vib) @@ (pressure :> press) @@ ("Machine_Type" :> "Motor")
Outcome(p, a, factors) == [p |-> p, a |-> a, factors |-> factors]

MCModels ==
    (Features("within", "within") :> Outcome(5, 40, None))
    @@ (Features("beyond", "within")
          :> Outcome(14, 49, <<[feature |-> "Torque_Nm", shap |-> 1]>>))
    @@ (Features(None, "within") :> Outcome(90, None, Fails))
    @@ (Features("within", "beyond") :> Outcome(10, Fails, <<>>))

Statistic(count, psi, p, ks, missing) ==
    [count |-> count, psi |-> psi, p |-> p, ks |-> ks, missing |-> missing]

\* A drift by PSI; one by KS, where a category has moved a little; too few readings.
MCStatistics ==
    { ("Torque_Nm" :> numeric) @@ ("Machine_Type" :> Statistic(2, psi, 0, 0, 0)) :
        <<numeric, psi>> \in { <<Statistic(2, 30, 50, 2, 0), 0>>, <<Statistic(2, 0, 1, 15, 0), 10>>,
                              <<Statistic(1, 30, 1, 15, 50), 25>> } }

MCListings == [machine |-> {"telemetry", "predictions", "snapshots"}, fleet |-> {"alerts", "open"}]

\* Nothing after the answer.
Asking == answer = Idle
Symmetry == Permutations({m1, m2})
=============================================================================
