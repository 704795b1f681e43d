---------------------------- MODULE MCGovernance ----------------------------
(***************************************************************************)
(* Two users, and two generations of a dataset of seven machines.  The     *)
(* first repeats a row with another batch code and with another type, has  *)
(* a row out of range twice, which become alike, and an unknown prefix;    *)
(* the second ranks the machines the other way round, so that the same     *)
(* machine changes split between the two.                                  *)
(***************************************************************************)
EXTENDS Governance, ModelEvaluation

CONSTANTS u1, u2

MCPrefixMap == [CMP |-> "Compressor", PMP |-> "Pump"]
MCUsers     == {u1, u2}
Symmetry    == Permutations(MCUsers)

Row(prefix, n, type, reading, failure, batch) ==
    [machine |-> <<prefix, n>>, type |-> type, reading |-> reading,
     failure |-> failure, batch |-> batch]

Fleet(rate(_)) ==
    [n \in 1 .. 6 |-> Row("CMP", n, NaN, 5, rate(n), "b1")]

MCRawData ==
    << Fleet(LAMBDA n : IF n > 3 THEN 1 ELSE 0) \o
       << Row("CMP", 1, "Compressor", 5, 0, "b2"), Row("CMP", 1, "Pump", 5, 0, "b2"),
          Row("CMP", 2, NaN, -1, 0, "b1"), Row("CMP", 2, NaN, 99, 0, "b1"),
          Row("XYZ", 7, "Pump", 5, 1, "b1") >>,
       Fleet(LAMBDA n : IF n > 3 THEN 0 ELSE 1) >>

\* Margin 1 and Floor 1: the second is too far below the first, the third is too imprecise
\* and fails the technical gate.
MCTrainings ==
    { [recall |-> 8, precision |-> 3, sound |-> TRUE],
      [recall |-> 6, precision |-> 3, sound |-> TRUE],
      [recall |-> 9, precision |-> 0, sound |-> FALSE] }

-----------------------------------------------------------------------------
(* ModelEvaluation, over three rows: every labelling, and probabilities at *)
(* and about the bounds of bands, bins and thresholds; the theorems say it *)
(* of every input.                                                         *)

Labels == [1 .. 3 -> {0, 1}]
Scores == [1 .. 3 -> {0, 14, 50, 80, 100}]
Sweep  == <<10, 50, 90>>

\* ThresholdTrades and DearerMissesFewer, for the cost ratios of the code.
ASSUME Thresholds ==
    \A y \in Labels, p \in Scores :
        /\ \A t, u \in ToSet(Sweep) : ThresholdTrades(y, p, t, u)
        /\ \A r, q \in {1, 3, 5, 10} : DearerMissesFewer(y, p, Sweep, r, q)

\* The optimal F1 is at least that of any threshold, and what meets the target comes with
\* the best F1 first.
ASSUME TargetsMet ==
    \A y \in Labels, p \in Scores :
        LET items == sweep_thresholds(y, p, Sweep)
            best  == F1(find_f1_optimal_threshold(items).counts)
            met   == find_prd_target_thresholds(items, 85, 70)
        IN  /\ \A k \in DOMAIN items : AtLeast(best, F1(items[k].counts))
            /\ met # <<>> => F1(met[1].counts) = best

\* The failures of each type, and those found, add up to those of all rows.
ASSUME FailureTypes ==
    \A y \in Labels, positives \in SUBSET (1 .. 3), types \in [1 .. 3 -> {"tool", "heat"}] :
        LET by    == per_failure_type_recall(y, positives, types)
            sum(f) == MapThenSumSet(LAMBDA type : by[type][f], DOMAIN by)
            c     == compute_confusion_matrix(y, positives)
        IN  sum("failures") = c.tp + c.fn /\ sum("detected") = c.tp

\* Every row is in one bin, and the error of the bins is at most that of the rows.
ASSUME Bins ==
    \A p \in Scores, n \in {1, 3, 10} :
        /\ \A i \in 1 .. 3 : Quantify(1 .. n, LAMBDA k : i \in Bin(p, n, k)) = 1
        /\ \A y \in Labels : compute_calibration_metrics(y, p, n).ece
                               <= MapThenSumSet(LAMBDA i : Max({p[i] - 100 * y[i],
                                                               100 * y[i] - p[i]}), 1 .. 3)

\* BandsDecide, wherever the threshold is within the bounds of the bands.
ASSUME Bands == \A p, q \in 0 .. 100, t \in {15, 16, 50, 80} : BandsDecide(p, q, t)

\* CalibrationHelps, about the margins of 2 % and 20 %.
ASSUME Calibrations ==
    LET metric(base, pr) == [brier_score : base, pr_auc : pr]
    IN  \A m \in [uncalibrated : metric({100}, {500}), sigmoid : metric(96 .. 99, 494 .. 500),
                  isotonic : metric(76 .. 81, 499 .. 500)] : CalibrationHelps(m)

\* ScoresOrdered, with and without a reference, in and out of its range.
ASSUME Anomalies ==
    \A nominal \in -1 .. 3, delta \in (-1 .. 3) \cup {NaN}, a, b \in (-3 .. 3) \cup {NaN} :
        ScoresOrdered([s_nominal |-> nominal, delta |-> delta], a, b)

\* ChampionUnbeaten; of equals, the first.
ASSUME Champions ==
    \A results \in SeqOf([pr_auc : 0 .. 1, recall : 0 .. 1, n : 1 .. 2], 3) \ {<<>>} :
        ChampionUnbeaten(results)
=============================================================================
