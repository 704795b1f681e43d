---------------------------- MODULE ModelEvaluation ----------------------------
(***************************************************************************)
(* What ml/models concludes from the output of a fitted model on labelled  *)
(* rows: counts and ratios (evaluate.py), the sweep of decision thresholds *)
(* and the risk bands (thresholds.py), the choice of a calibration         *)
(* (calibrate.py), the anomaly score (anomaly.py) and the champion of a    *)
(* comparison (compare.py).                                                *)
(*                                                                         *)
(* y gives each row its label, 0 or 1; p its probability, in percent.  A   *)
(* ratio is a pair, compared without dividing.  The areas under the ROC    *)
(* and precision-recall curves are numbers that come with a result.        *)
(***************************************************************************)
EXTENDS TrainingData, FiniteSetsExt

\* a / b if b > 0 else 0.0
Ratio(a, b) == IF b > 0 THEN <<a, b>> ELSE <<0, 1>>

Above(a, b)   == a[1] * b[2] > b[1] * a[2]
AtLeast(a, b) == ~Above(b, a)

\* What Python's max and min return: the first of those that no other is better than.
Best(items, better(_, _)) ==
    items[CHOOSE k \in DOMAIN items : \A j \in DOMAIN items :
            ~better(items[j], items[k]) /\ (j < k => better(items[k], items[j]))]

-----------------------------------------------------------------------------
(* evaluate.py *)

Failing(y) == {i \in DOMAIN y : y[i] = 1}

\* Of the rows, those predicted to fail are the positives.
compute_confusion_matrix(y, positives) ==
    [tn |-> Cardinality(DOMAIN y \ (Failing(y) \cup positives)),
     fp |-> Cardinality(positives \ Failing(y)),
     fn |-> Cardinality(Failing(y) \ positives),
     tp |-> Cardinality(Failing(y) \cap positives)]

Precision(c) == Ratio(c.tp, c.tp + c.fp)
Recall(c)    == Ratio(c.tp, c.tp + c.fn)
F1(c)        == Ratio(2 * c.tp, 2 * c.tp + c.fp + c.fn)

compute_metrics(y, positives) ==
    LET c == compute_confusion_matrix(y, positives)
    IN  [accuracy |-> Ratio(c.tp + c.tn, Cardinality(DOMAIN y)),
         precision |-> Precision(c), recall |-> Recall(c), f1 |-> F1(c)]

per_failure_type_recall(y, positives, types) ==
    [type \in {types[i] : i \in DOMAIN y} |->
        LET failing  == {i \in Failing(y) : types[i] = type}
            detected == failing \cap positives
        IN  [count    |-> Cardinality({i \in DOMAIN y : types[i] = type}),
             failures |-> Cardinality(failing),
             detected |-> Cardinality(detected),
             recall   |-> Ratio(Cardinality(detected), Cardinality(failing))]]

-----------------------------------------------------------------------------
(* thresholds.py *)

Positives(p, t) == {i \in DOMAIN p : p[i] >= t}

sweep_thresholds(y, p, thresholds) ==
    [k \in DOMAIN thresholds |->
        [threshold |-> thresholds[k],
         counts    |-> compute_confusion_matrix(y, Positives(p, thresholds[k]))]]

Cost(item, r) == r * item.counts.fn + item.counts.fp

\* Higher recall breaks ties, then the lower threshold; a sweep of nothing raises.
find_f1_optimal_threshold(items) ==
    Best(items, LAMBDA a, b :
        \/ Above(F1(a.counts), F1(b.counts))
        \/ /\ AtLeast(F1(a.counts), F1(b.counts))
           /\ \/ Above(Recall(a.counts), Recall(b.counts))
              \/ AtLeast(Recall(a.counts), Recall(b.counts)) /\ a.threshold < b.threshold)

\* Higher recall breaks ties, then fewer false positives.
Cheaper(a, b, r) ==
    \/ Cost(a, r) < Cost(b, r)
    \/ /\ Cost(a, r) = Cost(b, r)
       /\ \/ Above(Recall(a.counts), Recall(b.counts))
          \/ /\ AtLeast(Recall(a.counts), Recall(b.counts))
             /\ a.counts.fp < b.counts.fp

find_cost_optimal_threshold(items, r) == Best(items, LAMBDA a, b : Cheaper(a, b, r))

\* Those that meet the target, by descending F1; equals stay in the order of the sweep.
find_prd_target_thresholds(items, min_recall, min_precision) ==
    LET meets == {k \in DOMAIN items : /\ AtLeast(Recall(items[k].counts), <<min_recall, 100>>)
                                       /\ AtLeast(Precision(items[k].counts),
                                                  <<min_precision, 100>>)}
        order == SetToSortSeq(meets, LAMBDA j, k :
                    \/ Above(F1(items[j].counts), F1(items[k].counts))
                    \/ AtLeast(F1(items[j].counts), F1(items[k].counts)) /\ j < k)
    IN  [n \in DOMAIN order |-> items[order[n]]]

classify_risk_band(p, t_star) ==
    IF p >= 80 THEN "CRITICAL"
    ELSE IF p >= t_star THEN "HIGH"
    ELSE IF p >= 15 THEN "MEDIUM" ELSE "LOW"

-----------------------------------------------------------------------------
(* calibrate.py *)

\* The k-th of n bins of probabilities; the last one is closed.
Bin(p, n, k) ==
    {i \in DOMAIN p : 100 * (k - 1) <= n * p[i] /\ (n * p[i] < 100 * k \/ k = n)}

\* Both are sums over the rows, in percent, so that they compare as the means do.
compute_calibration_metrics(y, p, n) ==
    LET off(i) == p[i] - 100 * y[i]
    IN  [brier_score |-> MapThenSumSet(LAMBDA i : off(i) * off(i), DOMAIN y),
         ece |-> MapThenSumSet(LAMBDA k : LET sum == MapThenSumSet(off, Bin(p, n, k))
                                          IN  IF sum < 0 THEN -sum ELSE sum, 1 .. n)]

\* The sigmoid has to better the raw scores by 2 %, the isotonic what is chosen by then by
\* 20 %; a loss of PR-AUC, here in thousandths, of 0.005 is put up with for the sigmoid only.
SigmoidChosen(m) ==
    /\ 100 * m.sigmoid.brier_score <= 98 * m.uncalibrated.brier_score
    /\ m.sigmoid.pr_auc >= m.uncalibrated.pr_auc - 5

compare_calibration_methods(m) ==
    LET chosen == IF SigmoidChosen(m) THEN "sigmoid" ELSE "uncalibrated"
    IN  IF /\ 100 * m.isotonic.brier_score <= 80 * m[chosen].brier_score
           /\ m.isotonic.pr_auc >= m.uncalibrated.pr_auc
          THEN "isotonic" ELSE chosen

-----------------------------------------------------------------------------
(* anomaly.py and compare.py *)

\* A higher raw score is more normal.  Without a reference, or a raw score: half way.
predict_anomaly_score(ref, raw) ==
    IF ref.delta = NaN \/ ref.delta <= 0 THEN 50
    ELSE IF raw = NaN THEN 50
    ELSE Max({0, Min({100, ((ref.s_nominal - raw) * 100) \div ref.delta})})

\* _metrics_at_t of the detector, whose alarms are the scores of t and more.
Detection(y, scores, t) ==
    LET c == compute_confusion_matrix(y, Positives(scores, t))
    IN  [threshold |-> t, recall |-> Recall(c), precision |-> Precision(c),
         false_positive_rate |-> Ratio(c.fp, Cardinality(DOMAIN y \ Failing(y)))]

\* By PR-AUC on the validation rows, then by recall.
BetterModel(a, b) ==
    \/ a.pr_auc > b.pr_auc
    \/ a.pr_auc = b.pr_auc /\ a.recall > b.recall

select_champion(results) == Best(results, BetterModel)

-----------------------------------------------------------------------------
(* What is promised of them *)

\* A higher threshold finds no more failures, and raises no more false alarms.
ThresholdTrades(y, p, t, u) ==
    LET at(x) == compute_confusion_matrix(y, Positives(p, x))
    IN  t <= u => /\ at(u).tp <= at(t).tp /\ at(u).fp <= at(t).fp
                  /\ at(t).fn <= at(u).fn /\ at(t).tn <= at(u).tn
                  /\ AtLeast(Recall(at(t)), Recall(at(u)))

\* The threshold chosen for dearer misses misses no more, whatever ties there are.
DearerMissesFewer(y, p, thresholds, r, q) ==
    LET chosen(x) == find_cost_optimal_threshold(sweep_thresholds(y, p, thresholds), x)
    IN  r < q => chosen(q).counts.fn <= chosen(r).counts.fn

\* HIGH or CRITICAL is what the sweep counted as an alarm at t_star, and nothing else; and
\* a higher probability is never in a lower band.
BandsDecide(p, q, t_star) ==
    LET rank == [LOW |-> 0, MEDIUM |-> 1, HIGH |-> 2, CRITICAL |-> 3]
    IN  /\ classify_risk_band(p, t_star) \in {"HIGH", "CRITICAL"} <=> p >= t_star
        /\ p <= q => rank[classify_risk_band(p, t_star)] <= rank[classify_risk_band(q, t_star)]

\* What is chosen has no worse a Brier score than the raw scores, and a PR-AUC at most 0.005
\* below; and no worse a Brier score than the sigmoid, where that would have been accepted.
CalibrationHelps(m) ==
    LET chosen == m[compare_calibration_methods(m)]
    IN  /\ chosen.brier_score <= m.uncalibrated.brier_score
        /\ chosen.pr_auc >= m.uncalibrated.pr_auc - 5
        /\ SigmoidChosen(m) => chosen.brier_score <= m.sigmoid.brier_score

\* A score is a percentage, and a less normal row never has the lower one.
ScoresOrdered(ref, a, b) ==
    /\ predict_anomaly_score(ref, a) \in 0 .. 100
    /\ (a # NaN /\ b # NaN /\ a <= b)
         => predict_anomaly_score(ref, a) >= predict_anomaly_score(ref, b)

\* No result is better than the champion, which is one of them.
ChampionUnbeaten(results) ==
    LET champion == select_champion(results)
    IN  /\ champion \in ToSet(results)
        /\ \A k \in DOMAIN results : ~BetterModel(results[k], champion)
=============================================================================
