------------------------------- MODULE Analytics -------------------------------
(***************************************************************************)
(* The arithmetic of history_service.py and of mlops/drift.py over rows    *)
(* that were read: times in a state, buckets, the fleet's tallies, and the *)
(* drift report.  Times are integers, rates and statistics percentages.    *)
(***************************************************************************)
EXTENDS Integers, FiniteSets, Sequences, SequencesExt

CONSTANTS
    MaxGap,        \* MAX_SAMPLE_GAP_SECONDS
    MaxPoints,     \* max_points of a trend
    MinSample,     \* MIN_SAMPLE_SIZE
    Continuous,    \* CONTINUOUS_FEATURES
    Categorical    \* CATEGORICAL_FEATURES

ASSUME PointsAssumption == MaxPoints \in Nat \ {0}
ASSUME SampleAssumption == MinSample \in Nat

-----------------------------------------------------------------------------
(* A machine's history. A point has a ts, a score and a state. *)

Warns(point)    == point.state = "WARNING" \/ point.score \in 6000 .. 7999
IsCritical(point) == point.state = "CRITICAL" \/ point.score < 6000

\* The time until the next point, where it is short enough to count.
Gap(points, i) ==
    LET gap == points[i + 1].ts - points[i].ts
    IN  IF i < Len(points) /\ gap <= MaxGap THEN gap ELSE 0

\* The time after those points that count.
Time(points, counted) ==
    LET upTo[i \in 0 .. Len(points)] ==
          IF i = 0 THEN 0 ELSE upTo[i - 1] + (IF i \in counted THEN Gap(points, i) ELSE 0)
    IN  upTo[Len(points)]

\* A point of a warning score counts as warning, also when its state is CRITICAL.
time_warning(points)  == Time(points, {i \in DOMAIN points : Warns(points[i])})
time_critical(points) ==
    Time(points, {i \in DOMAIN points : ~Warns(points[i]) /\ IsCritical(points[i])})

\* Mutant: the last bucket is one too far.
BucketUnclamped(point, from, to) == ((point.ts - from) * MaxPoints) \div (to - from)

\* The bucket a point falls into; the end of the window belongs to the last one.
Bucket(point, from, to) ==
    Min({((point.ts - from) * MaxPoints) \div (to - from), MaxPoints - 1})

\* The representative state of a bucket: OFFLINE and MAINTENANCE_REQUIRED have none.
Represent(points) ==
    CASE \E p \in points : IsCritical(p) -> "CRITICAL"
      [] OTHER -> IF \E p \in points : p.state = "WARNING" \/ p.score < 8000
                    THEN "WARNING" ELSE "HEALTHY"

\* The trend, by bucket: one point for each that has any.
_downsample_health(points, from, to) ==
    LET In(b) == {p \in ToSet(points) : Bucket(p, from, to) = b}
    IN  [b \in {Bucket(p, from, to) : p \in ToSet(points)} |-> Represent(In(b))]

-----------------------------------------------------------------------------
(* The fleet *)

\* Which count of the distribution a machine with that score adds to.
health_distribution(score, none) ==
    CASE score = none -> "offline" [] score # none /\ score >= 8000 -> "healthy"
      [] OTHER -> IF score >= 6000 THEN "warning" ELSE "critical"

-----------------------------------------------------------------------------
(* The drift report, on a feature's statistics: count, psi, ks, p, missing *)

\* evaluate_feature_drift. ks is -1 where there is no reference sample.
FeatureStatus(f, x) ==
    LET numeric == f \in Continuous /\ x.ks # -1
        drifts  == x.psi >= 25 \/ (numeric /\ x.p < 5 /\ x.ks >= 15)
        watch   == \/ x.psi >= 10
                   \/ numeric /\ (x.ks >= 15 \/ (x.p < 5 /\ x.ks >= 8))
                   \/ f \in Continuous /\ x.missing > 15
    IN  CASE x.count < MinSample -> "INSUFFICIENT_DATA"
          [] OTHER -> IF drifts THEN "DRIFT" ELSE IF watch THEN "WATCH" ELSE "STABLE"

DriftAlert(f, severity, metric) == [feature |-> f, severity |-> severity, metric |-> metric]

\* generate_drift_report on count rows with the statistics st of the features.
generate_drift_report(count, st) ==
    LET Features == Continuous \cup Categorical
        status == [f \in Features |-> IF count < MinSample THEN "INSUFFICIENT_DATA"
                                      ELSE FeatureStatus(f, st[f])]
        Of(s)  == {f \in Features : status[f] = s}
    IN  [features |-> status,
         overall  |-> IF count < MinSample THEN "INSUFFICIENT_DATA"
                      ELSE IF Of("DRIFT") # {} THEN "DRIFT"
                      ELSE IF Of("WATCH") # {} THEN "WATCH" ELSE "STABLE",
         alerts   |-> {DriftAlert(f, "CRITICAL", IF st[f].psi >= 25 THEN "PSI" ELSE "KS") :
                         f \in Of("DRIFT")}
                      \cup {DriftAlert(f, "WARNING", IF st[f].psi >= 10 THEN "PSI" ELSE "KS") :
                         f \in Of("WATCH")}]
=============================================================================
