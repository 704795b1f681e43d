--------------------------- MODULE GovernanceProofs ---------------------------
(***************************************************************************)
(* For any users, trainings and datasets, and any number of operations:    *)
(* what a promotion may put in the champion's place, what the audit log    *)
(* says, what a version was trained on, and which model is served.  And    *)
(* for any rows, what the choices of ml/models promise.                    *)
(***************************************************************************)
EXTENDS Governance, ModelEvaluation, SequenceTheorems, FiniteSetTheorems,
        WellFoundedInduction, TLAPS

-----------------------------------------------------------------------------
(* What the data pipeline guarantees for every dataset: the splits share   *)
(* no machine and invent no row, and a prepared dataset repeats a row only *)
(* where readings were nullified.                                          *)

\* The split of a row is that of its machine.
LEMMA RowsOfSplit ==
    ASSUME NEW df, NEW s \in ToSet(Splits), NEW i
    PROVE  LET of == _assign_machines_to_splits(Ranked(df))
           IN  /\ i \in DOMAIN split_dataset(df)[s] <=> i \in DOMAIN df /\ of[df[i].machine] = s
               /\ i \in DOMAIN split_dataset(df)[s] => split_dataset(df)[s][i] = df[i]
BY DEF split_dataset, RestrictDomain, Restrict

LEMMA SplitNames == ToSet(Splits) = {"train", "val", "test"}
BY DEF ToSet, Splits

\* _assign_machines_to_splits deals whole machines (splits.py): none has rows in two of the
\* splits, whatever the data, the fractions and the order the machines are dealt in.
THEOREM SplitsShareNoMachine ==
    ASSUME NEW df, NEW s \in ToSet(Splits), NEW t \in ToSet(Splits), s # t
    PROVE  machine_overlap(split_dataset(df)[s], split_dataset(df)[t]) = {}
<1> DEFINE of == _assign_machines_to_splits(Ranked(df))
           S  == split_dataset(df)[s]
           T  == split_dataset(df)[t]
<1> SUFFICES ASSUME NEW m \in MachinesOf(S), m \in MachinesOf(T) PROVE FALSE
  BY DEF machine_overlap
<1>1. PICK i \in DOMAIN S : S[i].machine = m
  BY DEF MachinesOf
<1>2. PICK j \in DOMAIN T : T[j].machine = m
  BY DEF MachinesOf
<1>3. of[m] = s /\ of[m] = t
  BY <1>1, <1>2, RowsOfSplit
<1> QED BY <1>3

-----------------------------------------------------------------------------
\* Every method of the preparation keeps labels and columns.
LEMMA Derived ==
    ASSUME NEW df, Frame(df)
    PROVE  Frame(derive_machine_type(df)) /\ DOMAIN derive_machine_type(df) = DOMAIN df
<1>1. DOMAIN derive_machine_type(df) = DOMAIN df
  BY DEF derive_machine_type
<1>2. ASSUME NEW i \in DOMAIN df
      PROVE  derive_machine_type(df)[i] = [c \in Columns |-> derive_machine_type(df)[i][c]]
  BY <1>2 DEF derive_machine_type, Frame
<1> QED BY <1>1, <1>2 DEF Frame

LEMMA Deduplicated ==
    ASSUME NEW df, Frame(df)
    PROVE  LET kept == remove_duplicates(df)
           IN  /\ Frame(kept)
               /\ \A i, j \in DOMAIN kept : i # j => Compared(kept[i]) # Compared(kept[j])
<1> DEFINE kept == remove_duplicates(df)
<1>1. /\ DOMAIN kept = {i \in DOMAIN df :
                          \A j \in DOMAIN df : j < i => Compared(df[j]) # Compared(df[i])}
      /\ \A i \in DOMAIN kept : kept[i] = df[i]
  BY DEF remove_duplicates, Restrict
<1>2. Frame(kept)
  BY <1>1 DEF Frame
<1>3. ASSUME NEW i \in DOMAIN kept, NEW j \in DOMAIN kept, i # j
      PROVE  Compared(kept[i]) # Compared(kept[j])
  <2>1. i \in Int /\ j \in Int
    BY <1>2 DEF Frame
  <2>2. i < j \/ j < i
    BY <2>1, <1>3
  <2> QED BY <1>1, <2>2
<1> QED BY <1>2, <1>3

\* remove_duplicates and validate_ranges, in that order (prepare.py): two rows of a
\* prepared dataset that differ in the batch code at most have no reading, for then they
\* may have become alike when their readings were nullified.
THEOREM PreparedRepeatsNullified ==
    ASSUME NEW df, Frame(df),
           NEW i \in DOMAIN prepare_dataset(df), NEW j \in DOMAIN prepare_dataset(df),
           i # j, Compared(prepare_dataset(df)[i]) = Compared(prepare_dataset(df)[j])
    PROVE  prepare_dataset(df)[i].reading = NaN
<1> DEFINE kept == remove_duplicates(derive_machine_type(df))
           out  == prepare_dataset(df)
<1>1. out = validate_ranges(kept)
  BY DEF prepare_dataset
<1>2. /\ Frame(kept)
      /\ \A k, l \in DOMAIN kept : k # l => Compared(kept[k]) # Compared(kept[l])
  BY Derived, Deduplicated
<1> HIDE DEF kept, out
<1>3. DOMAIN out = DOMAIN kept
  BY <1>1 DEF validate_ranges
<1>4. ASSUME NEW k \in DOMAIN kept
      PROVE  IF InRange(kept[k].reading) THEN out[k] = kept[k] ELSE out[k].reading = NaN
  <2>1. out[k] = IF InRange(kept[k].reading) THEN kept[k] ELSE [kept[k] EXCEPT !.reading = NaN]
    BY <1>1 DEF validate_ranges
  <2>2. kept[k] = [c \in Columns |-> kept[k][c]]
    BY <1>2 DEF Frame
  <2>3. [kept[k] EXCEPT !.reading = NaN].reading = NaN
    BY <2>2 DEF Columns
  <2> QED BY <2>1, <2>3
<1>5. Compared(out[i]) = Compared(out[j]) /\ i \in DOMAIN kept /\ j \in DOMAIN kept
  BY <1>3 DEF out
<1>6. CASE InRange(kept[i].reading) /\ InRange(kept[j].reading)
  BY <1>2, <1>4, <1>5, <1>6
<1>7. CASE ~InRange(kept[i].reading)
  BY <1>4, <1>5, <1>7 DEF out
<1>8. CASE InRange(kept[i].reading) /\ ~InRange(kept[j].reading)
  <2>1. out[i] = kept[i] /\ out[j].reading = NaN
    BY <1>4, <1>5, <1>8
  <2>2. out[j] = [kept[j] EXCEPT !.reading = NaN]
    BY <1>1, <1>5, <1>8 DEF validate_ranges
  <2>3. /\ kept[i] = [c \in Columns |-> kept[i][c]]
        /\ kept[j] = [c \in Columns |-> kept[j][c]]
    BY <1>5, <1>2 DEF Frame
  <2>4. /\ Compared(out[i]).reading = out[i].reading
        /\ Compared(out[j]).reading = out[j].reading
    BY <2>1, <2>2, <2>3 DEF Compared, Columns
  <2>5. out[i].reading = NaN
    BY <1>5, <2>1, <2>4
  <2> QED BY <2>5 DEF out
<1> QED BY <1>6, <1>7, <1>8

-----------------------------------------------------------------------------
(* What ml/models chooses, for every set of rows and every sweep: the      *)
(* bands, the calibration, the anomaly score, the champion, the threshold. *)

\* BandsDecide: whatever the probabilities, and the threshold up to the bound of CRITICAL,
\* the bands HIGH and CRITICAL are the alarms of the sweep.  Above that bound they are not.
THEOREM BandsAreAlarms ==
    ASSUME NEW p \in Int, NEW q \in Int, NEW t_star \in Int, t_star <= 80
    PROVE  BandsDecide(p, q, t_star)
BY DEF BandsDecide, classify_risk_band

Measured == [brier_score : Nat, pr_auc : Int]

\* CalibrationHelps: whatever the three methods measure.
THEOREM CalibrationNeverHarms ==
    ASSUME NEW m \in [{"uncalibrated", "sigmoid", "isotonic"} -> Measured]
    PROVE  CalibrationHelps(m)
<1> DEFINE u == m["uncalibrated"]
           s == m["sigmoid"]
           i == m["isotonic"]
           chosen == IF SigmoidChosen(m) THEN "sigmoid" ELSE "uncalibrated"
<1>1. /\ u.brier_score \in Nat /\ s.brier_score \in Nat /\ i.brier_score \in Nat
      /\ u.pr_auc \in Int /\ s.pr_auc \in Int /\ i.pr_auc \in Int
  BY DEF Measured
<1>2. /\ m.uncalibrated = u /\ m.sigmoid = s /\ m.isotonic = i
      /\ m[chosen] = IF SigmoidChosen(m) THEN s ELSE u
  OBVIOUS
<1>3. SigmoidChosen(m) <=> /\ 100 * s.brier_score <= 98 * u.brier_score
                           /\ s.pr_auc >= u.pr_auc - 5
  BY <1>2 DEF SigmoidChosen
<1>4. m[compare_calibration_methods(m)] =
        IF /\ 100 * i.brier_score <= 80 * m[chosen].brier_score
           /\ i.pr_auc >= u.pr_auc
        THEN i ELSE m[chosen]
  BY <1>2 DEF compare_calibration_methods
<1> HIDE DEF u, s, i, chosen
<1>5. CASE SigmoidChosen(m)
  BY <1>1, <1>2, <1>3, <1>4, <1>5 DEF CalibrationHelps
<1>6. CASE ~ SigmoidChosen(m)
  BY <1>1, <1>2, <1>3, <1>4, <1>6 DEF CalibrationHelps
<1> QED BY <1>5, <1>6

\* Of numbers kept within bounds: the bounds, and the order.
LEMMA Clipped ==
    ASSUME NEW x \in Int
    PROVE  Max({0, Min({100, x})}) = IF x < 0 THEN 0 ELSE IF x > 100 THEN 100 ELSE x
<1>1. Min({100, x}) = IF x > 100 THEN 100 ELSE x
  BY DEF Min
<1>2. \A z \in Int : Max({0, z}) = IF z < 0 THEN 0 ELSE z
  BY DEF Max
<1> QED BY <1>1, <1>2

LEMMA DivisionKeepsOrder ==
    ASSUME NEW a \in Int, NEW b \in Int, a >= b, NEW d \in Nat \ {0}
    PROVE  a \div d >= b \div d
<1> DEFINE x == a \div d
           y == b \div d
<1>1. x \in Int /\ y \in Int /\ d * x <= a /\ a < d * (x + 1) /\ d * y <= b /\ b < d * (y + 1)
  OBVIOUS
<1> HIDE DEF x, y
<1>2. SUFFICES ASSUME x < y PROVE FALSE
  BY <1>1 DEF x, y
<1>3. d * (x + 1) <= d * y
  BY <1>1, <1>2
<1> QED BY <1>1, <1>3

\* ScoresOrdered: for every reference, and all raw scores.
THEOREM ScoresKeepOrder ==
    ASSUME NEW ref \in [s_nominal : Int, delta : Int \cup {NaN}],
           NEW a \in Int \cup {NaN}, NEW b \in Int \cup {NaN}
    PROVE  ScoresOrdered(ref, a, b)
<1> DEFINE n == ref.s_nominal
           d == ref.delta
           of(raw) == ((n - raw) * 100) \div d
<1>1. n \in Int /\ d \in Int \cup {NaN}
  OBVIOUS
<1>2. CASE d = NaN \/ d <= 0
  BY <1>2 DEF ScoresOrdered, predict_anomaly_score
<1>3. CASE ~ (d = NaN \/ d <= 0)
  <2>1. d \in Nat \ {0}
    BY <1>1, <1>3
  <2>2. \A raw \in Int : of(raw) \in Int
    BY <1>1, <2>1
  <2>3. predict_anomaly_score(ref, NaN) = 50
    BY <1>3 DEF predict_anomaly_score
  <2>4. \A raw \in Int : raw # NaN =>
           predict_anomaly_score(ref, raw) = IF of(raw) < 0 THEN 0
                                             ELSE IF of(raw) > 100 THEN 100 ELSE of(raw)
    <3> SUFFICES ASSUME NEW raw \in Int, raw # NaN
                 PROVE  predict_anomaly_score(ref, raw) = IF of(raw) < 0 THEN 0
                                             ELSE IF of(raw) > 100 THEN 100 ELSE of(raw)
      OBVIOUS
    <3>1. predict_anomaly_score(ref, raw) = Max({0, Min({100, of(raw)})})
      BY <1>3 DEF predict_anomaly_score
    <3> QED BY <2>2, <3>1, Clipped
  <2>5. predict_anomaly_score(ref, a) \in 0 .. 100
    <3>1. CASE a = NaN
      BY <2>3, <3>1
    <3>2. CASE a # NaN
      <4>1. a \in Int
        BY <3>2
      <4> HIDE DEF of
      <4>2. /\ of(a) \in Int
            /\ predict_anomaly_score(ref, a) = IF of(a) < 0 THEN 0
                                               ELSE IF of(a) > 100 THEN 100 ELSE of(a)
        BY <2>2, <2>4, <3>2, <4>1
      <4> QED BY <4>2
    <3> QED BY <3>1, <3>2
  <2>6. ASSUME a # NaN, b # NaN, a <= b
        PROVE  predict_anomaly_score(ref, a) >= predict_anomaly_score(ref, b)
    <3>1. a \in Int /\ b \in Int
      BY <2>6
    <3>2. (n - a) * 100 \in Int /\ (n - b) * 100 \in Int /\ (n - a) * 100 >= (n - b) * 100
      BY <1>1, <2>6, <3>1
    <3>3. of(a) >= of(b)
      BY <2>1, <3>2, DivisionKeepsOrder
    <3> HIDE DEF of
    <3> QED BY <2>2, <2>4, <2>6, <3>1, <3>3
  <2> QED BY <2>5, <2>6 DEF ScoresOrdered
<1> QED BY <1>2, <1>3

-----------------------------------------------------------------------------
(* What is chosen of a list *)

LEMMA LeastOf ==
    ASSUME NEW S, S # {}, NEW f, \A k \in S : f[k] \in Nat
    PROVE  \E k \in S : \A j \in S : f[k] <= f[j]
<1> DEFINE R == OpToRel(<, Nat)
           T == {f[k] : k \in S}
<1>1. IsWellFoundedOn(R, Nat)
  BY NatLessThanWellFounded
<1>2. T \subseteq Nat /\ T # {}
  OBVIOUS
<1> HIDE DEF R, T
<1>3. PICK x \in T : \A y \in T : ~ (<<y, x>> \in R)
  BY <1>1, <1>2, WFMin
<1>4. \A y \in T : ~ (y < x)
  <2> SUFFICES ASSUME NEW y \in T, y < x PROVE FALSE
    OBVIOUS
  <2>1. <<y, x>> \in Nat \X Nat
    BY <1>2
  <2>2. <<y, x>> \in R
    BY <2>1 DEF OpToRel, R
  <2> QED BY <1>3, <2>2
<1>5. PICK k \in S : f[k] = x
  BY DEF T
<1>6. \A j \in S : f[k] <= f[j]
  BY <1>2, <1>4, <1>5 DEF T
<1> QED BY <1>6

\* The first of the least by three measures, one after the other.
First(k, n, f, g, h) == \A j \in 1 .. n :
    /\ f[k] <= f[j]
    /\ f[j] = f[k] => g[k] <= g[j]
    /\ f[j] = f[k] /\ g[j] = g[k] => h[k] <= h[j]
    /\ f[j] = f[k] /\ g[j] = g[k] /\ h[j] = h[k] => k <= j

LEMMA FirstOfLeast ==
    ASSUME NEW n \in Nat \ {0}, NEW f, NEW g, NEW h,
           \A k \in 1 .. n : f[k] \in Nat /\ g[k] \in Nat /\ h[k] \in Nat
    PROVE  \E k \in 1 .. n : First(k, n, f, g, h)
<1>1. PICK a \in 1 .. n : \A j \in 1 .. n : f[a] <= f[j]
  <2>1. 1 .. n # {}
    OBVIOUS
  <2> QED BY <2>1, LeastOf
<1> DEFINE A == {k \in 1 .. n : f[k] = f[a]}
<1>2. PICK b \in A : \A j \in A : g[b] <= g[j]
  <2>1. A # {} /\ \A k \in A : g[k] \in Nat
    OBVIOUS
  <2> HIDE DEF A
  <2> QED BY <2>1, LeastOf
<1> DEFINE B == {k \in A : g[k] = g[b]}
<1>3. PICK c \in B : \A j \in B : h[c] <= h[j]
  <2>1. B # {} /\ \A k \in B : h[k] \in Nat
    OBVIOUS
  <2> HIDE DEF B
  <2> QED BY <2>1, LeastOf
<1> DEFINE C == {k \in B : h[k] = h[c]}
           id == [k \in 1 .. n |-> k]
<1>4. PICK d \in C : \A j \in C : d <= j
  <2>1. C # {} /\ (\A k \in C : id[k] \in Nat) /\ \A k \in C : id[k] = k
    OBVIOUS
  <2> HIDE DEF C, id
  <2>2. PICK k \in C : \A j \in C : id[k] <= id[j]
    BY <2>1, LeastOf
  <2> QED BY <2>1, <2>2
<1>5. d \in 1 .. n /\ f[d] = f[a] /\ g[d] = g[b] /\ h[d] = h[c]
  OBVIOUS
<1> WITNESS d \in 1 .. n
<1> SUFFICES ASSUME NEW j \in 1 .. n
             PROVE  /\ f[d] <= f[j]
                    /\ f[j] = f[d] => g[d] <= g[j]
                    /\ f[j] = f[d] /\ g[j] = g[d] => h[d] <= h[j]
                    /\ f[j] = f[d] /\ g[j] = g[d] /\ h[j] = h[d] => d <= j
  BY DEF First
<1>6. f[d] <= f[j]
  BY <1>1, <1>5
<1>7. ASSUME f[j] = f[d] PROVE g[d] <= g[j]
  BY <1>2, <1>5, <1>7
<1>8. ASSUME f[j] = f[d], g[j] = g[d] PROVE h[d] <= h[j]
  <2>1. j \in B
    BY <1>5, <1>8
  <2> QED BY <1>3, <1>5, <2>1
<1>9. ASSUME f[j] = f[d], g[j] = g[d], h[j] = h[d] PROVE d <= j
  <2>1. j \in C
    BY <1>5, <1>9
  <2> QED BY <1>4, <2>1
<1> QED BY <1>6, <1>7, <1>8, <1>9

Measures(Top) == [pr_auc : 0 .. Top, recall : 0 .. Top]

\* ChampionUnbeaten: of any comparison, on whatever scale the measures are.
THEOREM ChampionIsBest ==
    ASSUME NEW Top \in Nat, NEW results \in Seq(Measures(Top)), results # <<>>
    PROVE  ChampionUnbeaten(results)
<1> DEFINE n == Len(results)
           f == [k \in 1 .. n |-> Top - results[k].pr_auc]
           g == [k \in 1 .. n |-> Top - results[k].recall]
           h == [k \in 1 .. n |-> 0]
           unbeaten(k) == \A j \in DOMAIN results :
               /\ ~BetterModel(results[j], results[k])
               /\ j < k => BetterModel(results[k], results[j])
<1>1. n \in Nat \ {0} /\ DOMAIN results = 1 .. n
  BY EmptySeq
<1>2. \A k \in 1 .. n : results[k].pr_auc \in 0 .. Top /\ results[k].recall \in 0 .. Top
  <2> TAKE k \in 1 .. n
  <2>1. results[k] \in Measures(Top)
    BY <1>1, ElementOfSeq
  <2> QED BY <2>1 DEF Measures
<1>3. PICK k \in 1 .. n : First(k, n, f, g, h)
  <2>1. \A k \in 1 .. n : f[k] \in Nat /\ g[k] \in Nat /\ h[k] \in Nat
    BY <1>2
  <2> HIDE DEF n, f, g, h
  <2> QED BY <1>1, <2>1, FirstOfLeast
<1>4. unbeaten(k)
  <2> SUFFICES ASSUME NEW j \in 1 .. n
               PROVE  /\ ~BetterModel(results[j], results[k])
                      /\ j < k => BetterModel(results[k], results[j])
    BY <1>1
  <2>1. /\ f[j] = Top - results[j].pr_auc /\ g[j] = Top - results[j].recall
        /\ f[k] = Top - results[k].pr_auc /\ g[k] = Top - results[k].recall
        /\ h[j] = h[k]
    OBVIOUS
  <2>2. /\ f[k] <= f[j]
        /\ f[j] = f[k] => g[k] <= g[j]
        /\ f[j] = f[k] /\ g[j] = g[k] /\ h[j] = h[k] => k <= j
    <3> HIDE DEF f, g, h, n
    <3> QED BY <1>3 DEF First
  <2>3. /\ results[j].pr_auc \in Int /\ results[j].recall \in Int
        /\ results[k].pr_auc \in Int /\ results[k].recall \in Int
    BY <1>2
  <2> HIDE DEF f, g, h, n
  <2>4. k \in Int /\ j \in Int
    BY <1>1
  <2>5. /\ results[j].pr_auc <= results[k].pr_auc
        /\ results[j].pr_auc = results[k].pr_auc => results[j].recall <= results[k].recall
        /\ (/\ results[j].pr_auc = results[k].pr_auc
            /\ results[j].recall = results[k].recall) => k <= j
    <3> DEFINE pj == results[j].pr_auc
               pk == results[k].pr_auc
               rj == results[j].recall
               rk == results[k].recall
    <3>1. /\ Top - pk <= Top - pj
          /\ Top - pj = Top - pk => Top - rk <= Top - rj
          /\ Top - pj = Top - pk /\ Top - rj = Top - rk => k <= j
      BY <2>1, <2>2
    <3>2. pj \in Int /\ pk \in Int /\ rj \in Int /\ rk \in Int
      BY <2>3
    <3> HIDE DEF pj, pk, rj, rk
    <3>3. pj <= pk /\ (pj = pk => rj <= rk) /\ (pj = pk /\ rj = rk => k <= j)
      BY <2>4, <3>1, <3>2
    <3> QED BY <3>3 DEF pj, pk, rj, rk
  <2> QED BY <2>3, <2>4, <2>5 DEF BetterModel
<1> DEFINE c == CHOOSE l \in DOMAIN results : unbeaten(l)
<1>5. c \in DOMAIN results /\ unbeaten(c)
  BY <1>1, <1>4
<1>6. select_champion(results) = results[c]
  BY DEF select_champion, Best
<1> HIDE DEF c
<1>7. results[c] \in ToSet(results)
  BY <1>5 DEF ToSet
<1> QED BY <1>5, <1>6, <1>7 DEF ChampionUnbeaten

-----------------------------------------------------------------------------
(* Thresholds *)

LEMMA Counted ==
    ASSUME NEW R, IsFiniteSet(R), NEW y \in [R -> {0, 1}], NEW A, A \subseteq R,
           NEW c, c = compute_confusion_matrix(y, A)
    PROVE  /\ c.tp \in Nat /\ c.fp \in Nat /\ c.fn \in Nat /\ c.tn \in Nat
           /\ Cardinality(Failing(y)) \in Nat /\ c.tp + c.fn = Cardinality(Failing(y))
<1> DEFINE F == Failing(y)
<1>1. F \subseteq R
  BY DEF Failing
<1> HIDE DEF F
<1>2. /\ IsFiniteSet(F) /\ IsFiniteSet(A) /\ IsFiniteSet(F \cap A) /\ IsFiniteSet(A \ F)
      /\ IsFiniteSet(F \ A) /\ IsFiniteSet(R \ (F \cup A))
  BY <1>1, FS_Subset
<1>3. Cardinality(F \ A) = Cardinality(F) - Cardinality(F \cap A)
  BY <1>2, FS_Difference
<1>4. c = [tn |-> Cardinality(R \ (F \cup A)), fp |-> Cardinality(A \ F),
           fn |-> Cardinality(F \ A), tp |-> Cardinality(F \cap A)]
  BY DEF compute_confusion_matrix, F
<1> QED BY <1>2, <1>3, <1>4, FS_CardinalityType DEF F

\* With the same failures to find, recall is higher where fewer are missed.
LEMMA RecallByMisses ==
    ASSUME NEW a, NEW b, NEW P \in Nat,
           a.tp \in Nat, a.fn \in Nat, a.tp + a.fn = P,
           b.tp \in Nat, b.fn \in Nat, b.tp + b.fn = P
    PROVE  Above(Recall(a), Recall(b)) <=> a.fn < b.fn
<1>1. CASE P = 0
  <2>1. Recall(a) = <<0, 1>> /\ Recall(b) = <<0, 1>>
    BY <1>1 DEF Recall, Ratio
  <2> QED BY <1>1, <2>1 DEF Above
<1>2. CASE P > 0
  <2>1. Recall(a) = <<a.tp, P>> /\ Recall(b) = <<b.tp, P>>
    BY <1>2 DEF Recall, Ratio
  <2>2. Above(Recall(a), Recall(b)) <=> a.tp * P > b.tp * P
    BY <2>1 DEF Above
  <2>3. \A x, z \in Nat : x * P > z * P <=> x > z
    BY <1>2
  <2> QED BY <2>2, <2>3
<1> QED BY <1>1, <1>2

\* ThresholdTrades: for any labels and probabilities of any number of rows.
THEOREM ThresholdsTradeOff ==
    ASSUME NEW R, IsFiniteSet(R), NEW y \in [R -> {0, 1}], NEW p \in [R -> Int],
           NEW t \in Int, NEW u \in Int
    PROVE  ThresholdTrades(y, p, t, u)
<1> DEFINE F == Failing(y)
           A == Positives(p, t)
           B == Positives(p, u)
           a == compute_confusion_matrix(y, A)
           b == compute_confusion_matrix(y, B)
<1> SUFFICES ASSUME t <= u
             PROVE  /\ b.tp <= a.tp /\ b.fp <= a.fp /\ a.fn <= b.fn /\ a.tn <= b.tn
                    /\ AtLeast(Recall(a), Recall(b))
  BY DEF ThresholdTrades
<1>1. /\ A \subseteq R /\ B \subseteq A /\ F \subseteq R
  BY DEF Positives, Failing
<1>2. /\ a.tp \in Nat /\ a.fp \in Nat /\ a.fn \in Nat /\ a.tn \in Nat
      /\ Cardinality(F) \in Nat /\ a.tp + a.fn = Cardinality(F)
  BY <1>1, Counted
<1>3. /\ b.tp \in Nat /\ b.fp \in Nat /\ b.fn \in Nat /\ b.tn \in Nat
      /\ b.tp + b.fn = Cardinality(F)
  BY <1>1, Counted
<1>4. /\ a.tp = Cardinality(F \cap A) /\ a.fp = Cardinality(A \ F)
      /\ a.fn = Cardinality(F \ A) /\ a.tn = Cardinality(R \ (F \cup A))
      /\ b.tp = Cardinality(F \cap B) /\ b.fp = Cardinality(B \ F)
      /\ b.fn = Cardinality(F \ B) /\ b.tn = Cardinality(R \ (F \cup B))
  BY DEF compute_confusion_matrix
<1> HIDE DEF A, B, F, a, b
<1>5. b.tp <= a.tp
  <2>1. F \cap B \subseteq F \cap A /\ IsFiniteSet(F \cap A)
    BY <1>1, FS_Subset
  <2> QED BY <1>4, <2>1, FS_Subset
<1>6. b.fp <= a.fp
  <2>1. B \ F \subseteq A \ F /\ IsFiniteSet(A \ F)
    BY <1>1, FS_Subset
  <2> QED BY <1>4, <2>1, FS_Subset
<1>7. a.tn <= b.tn
  <2>1. R \ (F \cup A) \subseteq R \ (F \cup B) /\ IsFiniteSet(R \ (F \cup B))
    BY <1>1, FS_Subset
  <2> QED BY <1>4, <2>1, FS_Subset
<1>8. a.fn <= b.fn
  BY <1>2, <1>3, <1>5
<1>9. AtLeast(Recall(a), Recall(b))
  BY <1>2, <1>3, <1>8, RecallByMisses DEF AtLeast
<1> QED BY <1>5, <1>6, <1>7, <1>8, <1>9

\* Of two choices, each the cheaper at its own price, the one for the dearer misses has
\* the fewer of them.
LEMMA Exchange ==
    ASSUME NEW r \in Nat, NEW q \in Nat, r < q,
           NEW w \in Nat, NEW x \in Nat, NEW v \in Nat, NEW z \in Nat,
           r * w + v <= r * x + z, q * x + z <= q * w + v
    PROVE  x <= w
<1> SUFFICES ASSUME w < x PROVE FALSE
  OBVIOUS
<1> DEFINE d == q - r
           e == x - w
           a == r * e
           b == d * e
<1>1. d \in Nat \ {0} /\ e \in Nat \ {0} /\ q = r + d /\ x = w + e
  OBVIOUS
<1> HIDE DEF d, e
<1>2. a \in Nat /\ b \in Nat \ {0}
  BY <1>1
<1>3. r * x = r * w + a /\ r * w \in Nat
  BY <1>1
<1>4. q * x = q * w + q * e /\ q * w \in Nat
  BY <1>1
<1>5. q * e = a + b
  BY <1>1
<1> HIDE DEF a, b
<1> QED BY <1>2, <1>3, <1>4, <1>5

\* DearerMissesFewer: for any labels, probabilities, thresholds and cost ratios.
THEOREM DearerMissesAreFewer ==
    ASSUME NEW R, IsFiniteSet(R), NEW y \in [R -> {0, 1}], NEW p \in [R -> Int],
           NEW thresholds \in Seq(Int), thresholds # <<>>, NEW r \in Nat, NEW q \in Nat
    PROVE  DearerMissesFewer(y, p, thresholds, r, q)
<1> DEFINE n == Len(thresholds)
           items == sweep_thresholds(y, p, thresholds)
           fn(k) == items[k].counts.fn
           fp(k) == items[k].counts.fp
           P == Cardinality(Failing(y))
<1>1. n \in Nat \ {0} /\ DOMAIN thresholds = 1 .. n /\ DOMAIN items = 1 .. n
  BY EmptySeq DEF sweep_thresholds
<1>2. \A k \in 1 .. n : /\ fn(k) \in Nat /\ fp(k) \in Nat /\ items[k].counts.tp \in Nat
                        /\ P \in Nat /\ items[k].counts.tp + fn(k) = P
  <2> SUFFICES ASSUME NEW k \in 1 .. n
               PROVE  /\ fn(k) \in Nat /\ fp(k) \in Nat /\ items[k].counts.tp \in Nat
                      /\ P \in Nat /\ items[k].counts.tp + fn(k) = P
    OBVIOUS
  <2>1. items[k].counts = compute_confusion_matrix(y, Positives(p, thresholds[k]))
    BY <1>1 DEF sweep_thresholds
  <2>2. Positives(p, thresholds[k]) \subseteq R
    BY DEF Positives
  <2> QED BY <2>1, <2>2, Counted
<1> HIDE DEF items, n, P
<1>3. ASSUME NEW x \in Nat
      PROVE  \E l \in 1 .. n : /\ find_cost_optimal_threshold(items, x) = items[l]
                               /\ \A j \in 1 .. n : x * fn(l) + fp(l) <= x * fn(j) + fp(j)
  <2> DEFINE cost(k) == x * fn(k) + fp(k)
             f == [k \in 1 .. n |-> cost(k)]
             g == [k \in 1 .. n |-> fn(k)]
             h == [k \in 1 .. n |-> fp(k)]
             cheapest(k) == \A j \in DOMAIN items :
                 /\ ~Cheaper(items[j], items[k], x)
                 /\ j < k => Cheaper(items[k], items[j], x)
  <2>0. \A k \in 1 .. n : cost(k) \in Nat /\ Cost(items[k], x) = cost(k)
    <3> TAKE k \in 1 .. n
    <3>1. \A v, z \in Nat : x * v + z \in Nat
      OBVIOUS
    <3>2. cost(k) \in Nat
      BY <1>2, <3>1
    <3>3. Cost(items[k], x) = cost(k)
      BY DEF Cost
    <3> QED BY <3>2, <3>3
  <2>1. PICK k \in 1 .. n : First(k, n, f, g, h)
    <3>1. \A k \in 1 .. n : f[k] \in Nat /\ g[k] \in Nat /\ h[k] \in Nat
      BY <1>2, <2>0
    <3> HIDE DEF f, g, h
    <3> QED BY <1>1, <3>1, FirstOfLeast
  <2>2. \A i, j \in 1 .. n : Above(Recall(items[i].counts), Recall(items[j].counts)) <=> fn(i) < fn(j)
    BY <1>2, RecallByMisses
  <2>3. \A i, j \in 1 .. n : Cheaper(items[i], items[j], x) <=>
            \/ cost(i) < cost(j)
            \/ /\ cost(i) = cost(j)
               /\ fn(i) < fn(j) \/ (fn(i) <= fn(j) /\ fp(i) < fp(j))
    <3> HIDE DEF cost
    <3> QED BY <1>2, <2>0, <2>2 DEF Cheaper, AtLeast
  <2>4. cheapest(k)
    <3> SUFFICES ASSUME NEW j \in 1 .. n
                 PROVE  /\ ~Cheaper(items[j], items[k], x)
                        /\ j < k => Cheaper(items[k], items[j], x)
      BY <1>1
    <3>1. /\ f[j] = cost(j) /\ g[j] = fn(j) /\ h[j] = fp(j)
          /\ f[k] = cost(k) /\ g[k] = fn(k) /\ h[k] = fp(k)
      OBVIOUS
    <3>2. /\ f[k] <= f[j]
          /\ f[j] = f[k] => g[k] <= g[j]
          /\ f[j] = f[k] /\ g[j] = g[k] => h[k] <= h[j]
          /\ f[j] = f[k] /\ g[j] = g[k] /\ h[j] = h[k] => k <= j
      <4> HIDE DEF f, g, h
      <4> QED BY <2>1 DEF First
    <3>3. /\ j \in Int /\ k \in Int /\ cost(j) \in Nat /\ cost(k) \in Nat /\ fn(j) \in Nat /\ fn(k) \in Nat
          /\ fp(j) \in Nat /\ fp(k) \in Nat
      BY <1>1, <1>2, <2>0
    <3> HIDE DEF f, g, h, cost, fn, fp
    <3>4. /\ cost(k) <= cost(j)
          /\ cost(j) = cost(k) => fn(k) <= fn(j)
          /\ cost(j) = cost(k) /\ fn(j) = fn(k) => fp(k) <= fp(j)
          /\ cost(j) = cost(k) /\ fn(j) = fn(k) /\ fp(j) = fp(k) => k <= j
      BY <3>1, <3>2
    <3>5. ~Cheaper(items[j], items[k], x)
      BY <2>3, <3>3, <3>4
    <3>6. ASSUME j < k PROVE Cheaper(items[k], items[j], x)
      <4>1. Cheaper(items[k], items[j], x) <=>
              \/ cost(k) < cost(j)
              \/ /\ cost(k) = cost(j)
                 /\ fn(k) < fn(j) \/ (fn(k) <= fn(j) /\ fp(k) < fp(j))
        BY <2>3
      <4>2. ~ (cost(j) = cost(k) /\ fn(j) = fn(k) /\ fp(j) = fp(k))
        BY <3>3, <3>4, <3>6
      <4>3. \/ cost(k) < cost(j)
            \/ cost(k) = cost(j) /\ fn(k) < fn(j)
            \/ cost(k) = cost(j) /\ fn(k) = fn(j) /\ fp(k) < fp(j)
        BY <3>3, <3>4, <4>2
      <4> QED BY <3>3, <4>1, <4>3
    <3> QED BY <3>5, <3>6
  <2> DEFINE c == CHOOSE l \in DOMAIN items : cheapest(l)
  <2>5. c \in DOMAIN items /\ cheapest(c)
    BY <1>1, <2>4
  <2>6. find_cost_optimal_threshold(items, x) = items[c]
    BY DEF find_cost_optimal_threshold, Best
  <2> HIDE DEF c
  <2>7. c \in 1 .. n /\ \A j \in 1 .. n : ~ (cost(j) < cost(c))
    <3> HIDE DEF cost
    <3> QED BY <1>1, <2>3, <2>5
  <2>8. \A j \in 1 .. n : cost(c) <= cost(j)
    <3> HIDE DEF cost
    <3> QED BY <2>0, <2>7
  <2> QED BY <2>6, <2>7, <2>8
<1>4. SUFFICES ASSUME r < q
               PROVE  find_cost_optimal_threshold(items, q).counts.fn
                        <= find_cost_optimal_threshold(items, r).counts.fn
  BY DEF DearerMissesFewer, items
<1>5. PICK a \in 1 .. n : /\ find_cost_optimal_threshold(items, r) = items[a]
                          /\ \A j \in 1 .. n : r * fn(a) + fp(a) <= r * fn(j) + fp(j)
  BY <1>3
<1>6. PICK b \in 1 .. n : /\ find_cost_optimal_threshold(items, q) = items[b]
                          /\ \A j \in 1 .. n : q * fn(b) + fp(b) <= q * fn(j) + fp(j)
  BY <1>3
<1>7. fn(a) \in Nat /\ fp(a) \in Nat /\ fn(b) \in Nat /\ fp(b) \in Nat
  BY <1>2
<1>8. fn(b) <= fn(a)
  <2> HIDE DEF fn, fp
  <2> QED BY <1>4, <1>5, <1>6, <1>7, Exchange
<1> QED BY <1>5, <1>6, <1>8

-----------------------------------------------------------------------------
(* The governance *)

USE GovernanceAssumption DEF Generations

Ops    == {"idle", "pipeline", "retrain", "register", "promote", "rollback"}
Places == {"", "train", "val", "test", "read", "register", "latest", "alias", "log",
           "verify", "champion", "base", "candidate", "gate", "refused", "current"}
Things == {"splits", "meta", "versions", "champion", "challenger"}
Job    == [op : Ops, at : Places, read : Seq(Generations), model : Trainings \cup {NaN},
           own : Int, version : Int, prev : Int, base : Int, stale : SUBSET Things]
Row    == [recall : Int, precision : Int, sound : BOOLEAN, read : Seq(Generations),
           mine : BOOLEAN, stale : SUBSET {"splits", "meta"}]
Events == {"retrain_started", "retrain_completed", "retrain_failed", "promotion_gate_failed",
           "promote", "rollback"}
Event  == [event : Events, version : Int, from : Int, sure : BOOLEAN]
Held   == [model : Trainings \cup {NaN}, writer : Users \cup {NaN}, version : Int]
Engine == [at : {"off", "loading", "ready"}, label : Int,
           via : {"none", "file", "champion", "challenger"},
           model : Held \cup {NaN} \cup Int, moved : BOOLEAN]

Known(v) == v \in DOMAIN versions

\* The shapes of all there is, and that what is named exists.
StoreShapes ==
    /\ data \in Generations /\ files \in [Files -> Generations]
    /\ versions \in Seq(Row) /\ Known(champion) /\ Known(challenger)
    /\ meta \in Users \cup {NaN}
    /\ engine \in Engine /\ engine.label \in Version \cup {LocalLabel}
    /\ begun \in 0 .. MaxOps
    /\ moves \subseteq [op : Audited \cup {"register"}, from : Version, to : Version]
    /\ unlogged \subseteq Audited \X Version
    /\ log \subseteq Event /\ \A e \in log : e.version \in Version /\ e.from \in Version

Shapes == StoreShapes /\ job \in [Users -> Job]

\* Where an operation may be.
Route(j) ==
    \/ j.op = "idle" /\ j.at = ""
    \/ j.op = "pipeline" /\ j.at \in Files /\ j.base \in Generations
    \/ j.op = "register" /\ j.at \in {"read", "register", "latest", "alias", "verify", "champion"}
    \/ j.op = "retrain" /\ j.at \in {"read", "register", "latest", "alias", "log"}
    \/ j.op = "promote" /\ j.at \in {"base", "candidate", "gate", "refused", "champion", "log"}
    \/ j.op = "rollback" /\ j.at \in {"current", "champion", "log"}

\* What it has in hand there.
Holds(j) ==
    /\ j.prev \in Version
    /\ j.op \in {"retrain", "register"} /\ j.at = "read" => Len(j.read) <= Len(Reads(j.op))
    /\ j.at = "register" => j.model \in Trainings /\ Len(j.read) = Len(Reads(j.op))
    /\ j.op \in {"retrain", "register"} /\ j.at \in {"latest", "alias", "log"} => Known(j.own)
    /\ j.at \in {"alias", "verify", "gate", "refused", "current", "champion", "log"} =>
         Known(j.version)
    /\ j.at \in {"candidate", "gate"} => Known(j.base)

\* What it has read still holds, unless it was told of a change. The splits it has read are
\* one generation;
ReadsAgree(j) ==
    j.op \in {"retrain", "register"} /\ j.at \in {"read", "register"} /\ "splits" \notin j.stale =>
      /\ ~Mixed
      /\ \A i \in DOMAIN j.read : j.read[i] = files["train"]

\* the metadata file and the latest version are its own;
OwnLatest(u, j) ==
    /\ j.op = "retrain" /\ j.at = "register" /\ "meta" \notin j.stale => meta = u
    /\ j.at = "latest" /\ "versions" \notin j.stale => j.own = Len(versions)
    /\ j.op = "retrain" /\ j.at \in {"alias", "log"} /\ "versions" \notin j.stale =>
         j.version = j.own

\* the champion is the one it replaces and compared with, and a candidate is the challenger;
AliasesKept(j) ==
    /\ \/ j.op = "promote" /\ j.at # "log"
       \/ j.op = "rollback" /\ j.at = "champion"
       => ("champion" \notin j.stale => j.prev = champion)
    /\ j.at \in {"candidate", "gate"} /\ "champion" \notin j.stale => j.base = champion
    /\ j.at = "gate" /\ "challenger" \notin j.stale => j.version = challenger

\* a promotion past its gate brings what the gate asks for;
Gated(j) ==
    j.op = "promote" /\ j.at = "champion" =>
      /\ versions[j.version].precision >= Floor
      /\ "champion" \notin j.stale =>
           versions[j.version].recall >= versions[champion].recall - Margin
      /\ "challenger" \notin j.stale => versions[j.version].sound

\* and what it is about to write into the audit log was done.
MoveMade(j) ==
    j.op \in Audited /\ j.at = "log" =>
      \E m \in moves : /\ m.op = j.op /\ m.to = j.version
                       /\ "champion" \notin j.stale => m.from = j.prev

Fits(u, j) ==
    /\ Route(j) /\ Holds(j) /\ ReadsAgree(j) /\ OwnLatest(u, j)
    /\ AliasesKept(j) /\ Gated(j) /\ MoveMade(j)

\* A registered version read files of one generation, and its metadata are its own, unless
\* something changed in that very interval.
Lineage(r) ==
    /\ \E m \in Trainings : r.recall = m.recall /\ r.precision = m.precision /\ r.sound = m.sound
    /\ Len(r.read) \in {3, 4}
    /\ "splits" \notin r.stale => \E g \in Generations : \A i \in DOMAIN r.read : r.read[i] = g
    /\ "meta" \notin r.stale => r.mine

\* The alias is looked up twice.
Labelled ==
    /\ engine.at = "loading" => engine.via \notin {"none", "file"}
    /\ engine.at = "loading" /\ ~engine.moved =>
         engine.label = IF engine.via = "champion" THEN champion ELSE challenger
    /\ engine.at = "ready" /\ engine.via # "file" /\ ~engine.moved =>
         engine.model = engine.label

ReportsOwn ==
    \A e \in log : e.event = "retrain_completed" /\ e.sure => e.version = e.from

IInv ==
    /\ Shapes /\ (\A u \in Users : Fits(u, job[u])) /\ (\A v \in DOMAIN versions : Lineage(versions[v]))
    /\ Labelled /\ ReportsOwn /\ AuditAgrees

\* What was registered from a file is the training it holds.
Filed(f) == f.version # 0 => Known(f.version) /\ RegisteredAs(versions[f.version], f.model)

\* As long as the file has a writer, that is a registration about to register what it
\* holds; and the engine holds a copy of what the file was.
FileInv ==
    /\ artifact \in Held /\ Filed(artifact)
    /\ \A u \in Users : artifact.writer = u =>
         job[u].op = "register" /\ job[u].at = "register" /\ job[u].model = artifact.model
    /\ engine.via = "file" => Filed(engine.model)

-----------------------------------------------------------------------------
\* The invariant gives the properties.
LEMMA Typed == IInv /\ FileInv => TypeOK
<1> SUFFICES ASSUME IInv, FileInv PROVE TypeOK
  OBVIOUS
<1>1. \A v \in DOMAIN versions :
        /\ \E m \in Trainings : /\ versions[v].recall = m.recall
                                /\ versions[v].precision = m.precision
                                /\ versions[v].sound = m.sound
        /\ Range(versions[v].read) \subseteq Generations
        /\ versions[v].mine \in BOOLEAN /\ versions[v].stale \subseteq {"splits", "meta"}
  <2> SUFFICES ASSUME NEW v \in DOMAIN versions
               PROVE  /\ Range(versions[v].read) \subseteq Generations
                      /\ versions[v].mine \in BOOLEAN
                      /\ versions[v].stale \subseteq {"splits", "meta"}
    BY DEF IInv, Lineage
  <2>1. versions[v] \in Row
    BY DEF IInv, Shapes, StoreShapes
  <2>2. versions[v].read \in Seq(Generations)
    BY <2>1 DEF Row
  <2> QED BY <2>1, <2>2 DEF Row, Range
<1>2. engine.at \in {"off", "loading", "ready"}
  BY DEF IInv, Shapes, StoreShapes, Engine
<1>3. \A u \in Users : job[u].op \in Ops
  BY DEF IInv, Shapes, Job
<1>4. artifact.model \in Trainings \cup {NaN} /\ artifact.version \in Version
  BY DEF FileInv, Filed, Held, Known, Version, IInv, Shapes, StoreShapes
<1> QED BY <1>1, <1>2, <1>3, <1>4 DEF IInv, Shapes, StoreShapes, TypeOK, Known, Ops

LEMMA KeptApart == IInv => RetrainingsKeptApart
BY DEF IInv, ReportsOwn, Lineage, RetrainingsKeptApart

\* The split files of one generation are separate, by what is proved of the pipeline.
LEMMA OneGenerationSeparate ==
    ASSUME NEW g \in Generations
    PROVE  <<g, g>> \in Separate
<1> DEFINE df == prepare_dataset(RawData[g])
<1>1. Frame(RawData[g])
  OBVIOUS
<1>2. \A i, j \in DOMAIN df : i # j /\ Compared(df[i]) = Compared(df[j]) => df[i].reading = NaN
  BY <1>1, PreparedRepeatsNullified
<1>3. Dataset[g] = split_dataset(df)
  BY DEF Dataset
<1> HIDE DEF df
<1>4. machine_overlap(Dataset[g].train, Dataset[g].val) = {}
  BY <1>3, SplitsShareNoMachine, SplitNames
<1>5. ASSUME NEW s \in {"train", "val"}
      PROVE  RepeatsOnlyNullified(Dataset[g][s])
  <2>1. \A i \in DOMAIN Dataset[g][s] : i \in DOMAIN df /\ Dataset[g][s][i] = df[i]
    BY <1>3, RowsOfSplit, SplitNames
  <2> QED BY <2>1, <1>2 DEF RepeatsOnlyNullified
<1> QED BY <1>4, <1>5 DEF Separate

LEMMA DataSound == IInv => TrainingDataSound
<1> SUFFICES ASSUME IInv, NEW v \in DOMAIN versions, "splits" \notin versions[v].stale
             PROVE  /\ versions[v].read[1] = TrainedOn(v) /\ versions[v].read[2] = Validated(v)
                    /\ <<TrainedOn(v), Validated(v)>> \in Separate
  BY DEF TrainingDataSound
<1> DEFINE r == versions[v].read
<1>1. PICK g \in Generations : \A i \in DOMAIN r : r[i] = g
  BY DEF IInv, Lineage
<1>2. Len(r) \in {3, 4} /\ DOMAIN r = 1 .. Len(r)
  <2>1. versions[v] \in Row
    BY DEF IInv, Shapes, StoreShapes
  <2>2. r \in Seq(Generations)
    BY <2>1 DEF Row
  <2> QED BY <2>2 DEF IInv, Lineage
<1>3. r[1] = g /\ r[2] = g /\ TrainedOn(v) = g /\ Validated(v) = g
  BY <1>1, <1>2 DEF TrainedOn, Validated
<1> QED BY <1>3, OneGenerationSeparate
-----------------------------------------------------------------------------
(* Steps *)

\* Versions are only ever added.
Grown == versions' = versions \/ \E r \in Row : versions' = Append(versions, r)

\* What user u does to the others: they are told of S, which names whatever changes.
Tells(u, S) ==
    /\ \A w \in Users \ {u} :
         /\ job'[w] = job[w] \/ job'[w] = [job[w] EXCEPT !.stale = @ \cup S]
         /\ job[w].op # "idle" => S \subseteq job'[w].stale
    /\ files' # files => "splits" \in S
    /\ meta' # meta => "meta" \in S
    /\ versions' # versions => "versions" \in S
    /\ champion' # champion => "champion" \in S
    /\ challenger' # challenger => "challenger" \in S

LEMMA StillKnown ==
    ASSUME Shapes, Grown
    PROVE  /\ versions' \in Seq(Row) /\ Len(versions') \in {Len(versions), Len(versions) + 1}
           /\ \A v : Known(v) => Known(v)' /\ versions'[v] = versions[v]
           /\ \A v : v \in Version => v \in Version'
<1>1. versions \in Seq(Row)
  BY DEF Shapes, StoreShapes
<1>2. CASE versions' = versions
  BY <1>1, <1>2 DEF Known, Version
<1>3. CASE \E r \in Row : versions' = Append(versions, r)
  BY <1>1, <1>3 DEF Known, Version
<1> QED BY <1>2, <1>3 DEF Grown

\* Whoever is told of what changes keeps what is known of it.
LEMMA OthersKept ==
    ASSUME IInv, Grown, moves \subseteq moves', NEW u \in Users, NEW S \in SUBSET Things,
           Tells(u, S), NEW w \in Users \ {u}
    PROVE  job'[w] \in Job /\ Fits(w, job[w])'
<1>1. PICK j : j = job[w]
  OBVIOUS
<1>2. PICK k : k = job'[w]
  OBVIOUS
<1>3. j \in Job /\ Fits(w, j) /\ (k = j \/ k = [j EXCEPT !.stale = @ \cup S])
        /\ (j.op # "idle" => S \subseteq k.stale)
  BY <1>1, <1>2 DEF IInv, Shapes, Tells
<1>4. /\ k \in Job
      /\ k.op = j.op /\ k.at = j.at /\ k.read = j.read /\ k.model = j.model
      /\ k.own = j.own /\ k.version = j.version /\ k.prev = j.prev /\ k.base = j.base
      /\ j.stale \subseteq k.stale
  BY <1>3 DEF Job
<1>5. Route(j) /\ Holds(j) /\ ReadsAgree(j) /\ OwnLatest(w, j) /\ AliasesKept(j)
        /\ Gated(j) /\ MoveMade(j)
  BY <1>1, <1>3 DEF Fits
<1>6. /\ \A v : Known(v) => Known(v)' /\ versions'[v] = versions[v]
      /\ \A v : v \in Version => v \in Version'
  BY StillKnown DEF IInv
<1>7. /\ Known(champion) /\ Known(challenger)
      /\ "splits" \notin S => files' = files
      /\ "meta" \notin S => meta' = meta
      /\ "versions" \notin S => versions' = versions
      /\ "champion" \notin S => champion' = champion
      /\ "challenger" \notin S => challenger' = challenger
  BY DEF Tells, IInv, Shapes, StoreShapes
<1>8. j.at # "" /\ j.at \notin Files => j.op # "idle"
  BY <1>5 DEF Route
<1>9. Route(k)
  BY <1>4, <1>5 DEF Route
<1>10. Holds(k)'
  BY <1>4, <1>5, <1>6 DEF Holds, Reads
<1>11. ReadsAgree(k)'
  BY <1>3, <1>4, <1>5, <1>7 DEF ReadsAgree, Mixed
<1>12. OwnLatest(w, k)'
  BY <1>3, <1>4, <1>5, <1>7, <1>8 DEF OwnLatest, Files
<1>13. AliasesKept(k)'
  BY <1>3, <1>4, <1>5, <1>7, <1>8 DEF AliasesKept, Files
<1>14. Gated(k)'
  BY <1>3, <1>4, <1>5, <1>6, <1>7 DEF Gated, Holds
<1>15. MoveMade(k)'
  <2> SUFFICES ASSUME k.op \in Audited, k.at = "log"
               PROVE  \E m \in moves' : /\ m.op = k.op /\ m.to = k.version
                                        /\ "champion" \notin k.stale => m.from = k.prev
    BY DEF MoveMade
  <2>1. PICK m \in moves : /\ m.op = j.op /\ m.to = j.version
                           /\ "champion" \notin j.stale => m.from = j.prev
    <3>1. j.op \in Audited /\ j.at = "log"
      BY <1>4
    <3>2. MoveMade(j)
      BY <1>5
    <3> QED BY <3>1, <3>2 DEF MoveMade
  <2> QED BY <2>1, <1>4
<1>16. Fits(w, job[w])'
  <2>1. Route(job[w])' /\ Holds(job[w])'
    BY <1>2, <1>9, <1>10 DEF Route, Holds
  <2>2. ReadsAgree(job[w])' /\ OwnLatest(w, job[w])'
    BY <1>2, <1>11, <1>12 DEF ReadsAgree, OwnLatest
  <2>3. AliasesKept(job[w])' /\ Gated(job[w])'
    BY <1>2, <1>13, <1>14 DEF AliasesKept, Gated
  <2>4. MoveMade(job[w])'
    BY <1>2, <1>15 DEF MoveMade
  <2> QED BY <2>1, <2>2, <2>3, <2>4 DEF Fits
<1> QED BY <1>2, <1>4, <1>16

\* A step of user u: what he now does fits, what others do still does.
LEMMA AllFit ==
    ASSUME IInv, Grown, moves \subseteq moves', NEW u \in Users, NEW S \in SUBSET Things,
           Tells(u, S), job' = [w \in Users |-> job'[w]],
           NEW k \in Job, k = job'[u], Fits(u, k)'
    PROVE  job' \in [Users -> Job] /\ \A w \in Users : Fits(w, job[w])'
<1>1. ASSUME NEW w \in Users
      PROVE  job'[w] \in Job /\ Fits(w, job[w])'
  <2>1. CASE w = u
    <3>1. Route(job[w])' /\ Holds(job[w])'
      BY <2>1 DEF Fits, Route, Holds
    <3>2. ReadsAgree(job[w])' /\ OwnLatest(w, job[w])'
      BY <2>1 DEF Fits, ReadsAgree, OwnLatest
    <3>3. AliasesKept(job[w])' /\ Gated(job[w])'
      BY <2>1 DEF Fits, AliasesKept, Gated
    <3>4. MoveMade(job[w])'
      BY <2>1 DEF Fits, MoveMade
    <3> QED BY <2>1, <3>1, <3>2, <3>3, <3>4 DEF Fits
  <2>2. CASE w # u
    BY <2>2, OthersKept
  <2> QED BY <2>1, <2>2
<1> QED BY <1>1

\* The audit log agrees as long as whoever is about to write an entry still is.
LEMMA AuditKept ==
    ASSUME IInv, NEW u \in Users, NEW S \in SUBSET Things, Tells(u, S),
           ~(job[u].op \in Audited /\ job[u].at = "log"),
           moves' = moves, unlogged' = unlogged, log \subseteq log',
           \A e \in log' : e \in log \/ e.event \notin Audited
    PROVE  AuditAgrees'
<1>1. ASSUME NEW w \in Users, job[w].op \in Audited, job[w].at = "log"
      PROVE  job'[w].op = job[w].op /\ job'[w].at = "log" /\ job'[w].version = job[w].version
  <2>1. w \in Users \ {u} /\ job[w] \in Job
    BY <1>1 DEF IInv, Shapes
  <2>2. job'[w] = job[w] \/ job'[w] = [job[w] EXCEPT !.stale = @ \cup S]
    BY <2>1 DEF Tells
  <2> QED BY <2>1, <2>2, <1>1 DEF Job
<1>2. AuditAgrees
  BY DEF IInv
<1>3. ASSUME NEW m \in moves, m.op \in Audited
      PROVE  \/ \E e \in log' : e.event = m.op /\ e.version = m.to
             \/ \E w \in Users : job'[w].op = m.op /\ job'[w].at = "log" /\ job'[w].version = m.to
             \/ <<m.op, m.to>> \in unlogged
  <2>1. CASE \E e \in log : e.event = m.op /\ e.version = m.to
    BY <2>1
  <2>2. CASE \E w \in Users : job[w].op = m.op /\ job[w].at = "log" /\ job[w].version = m.to
    BY <2>2, <1>1, <1>3
  <2>3. CASE <<m.op, m.to>> \in unlogged
    BY <2>3
  <2> QED BY <1>2, <1>3, <2>1, <2>2, <2>3 DEF AuditAgrees
<1>4. ASSUME NEW e \in log', e.event \in Audited
      PROVE  \E m \in moves : /\ m.op = e.event /\ m.to = e.version
                              /\ e.sure => m.from = e.from
  BY <1>2, <1>4 DEF AuditAgrees
<1> QED BY <1>3, <1>4 DEF AuditAgrees

\* What may be written into the audit log besides the moves of the champion.
Reported ==
    /\ log \subseteq log'
    /\ \A e \in log' : e \in log \/
         /\ e \in Event /\ e.event \notin Audited /\ e.version \in Version /\ e.from \in Version
         /\ e.event = "retrain_completed" /\ e.sure => e.version = e.from

\* A step that changes no more than what user u is doing, and writes no move into the log.
LEMMA JobStep ==
    ASSUME IInv, NEW u \in Users, NEW k \in Job, job' = [job EXCEPT ![u] = k],
           UNCHANGED <<files, registry, meta, engine, moves, unlogged>>,
           Reported, data' \in Generations, begun' \in 0 .. MaxOps,
           ~(job[u].op \in Audited /\ job[u].at = "log"), Fits(u, k)
    PROVE  IInv'
<1>1. UNCHANGED <<files, versions, champion, challenger, meta, engine, moves, unlogged>>
  BY DEF registry
<1>2. Grown /\ Tells(u, {}) /\ job' = [w \in Users |-> job'[w]] /\ job'[u] = k
  BY <1>1 DEF Grown, Tells, IInv, Shapes
<1>3. Fits(u, k)'
  <2>1. Route(k) /\ Holds(k)' /\ ReadsAgree(k)' /\ OwnLatest(u, k)'
    BY <1>1 DEF Fits, Holds, ReadsAgree, OwnLatest, Known, Version, Mixed
  <2>2. AliasesKept(k)' /\ Gated(k)' /\ MoveMade(k)'
    BY <1>1 DEF Fits, AliasesKept, Gated, MoveMade
  <2> QED BY <2>1, <2>2 DEF Fits, Route
<1>4. Shapes' /\ \A w \in Users : Fits(w, job[w])'
  <2>1. StoreShapes'
    <3>1. log' \subseteq Event /\ \A e \in log' : e.version \in Version' /\ e.from \in Version'
      BY <1>1 DEF Reported, IInv, Shapes, StoreShapes, Version
    <3> QED BY <1>1, <3>1 DEF IInv, Shapes, StoreShapes, Known, Version
  <2>2. job' \in [Users -> Job] /\ \A w \in Users : Fits(w, job[w])'
    BY <1>1, <1>2, <1>3, AllFit
  <2> QED BY <2>1, <2>2 DEF Shapes
<1>5. \A v \in DOMAIN versions' : Lineage(versions'[v])
  BY <1>1 DEF IInv
<1>6. Labelled' /\ ReportsOwn'
  BY <1>1 DEF IInv, Labelled, ReportsOwn, Reported
<1>7. AuditAgrees'
  BY <1>1, <1>2, AuditKept DEF Reported
<1> QED BY <1>4, <1>5, <1>6, <1>7 DEF IInv

LEMMA NothingReported == log' = log => Reported
BY DEF Reported

-----------------------------------------------------------------------------
LEMMA IdleJob ==
    /\ Idle \in Job
    /\ Idle.op = "idle" /\ Idle.at = "" /\ Idle.prev = 0 /\ Idle.read = <<>> /\ Idle.stale = {}
BY DEF Idle, Job, Ops, Places

LEMMA ZeroVersion == Shapes => 0 \in Version
BY DEF Shapes, StoreShapes, Version

\* Nothing is claimed of one who does nothing.
LEMMA IdleFits ==
    ASSUME IInv, NEW u \in Users
    PROVE  Fits(u, Idle)
<1>1. Route(Idle) /\ Holds(Idle)
  BY IdleJob, ZeroVersion DEF Route, Holds, IInv
<1>2. ReadsAgree(Idle) /\ OwnLatest(u, Idle) /\ AliasesKept(Idle) /\ Gated(Idle)
  BY IdleJob DEF ReadsAgree, OwnLatest, AliasesKept, Gated
<1>3. MoveMade(Idle)
  BY IdleJob DEF MoveMade, Audited
<1> QED BY <1>1, <1>2, <1>3 DEF Fits

LEMMA StartStep ==
    ASSUME IInv, NEW u \in Users,
           Prepare(u) \/ StartRetrain(u) \/ StartRegister(u) \/ StartPromote(u) \/ StartRollback(u)
    PROVE  IInv'
<1>1. PICK k : k = job'[u]
  OBVIOUS
<1>2. job \in [Users -> Job] /\ versions \in Seq(Row) /\ begun \in 0 .. MaxOps
        /\ data \in Generations /\ Known(champion) /\ champion \in Version /\ 0 \in Version
  BY ZeroVersion DEF IInv, Shapes, StoreShapes, Known, Version
<1>3. \/ /\ Prepare(u) /\ data' \in Generations
         /\ k = [Idle EXCEPT !.op = "pipeline", !.at = "train", !.base = data']
      \/ /\ StartRetrain(u) /\ UNCHANGED data
         /\ k = [Idle EXCEPT !.op = "retrain", !.at = "read",
                             !.stale = IF Mixed THEN {"splits"} ELSE {}]
      \/ /\ StartRegister(u) /\ UNCHANGED data
         /\ k = [Idle EXCEPT !.op = "register", !.at = "read",
                             !.stale = IF Mixed THEN {"splits"} ELSE {}]
      \/ /\ StartPromote(u) /\ UNCHANGED data
         /\ k = [Idle EXCEPT !.op = "promote", !.at = "base", !.prev = champion]
      \/ /\ StartRollback(u) /\ UNCHANGED data
         /\ \E target \in DOMAIN versions :
              k = [Idle EXCEPT !.op = "rollback", !.at = "current", !.version = target]
  BY <1>1, <1>2 DEF Prepare, StartRetrain, StartRegister, StartPromote, StartRollback, Begin, store
<1>4. /\ job[u].op = "idle" /\ begun < MaxOps /\ begun' = begun + 1
      /\ UNCHANGED <<files, registry, meta, engine, moves, unlogged>>
  BY DEF Prepare, StartRetrain, StartRegister, StartPromote, StartRollback, Begin, store
<1>5. job' = [job EXCEPT ![u] = k]
  BY <1>1, <1>2 DEF Prepare, StartRetrain, StartRegister, StartPromote, StartRollback, Begin
<1>6. Reported
  <2>1. CASE StartRetrain(u)
    <3>1. PICK e : e = Entry("retrain_started", 0, 0, TRUE)
      OBVIOUS
    <3>2. log' = log \cup {e}
      BY <2>1, <3>1 DEF StartRetrain, append_audit_log
    <3>3. e \in Event /\ e.event \notin Audited /\ e.version = e.from /\ e.from = 0
      BY <3>1 DEF Entry, Event, Events, Audited
    <3> QED BY <3>2, <3>3, <1>2 DEF Reported
  <2>2. CASE ~StartRetrain(u)
    BY <2>2, NothingReported DEF Prepare, StartRegister, StartPromote, StartRollback
  <2> QED BY <2>1, <2>2
<1>7. /\ k \in Job
      /\ \/ k.op = "pipeline" /\ k.at = "train" /\ k.base \in Generations /\ k.prev = 0
         \/ /\ k.op \in {"retrain", "register"} /\ k.at = "read" /\ k.read = <<>> /\ k.prev = 0
            /\ "splits" \notin k.stale => ~Mixed
         \/ k.op = "promote" /\ k.at = "base" /\ k.prev = champion
         \/ k.op = "rollback" /\ k.at = "current" /\ k.prev = 0 /\ Known(k.version)
  <2>1. CASE /\ data' \in Generations
             /\ k = [Idle EXCEPT !.op = "pipeline", !.at = "train", !.base = data']
    <3>1. data' \in Int
      BY <2>1
    <3> QED BY <2>1, <3>1, IdleJob DEF Job, Ops, Places
  <2>2. ASSUME NEW op \in {"retrain", "register"}, NEW S \in SUBSET {"splits"},
               k = [Idle EXCEPT !.op = op, !.at = "read", !.stale = S]
        PROVE  k \in Job /\ k.op = op /\ k.at = "read" /\ k.read = <<>> /\ k.prev = 0
                 /\ k.stale = S
    BY <2>2, IdleJob DEF Job, Ops, Places, Things
  <2>3. CASE k = [Idle EXCEPT !.op = "promote", !.at = "base", !.prev = champion]
    <3>1. champion \in Int
      BY <1>2 DEF Version
    <3> QED BY <2>3, <3>1, IdleJob DEF Job, Ops, Places
  <2>4. ASSUME NEW v \in DOMAIN versions,
               k = [Idle EXCEPT !.op = "rollback", !.at = "current", !.version = v]
        PROVE  k \in Job /\ k.op = "rollback" /\ k.at = "current" /\ k.prev = 0
                 /\ k.version = v
    <3>1. v \in Int
      BY <1>2
    <3> QED BY <2>4, <3>1, IdleJob DEF Job, Ops, Places
  <2>5. CASE StartRetrain(u) \/ StartRegister(u)
    <3>1. PICK S \in SUBSET {"splits"}, op \in {"retrain", "register"} :
            /\ k = [Idle EXCEPT !.op = op, !.at = "read", !.stale = S]
            /\ S = IF Mixed THEN {"splits"} ELSE {}
      BY <1>1, <1>2, <2>5 DEF StartRetrain, StartRegister, Begin
    <3> QED BY <3>1, <2>2
  <2> QED BY <1>3, <2>1, <2>3, <2>4, <2>5 DEF Known
<1>8. Fits(u, k)
  <2>1. Len(<<>>) = 0 /\ \A op : Len(Reads(op)) \in {3, 4}
    BY DEF Reads
  <2>2. Route(k)
    BY <1>7 DEF Route, Files
  <2>3. Holds(k)
    BY <1>2, <1>7, <2>1 DEF Holds
  <2>4. ReadsAgree(k) /\ OwnLatest(u, k) /\ AliasesKept(k) /\ Gated(k)
    BY <1>7 DEF ReadsAgree, OwnLatest, AliasesKept, Gated
  <2>5. MoveMade(k)
    BY <1>7 DEF MoveMade, Audited
  <2> QED BY <2>2, <2>3, <2>4, <2>5 DEF Fits
<1>9. begun' \in 0 .. MaxOps
  BY <1>2, <1>4
<1>10. data' \in Generations
  BY <1>2, <1>3
<1> QED BY <1>4, <1>5, <1>6, <1>7, <1>8, <1>9, <1>10, JobStep DEF Audited

-----------------------------------------------------------------------------
\* An operation that ends, unless a move is still to be written into the log.
LEMMA EndStep ==
    ASSUME IInv, NEW u \in Users, Done(u), Reported,
           UNCHANGED <<store, registry, meta, engine, begun, moves, unlogged>>,
           ~(job[u].op \in Audited /\ job[u].at = "log")
    PROVE  IInv'
<1>1. Idle \in Job /\ Fits(u, Idle)
  BY IdleJob, IdleFits
<1>2. job' = [job EXCEPT ![u] = Idle]
  BY DEF Done
<1>3. data' \in Generations /\ begun' \in 0 .. MaxOps
        /\ UNCHANGED <<files, registry, meta, engine, moves, unlogged>>
  BY DEF IInv, Shapes, StoreShapes, store
<1> QED BY <1>1, <1>2, <1>3, JobStep

\* An operation that goes on, and only reads.
LEMMA GoOnStep ==
    ASSUME IInv, NEW u \in Users, NEW k \in Job, job' = [job EXCEPT ![u] = k], Fits(u, k),
           UNCHANGED <<store, registry, log, meta, engine, begun, moves, unlogged>>,
           ~(job[u].op \in Audited /\ job[u].at = "log")
    PROVE  IInv'
<1>1. data' \in Generations /\ begun' \in 0 .. MaxOps
        /\ UNCHANGED <<files, registry, meta, engine, moves, unlogged>>
  BY DEF IInv, Shapes, StoreShapes, store
<1> QED BY <1>1, NothingReported, JobStep

\* What is known of the user who takes a step.
LEMMA Doing ==
    ASSUME IInv, NEW u \in Users
    PROVE  /\ job \in [Users -> Job] /\ job[u] \in Job /\ Fits(u, job[u])
           /\ versions \in Seq(Row) /\ files \in [Files -> Generations]
           /\ Known(champion) /\ Known(challenger) /\ champion \in Version
BY DEF IInv, Shapes, StoreShapes, Known, Version

LEMMA ReadSplitStep == ASSUME IInv, NEW u \in Users, ReadSplit(u) PROVE IInv'
<1>1. PICK j : j = job[u]
  OBVIOUS
<1>2. PICK f \in Files : f = Reads(j.op)[Len(j.read) + 1] /\ Len(j.read) < Len(Reads(j.op))
                           /\ job' = [job EXCEPT ![u].read = Append(@, files[f])]
  <2>1. j.at = "read" /\ Len(j.read) < Len(Reads(j.op))
    BY <1>1 DEF ReadSplit
  <2>2. j.read \in Seq(Generations)
    BY <1>1, Doing DEF Job
  <2>3. Reads(j.op)[Len(j.read) + 1] \in Files
    <3>1. Len(j.read) \in Nat
      BY <2>2
    <3>2. CASE j.op = "retrain"
      BY <3>1, <3>2, <2>1 DEF Reads, Files
    <3>3. CASE j.op # "retrain"
      BY <3>1, <3>3, <2>1 DEF Reads, Files
    <3> QED BY <3>2, <3>3
  <2> QED BY <1>1, <2>1, <2>3 DEF ReadSplit
<1>3. PICK k : k = [j EXCEPT !.read = Append(@, files[f])]
  OBVIOUS
<1>4. j \in Job /\ Fits(u, j) /\ files[f] \in Generations /\ j.at = "read"
  BY <1>1, Doing DEF ReadSplit
<1>5. /\ k \in Job
      /\ k.op = j.op /\ k.at = j.at /\ k.prev = j.prev /\ k.stale = j.stale
      /\ k.read = Append(j.read, files[f]) /\ j.read \in Seq(Generations)
  <2>1. PICK r : r = Append(j.read, files[f])
    OBVIOUS
  <2>2. j.read \in Seq(Generations) /\ r \in Seq(Generations)
    BY <1>4, <2>1 DEF Job
  <2>3. k = [j EXCEPT !.read = r]
    BY <1>3, <2>1
  <2> QED BY <1>4, <2>1, <2>2, <2>3 DEF Job
<1>6. job' = [job EXCEPT ![u] = k]
  BY <1>1, <1>2, <1>3, Doing
<1>7. j.op \in {"retrain", "register"}
  BY <1>4 DEF Fits, Route, Files
<1>8. Fits(u, k)
  <2>1. Route(k)
    BY <1>4, <1>5, <1>7 DEF Route
  <2>2. Len(k.read) <= Len(Reads(k.op))
    BY <1>2, <1>5 DEF Reads
  <2>3. Holds(k)
    BY <1>4, <1>5, <2>2 DEF Fits, Holds
  <2>4. ReadsAgree(k)
    <3> SUFFICES ASSUME "splits" \notin k.stale
                 PROVE  ~Mixed /\ \A i \in DOMAIN k.read : k.read[i] = files["train"]
      BY DEF ReadsAgree
    <3>1. ~Mixed /\ \A i \in DOMAIN j.read : j.read[i] = files["train"]
      BY <1>4, <1>5, <1>7 DEF Fits, ReadsAgree
    <3>2. files[f] = files["train"]
      BY <3>1 DEF Mixed, Files
    <3> QED BY <3>1, <3>2, <1>5
  <2>5. OwnLatest(u, k) /\ AliasesKept(k) /\ Gated(k)
    BY <1>4, <1>5, <1>7 DEF OwnLatest, AliasesKept, Gated
  <2>6. MoveMade(k)
    BY <1>4, <1>5 DEF MoveMade
  <2> QED BY <2>1, <2>3, <2>4, <2>5, <2>6 DEF Fits
<1> QED BY <1>1, <1>4, <1>5, <1>6, <1>8, GoOnStep DEF ReadSplit

LEMMA FindLatestStep == ASSUME IInv, NEW u \in Users, FindLatest(u) PROVE IInv'
<1>1. PICK j : j = job[u]
  OBVIOUS
<1>2. PICK k : k = [j EXCEPT !.version = Len(versions), !.at = "alias"]
  OBVIOUS
<1>3. j \in Job /\ Fits(u, j) /\ j.at = "latest" /\ Len(versions) \in Int
  BY <1>1, Doing DEF FindLatest
<1>4. /\ k \in Job
      /\ k.op = j.op /\ k.at = "alias" /\ k.prev = j.prev /\ k.stale = j.stale
      /\ k.own = j.own /\ k.version = Len(versions)
  BY <1>2, <1>3 DEF Job, Places
<1>5. job' = [job EXCEPT ![u] = k]
  BY <1>1, <1>2, Doing DEF FindLatest
<1>6. j.op \in {"retrain", "register"}
  BY <1>3 DEF Fits, Route, Files
<1>7. Fits(u, k)
  <2>1. Known(Len(versions)) /\ Known(j.own)
    BY <1>3, <1>6, Doing DEF Known, Fits, Holds
  <2>2. Route(k) /\ Holds(k)
    BY <1>3, <1>4, <1>6, <2>1 DEF Fits, Route, Holds
  <2>3. OwnLatest(u, k)
    BY <1>3, <1>4 DEF Fits, OwnLatest
  <2>4. ReadsAgree(k) /\ AliasesKept(k) /\ Gated(k)
    BY <1>4, <1>6 DEF ReadsAgree, AliasesKept, Gated
  <2>5. MoveMade(k)
    BY <1>4 DEF MoveMade
  <2> QED BY <2>2, <2>3, <2>4, <2>5 DEF Fits
<1> QED BY <1>1, <1>3, <1>4, <1>5, <1>7, GoOnStep DEF FindLatest

\* A step that only moves an operation on to another place.
LEMMA VerifyStep == ASSUME IInv, NEW u \in Users, VerifyRegistered(u) PROVE IInv'
<1>1. PICK j : j = job[u]
  OBVIOUS
<1>2. PICK k : k = [j EXCEPT !.at = "champion"]
  OBVIOUS
<1>3. j \in Job /\ Fits(u, j) /\ j.at = "verify"
  BY <1>1, Doing DEF VerifyRegistered
<1>4. k \in Job /\ k.op = j.op /\ k.at = "champion" /\ k.prev = j.prev /\ k.version = j.version
  BY <1>2, <1>3 DEF Job, Places
<1>5. j.op = "register"
  BY <1>3 DEF Fits, Route, Files
<1>6. Fits(u, k)
  <2>1. Route(k) /\ Holds(k)
    BY <1>3, <1>4, <1>5 DEF Fits, Route, Holds
  <2>2. ReadsAgree(k) /\ OwnLatest(u, k) /\ AliasesKept(k) /\ Gated(k)
    BY <1>4, <1>5 DEF ReadsAgree, OwnLatest, AliasesKept, Gated
  <2>3. MoveMade(k)
    BY <1>4 DEF MoveMade
  <2> QED BY <2>1, <2>2, <2>3 DEF Fits
<1>7. CASE Done(u)
  <2>1. UNCHANGED <<store, registry, log, meta, engine, begun, moves, unlogged>>
    BY DEF VerifyRegistered
  <2> QED BY <1>1, <1>3, <1>7, <2>1, NothingReported, EndStep
<1>8. CASE Go(u, "champion")
  <2>1. job' = [job EXCEPT ![u] = k]
    BY <1>1, <1>2, <1>8, Doing DEF Go
  <2> QED BY <1>1, <1>3, <1>4, <1>6, <2>1, GoOnStep DEF VerifyRegistered
<1> QED BY <1>7, <1>8 DEF VerifyRegistered

LEMMA GateChampionStep == ASSUME IInv, NEW u \in Users, GateChampion(u) PROVE IInv'
<1>1. PICK j : j = job[u]
  OBVIOUS
<1>2. PICK k : k = [j EXCEPT !.base = champion, !.at = "candidate"]
  OBVIOUS
<1>3. j \in Job /\ Fits(u, j) /\ j.at = "base" /\ champion \in Int /\ Known(champion)
  BY <1>1, Doing DEF GateChampion, Version
<1>4. /\ k \in Job /\ k.op = j.op /\ k.at = "candidate" /\ k.prev = j.prev
      /\ k.base = champion /\ k.stale = j.stale
  BY <1>2, <1>3 DEF Job, Places
<1>5. j.op = "promote"
  BY <1>3 DEF Fits, Route, Files
<1>6. Fits(u, k)
  <2>1. Route(k) /\ Holds(k)
    BY <1>3, <1>4, <1>5 DEF Fits, Route, Holds
  <2>2. AliasesKept(k)
    BY <1>3, <1>4, <1>5 DEF Fits, AliasesKept
  <2>3. ReadsAgree(k) /\ OwnLatest(u, k) /\ Gated(k)
    BY <1>4, <1>5 DEF ReadsAgree, OwnLatest, Gated
  <2>4. MoveMade(k)
    BY <1>4 DEF MoveMade
  <2> QED BY <2>1, <2>2, <2>3, <2>4 DEF Fits
<1>7. CASE Done(u)
  <2>1. UNCHANGED <<store, registry, log, meta, engine, begun, moves, unlogged>>
    BY DEF GateChampion
  <2> QED BY <1>1, <1>3, <1>7, <2>1, NothingReported, EndStep
<1>8. CASE job' = [job EXCEPT ![u].base = champion, ![u].at = "candidate"]
  <2>1. job' = [job EXCEPT ![u] = k]
    BY <1>1, <1>2, <1>8, Doing
  <2> QED BY <1>1, <1>3, <1>4, <1>6, <2>1, GoOnStep DEF GateChampion
<1> QED BY <1>7, <1>8 DEF GateChampion

LEMMA GateChallengerStep == ASSUME IInv, NEW u \in Users, GateChallenger(u) PROVE IInv'
<1>1. PICK j : j = job[u]
  OBVIOUS
<1>2. PICK k : k = [j EXCEPT !.version = challenger, !.at = "gate", !.stale = @ \ {"challenger"}]
  OBVIOUS
<1>3. j \in Job /\ Fits(u, j) /\ j.at = "candidate" /\ challenger \in Int /\ Known(challenger)
  BY <1>1, Doing DEF GateChallenger, Known
<1>4. /\ k \in Job /\ k.op = j.op /\ k.at = "gate" /\ k.prev = j.prev /\ k.base = j.base
      /\ k.version = challenger /\ k.stale = j.stale \ {"challenger"}
  BY <1>2, <1>3 DEF Job, Places
<1>5. j.op = "promote"
  BY <1>3 DEF Fits, Route, Files
<1>6. Fits(u, k)
  <2>1. Route(k) /\ Holds(k)
    BY <1>3, <1>4, <1>5 DEF Fits, Route, Holds
  <2>2. AliasesKept(k)
    BY <1>3, <1>4, <1>5 DEF Fits, AliasesKept
  <2>3. ReadsAgree(k) /\ OwnLatest(u, k) /\ Gated(k)
    BY <1>4, <1>5 DEF ReadsAgree, OwnLatest, Gated
  <2>4. MoveMade(k)
    BY <1>4 DEF MoveMade
  <2> QED BY <2>1, <2>2, <2>3, <2>4 DEF Fits
<1>7. CASE Done(u)
  <2>1. UNCHANGED <<store, registry, log, meta, engine, begun, moves, unlogged>>
    BY DEF GateChallenger
  <2> QED BY <1>1, <1>3, <1>7, <2>1, NothingReported, EndStep
<1>8. CASE job' = [job EXCEPT ![u].version = challenger, ![u].at = "gate",
                              ![u].stale = @ \ {"challenger"}]
  <2>1. job' = [job EXCEPT ![u] = k]
    BY <1>1, <1>2, <1>8, Doing
  <2> QED BY <1>1, <1>3, <1>4, <1>6, <2>1, GoOnStep DEF GateChallenger
<1> QED BY <1>7, <1>8 DEF GateChallenger

\* The gate compares the versions it has read; only what it looks up last may have moved.
LEMMA GateStep == ASSUME IInv, NEW u \in Users, Gate(u) PROVE IInv'
<1>1. PICK j : j = job[u]
  OBVIOUS
<1>2. PICK fetched \in BOOLEAN :
        Go(u, IF GatePasses(u, fetched) THEN "champion" ELSE "refused")
  BY DEF Gate
<1>3. PICK at \in {"champion", "refused"} :
        at = IF GatePasses(u, fetched) THEN "champion" ELSE "refused"
  OBVIOUS
<1>4. PICK k : k = [j EXCEPT !.at = at]
  OBVIOUS
<1>5. j \in Job /\ Fits(u, j) /\ j.at = "gate"
  BY <1>1, Doing DEF Gate
<1>6. /\ k \in Job /\ k.op = j.op /\ k.at = at /\ k.prev = j.prev /\ k.base = j.base
      /\ k.version = j.version /\ k.stale = j.stale
  BY <1>4, <1>5 DEF Job, Places
<1>7. job' = [job EXCEPT ![u] = k]
  BY <1>1, <1>2, <1>3, <1>4, Doing DEF Go
<1>8. j.op = "promote"
  BY <1>5 DEF Fits, Route, Files
<1>9. Fits(u, k)
  <2>1. Route(k) /\ Holds(k)
    BY <1>5, <1>6, <1>8 DEF Fits, Route, Holds
  <2>2. AliasesKept(k)
    BY <1>5, <1>6, <1>8 DEF Fits, AliasesKept
  <2>3. ReadsAgree(k) /\ OwnLatest(u, k)
    BY <1>6, <1>8 DEF ReadsAgree, OwnLatest
  <2>4. Gated(k)
    <3> SUFFICES ASSUME at = "champion"
                 PROVE  /\ versions[j.version].precision >= Floor
                        /\ "champion" \notin j.stale =>
                             versions[j.version].recall >= versions[champion].recall - Margin
                        /\ "challenger" \notin j.stale => versions[j.version].sound
      BY <1>6 DEF Gated
    <3>1. GatePasses(u, fetched)
      BY <1>3
    <3>2. /\ versions[j.version].precision >= Floor
          /\ versions[j.version].recall >= versions[j.base].recall - Margin
          /\ versions[challenger].sound
      BY <1>1, <3>1 DEF GatePasses, WithinMargin
    <3>3. /\ "champion" \notin j.stale => j.base = champion
          /\ "challenger" \notin j.stale => j.version = challenger
      BY <1>5 DEF Fits, AliasesKept
    <3> QED BY <3>2, <3>3
  <2>5. MoveMade(k)
    BY <1>6 DEF MoveMade
  <2> QED BY <2>1, <2>2, <2>3, <2>4, <2>5 DEF Fits
<1> QED BY <1>1, <1>5, <1>6, <1>7, <1>9, GoOnStep DEF Gate

LEMMA ReadDemotedStep == ASSUME IInv, NEW u \in Users, ReadDemoted(u) PROVE IInv'
<1>1. PICK j : j = job[u]
  OBVIOUS
<1>2. PICK k : k = [j EXCEPT !.prev = champion, !.at = "champion", !.stale = @ \ {"champion"}]
  OBVIOUS
<1>3. j \in Job /\ Fits(u, j) /\ j.at = "current" /\ champion \in Int /\ champion \in Version
  BY <1>1, Doing DEF ReadDemoted, Version
<1>4. /\ k \in Job /\ k.op = j.op /\ k.at = "champion" /\ k.prev = champion
      /\ k.version = j.version
  BY <1>2, <1>3 DEF Job, Places
<1>5. job' = [job EXCEPT ![u] = k]
  BY <1>1, <1>2, Doing DEF ReadDemoted
<1>6. j.op = "rollback"
  BY <1>3 DEF Fits, Route, Files
<1>7. Fits(u, k)
  <2>1. Route(k) /\ Holds(k)
    BY <1>3, <1>4, <1>6 DEF Fits, Route, Holds
  <2>2. ReadsAgree(k) /\ OwnLatest(u, k) /\ AliasesKept(k) /\ Gated(k)
    BY <1>4, <1>6 DEF ReadsAgree, OwnLatest, AliasesKept, Gated
  <2>3. MoveMade(k)
    BY <1>4 DEF MoveMade
  <2> QED BY <2>1, <2>2, <2>3 DEF Fits
<1> QED BY <1>1, <1>3, <1>4, <1>5, <1>7, GoOnStep DEF ReadDemoted

-----------------------------------------------------------------------------
\* An operation that ends with an entry which is about no move.
LEMMA ReportStep ==
    ASSUME IInv, NEW u \in Users, LogRetrain(u) \/ RetrainFails(u) \/ LogRefused(u)
    PROVE  IInv'
<1>1. PICK j : j = job[u]
  OBVIOUS
<1>2. j \in Job /\ Fits(u, j) /\ 0 \in Version
  BY <1>1, Doing, ZeroVersion DEF IInv
<1>3. /\ ~(j.op \in Audited /\ j.at = "log") /\ Done(u)
      /\ UNCHANGED <<store, registry, meta, engine, begun, moves, unlogged>>
  BY <1>1 DEF LogRetrain, RetrainFails, LogRefused, Audited
<1>4. PICK e : /\ e \in Event /\ e.event \notin Audited /\ e.version \in Version /\ e.from \in Version
               /\ e.event = "retrain_completed" /\ e.sure => e.version = e.from
               /\ log' = log \cup {e}
  <2>1. CASE LogRetrain(u)
    <3>1. PICK e : e = Entry("retrain_completed", j.version, j.own, "versions" \notin j.stale)
      OBVIOUS
    <3>2. log' = log \cup {e}
      BY <1>1, <2>1, <3>1 DEF LogRetrain, append_audit_log
    <3>3. j.op = "retrain" /\ j.at = "log"
      BY <1>1, <2>1 DEF LogRetrain
    <3>4. j.version \in Version /\ j.own \in Version
            /\ ("versions" \notin j.stale => j.version = j.own)
      BY <1>2, <3>3, Doing DEF Fits, Holds, OwnLatest, Known, Version
    <3>5. /\ e \in Event /\ e.event \notin Audited
          /\ e.version = j.version /\ e.from = j.own /\ e.sure = ("versions" \notin j.stale)
      BY <3>1, <3>4 DEF Entry, Event, Events, Audited, Version
    <3> QED BY <3>2, <3>4, <3>5
  <2>2. CASE RetrainFails(u)
    <3>1. PICK e : e = Entry("retrain_failed", 0, 0, TRUE)
      OBVIOUS
    <3>2. log' = log \cup {e}
      BY <2>2, <3>1 DEF RetrainFails, append_audit_log
    <3>3. e \in Event /\ e.event \notin Audited /\ e.version = 0 /\ e.from = 0
      BY <3>1 DEF Entry, Event, Events, Audited
    <3> QED BY <3>2, <3>3, <1>2
  <2>3. CASE LogRefused(u)
    <3>1. PICK e : e = Entry("promotion_gate_failed", j.version, 0, TRUE)
      OBVIOUS
    <3>2. log' = log \cup {e}
      BY <1>1, <2>3, <3>1 DEF LogRefused, append_audit_log
    <3>3. j.version \in Version
      BY <1>1, <1>2, <2>3, Doing DEF LogRefused, Fits, Holds, Known, Version
    <3>4. /\ e \in Event /\ e.event \notin Audited /\ e.event # "retrain_completed"
          /\ e.version = j.version /\ e.from = 0
      BY <3>1, <3>3 DEF Entry, Event, Events, Audited, Version
    <3> QED BY <3>2, <3>3, <3>4, <1>2
  <2> QED BY <2>1, <2>2, <2>3
<1>5. Reported
  BY <1>4 DEF Reported
<1> QED BY <1>1, <1>3, <1>5, EndStep

-----------------------------------------------------------------------------
\* Telling the others of one thing.
LEMMA TouchedOthers ==
    ASSUME IInv, NEW u \in Users, NEW what \in Things, NEW k,
           job' = [Touched(u, what) EXCEPT ![u] = k]
    PROVE  /\ job' = [w \in Users |-> job'[w]] /\ job'[u] = k
           /\ \A w \in Users \ {u} :
                /\ job'[w] = job[w] \/ job'[w] = [job[w] EXCEPT !.stale = @ \cup {what}]
                /\ job[w].op # "idle" => {what} \subseteq job'[w].stale
<1>1. job' = [w \in Users |-> job'[w]] /\ job'[u] = k
  BY DEF Touched
<1>2. ASSUME NEW w \in Users \ {u}
      PROVE  /\ job'[w] = job[w] \/ job'[w] = [job[w] EXCEPT !.stale = @ \cup {what}]
             /\ job[w].op # "idle" => {what} \subseteq job'[w].stale
  <2>1. job'[w] = IF job[w].op = "idle" THEN job[w]
                  ELSE [job[w] EXCEPT !.stale = @ \cup {what}]
    BY DEF Touched
  <2>2. job[w] \in Job
    BY Doing
  <2> QED BY <2>1, <2>2 DEF Job
<1> QED BY <1>1, <1>2

LEMMA SaveSplitStep == ASSUME IInv, NEW u \in Users, SaveSplit(u) PROVE IInv'
<1>1. PICK j : j = job[u]
  OBVIOUS
<1>2. j \in Job /\ Fits(u, j) /\ j.op = "pipeline" /\ j.at \in Files /\ j.base \in Generations
  <2>1. j.op = "pipeline" /\ j \in Job /\ Fits(u, j)
    BY <1>1, Doing DEF SaveSplit
  <2> QED BY <2>1 DEF Fits, Route
<1>3. PICK k : k = IF j.at = "test" THEN Idle ELSE [j EXCEPT !.at = NextFile[j.at]]
  OBVIOUS
<1>4. /\ files' = [files EXCEPT ![j.at] = j.base]
      /\ job' = [Touched(u, "splits") EXCEPT ![u] = k]
  <2>1. Touched(u, "splits")[u] = j
    BY <1>1 DEF Touched
  <2> QED BY <1>1, <1>3, <2>1 DEF SaveSplit, Touched
<1>5. UNCHANGED <<data, versions, champion, challenger, log, meta, engine, begun,
                  moves, unlogged>>
  BY DEF SaveSplit, registry
<1>6. Grown /\ Tells(u, {"splits"}) /\ job' = [w \in Users |-> job'[w]] /\ job'[u] = k
  BY <1>4, <1>5, TouchedOthers DEF Grown, Tells, Things
<1>7. k \in Job /\ Fits(u, k)'
  <2>1. CASE k = Idle
    <3>1. 0 \in Version
      BY ZeroVersion DEF IInv
    <3>2. Route(k) /\ Holds(k)'
      BY <2>1, <3>1, <1>5, IdleJob DEF Route, Holds, Version
    <3>3. ReadsAgree(k)' /\ OwnLatest(u, k)' /\ AliasesKept(k)' /\ Gated(k)'
      BY <2>1, IdleJob DEF ReadsAgree, OwnLatest, AliasesKept, Gated
    <3>4. MoveMade(k)'
      BY <2>1, IdleJob DEF MoveMade, Audited
    <3> QED BY <2>1, <3>2, <3>3, <3>4, IdleJob DEF Fits, Route
  <2>2. CASE j.at # "test" /\ k = [j EXCEPT !.at = NextFile[j.at]]
    <3>1. NextFile[j.at] \in {"val", "test"}
      BY <1>2, <2>2 DEF NextFile, Files
    <3>2. /\ k \in Job /\ k.op = "pipeline" /\ k.at \in {"val", "test"} /\ k.base = j.base
          /\ k.prev = j.prev
      BY <1>2, <2>2, <3>1 DEF Job, Places
    <3>3. j.prev \in Version
      BY <1>2 DEF Fits, Holds
    <3>4. Route(k) /\ Holds(k)'
      BY <1>2, <1>5, <3>2, <3>3 DEF Route, Holds, Files, Version
    <3>5. ReadsAgree(k)' /\ OwnLatest(u, k)' /\ AliasesKept(k)' /\ Gated(k)'
      BY <3>2 DEF ReadsAgree, OwnLatest, AliasesKept, Gated
    <3>6. MoveMade(k)'
      BY <3>2 DEF MoveMade, Audited
    <3> QED BY <3>2, <3>4, <3>5, <3>6 DEF Fits, Route
  <2> QED BY <1>3, <2>1, <2>2
<1>8. Shapes' /\ \A w \in Users : Fits(w, job[w])'
  <2>1. files' \in [Files -> Generations]
    BY <1>2, <1>4, Doing
  <2>2. StoreShapes'
    BY <1>5, <2>1 DEF IInv, Shapes, StoreShapes, Known, Version
  <2>3. job' \in [Users -> Job] /\ \A w \in Users : Fits(w, job[w])'
    BY <1>5, <1>6, <1>7, AllFit DEF Things
  <2> QED BY <2>2, <2>3 DEF Shapes
<1>9. (\A v \in DOMAIN versions' : Lineage(versions'[v])) /\ Labelled' /\ ReportsOwn'
  BY <1>5 DEF IInv, Labelled, ReportsOwn
<1>10. AuditAgrees'
  BY <1>1, <1>2, <1>5, <1>6, AuditKept DEF Things, Audited
<1> QED BY <1>8, <1>9, <1>10 DEF IInv

LEMMA TrainStep == ASSUME IInv, NEW u \in Users, Train(u) PROVE IInv'
<1>1. PICK j : j = job[u]
  OBVIOUS
<1>2. PICK m \in Trainings :
        /\ job' = [Touched(u, "meta") EXCEPT ![u].model = m, ![u].at = "register",
                                             ![u].stale = @ \ {"meta"}]
        /\ IF j.op = "retrain" THEN meta' = u ELSE UNCHANGED meta
  BY <1>1 DEF Train
<1>3. PICK k : k = [j EXCEPT !.model = m, !.at = "register", !.stale = @ \ {"meta"}]
  OBVIOUS
<1>4. j \in Job /\ Fits(u, j) /\ j.at = "read" /\ Len(j.read) = Len(Reads(j.op))
  BY <1>1, Doing DEF Train
<1>5. j.op \in {"retrain", "register"}
  BY <1>4 DEF Fits, Route, Files
<1>6. job' = [Touched(u, "meta") EXCEPT ![u] = k]
  <2>1. Touched(u, "meta")[u] = j
    BY <1>1 DEF Touched
  <2> QED BY <1>2, <1>3, <2>1 DEF Touched
<1>7. UNCHANGED <<data, files, versions, champion, challenger, log, engine, begun, moves, unlogged>>
  BY DEF Train, store, registry
<1>8. Grown /\ Tells(u, {"meta"}) /\ job' = [w \in Users |-> job'[w]] /\ job'[u] = k
  BY <1>6, <1>7, TouchedOthers DEF Grown, Tells, Things
<1>9. /\ k \in Job /\ k.op = j.op /\ k.at = "register" /\ k.model = m /\ k.prev = j.prev
      /\ k.read = j.read /\ k.stale = j.stale \ {"meta"}
  BY <1>3, <1>4 DEF Job, Places
<1>10. Fits(u, k)'
  <2>1. Route(k) /\ Holds(k)'
    BY <1>4, <1>5, <1>7, <1>9 DEF Fits, Route, Holds, Version
  <2>2. ReadsAgree(k)'
    BY <1>4, <1>5, <1>7, <1>9 DEF Fits, ReadsAgree, Mixed
  <2>3. OwnLatest(u, k)' /\ AliasesKept(k)' /\ Gated(k)'
    BY <1>2, <1>5, <1>9 DEF OwnLatest, AliasesKept, Gated
  <2>4. MoveMade(k)'
    BY <1>9 DEF MoveMade
  <2> QED BY <2>1, <2>2, <2>3, <2>4 DEF Fits, Route
<1>11. Shapes' /\ \A w \in Users : Fits(w, job[w])'
  <2>1. meta' \in Users \cup {NaN}
    BY <1>2 DEF IInv, Shapes, StoreShapes
  <2>2. StoreShapes'
    BY <1>7, <2>1 DEF IInv, Shapes, StoreShapes, Known, Version
  <2>3. job' \in [Users -> Job] /\ \A w \in Users : Fits(w, job[w])'
    BY <1>7, <1>8, <1>9, <1>10, AllFit DEF Things
  <2> QED BY <2>2, <2>3 DEF Shapes
<1>12. (\A v \in DOMAIN versions' : Lineage(versions'[v])) /\ Labelled' /\ ReportsOwn'
  BY <1>7 DEF IInv, Labelled, ReportsOwn
<1>13. AuditAgrees'
  BY <1>1, <1>4, <1>7, <1>8, AuditKept DEF Things
<1> QED BY <1>11, <1>12, <1>13 DEF IInv

LEMMA RegisterStep == ASSUME IInv, NEW u \in Users, RegisterVersion(u) PROVE IInv'
<1>1. PICK j : j = job[u]
  OBVIOUS
<1>2. PICK r : r = [recall |-> j.model.recall, precision |-> j.model.precision,
                    sound  |-> j.model.sound,  read |-> j.read,
                    mine   |-> j.op = "register" \/ meta = u,
                    stale  |-> j.stale \cap {"splits", "meta"}]
  OBVIOUS
<1>3. PICK k : k = [j EXCEPT !.own = Len(versions) + 1, !.at = "latest", !.stale = @ \ {"versions"}]
  OBVIOUS
<1>4. /\ versions' = Append(versions, r)
      /\ job' = [Touched(u, "versions") EXCEPT ![u] = k]
  <2>1. Touched(u, "versions")[u] = j
    BY <1>1 DEF Touched
  <2>2. versions' = Append(versions, r)
    BY <1>1, <1>2 DEF RegisterVersion
  <2>3. job' = [Touched(u, "versions") EXCEPT ![u].own = Len(versions) + 1, ![u].at = "latest",
                                              ![u].stale = @ \ {"versions"}]
    BY DEF RegisterVersion
  <2> QED BY <1>3, <2>1, <2>2, <2>3 DEF Touched
<1>5. /\ j \in Job /\ Fits(u, j) /\ j.at = "register" /\ j.model \in Trainings
      /\ Len(j.read) = Len(Reads(j.op))
  BY <1>1, Doing DEF RegisterVersion, Fits, Holds
<1>6. j.op \in {"retrain", "register"}
  BY <1>5 DEF Fits, Route, Files
<1>7. UNCHANGED <<data, files, champion, challenger, log, meta, engine, begun, moves,
                  unlogged>>
  BY DEF RegisterVersion, store
<1>8. r \in Row
  <2>1. j.model \in [recall : Int, precision : Int, sound : BOOLEAN]
    BY <1>5
  <2>2. j.read \in Seq(Generations)
    BY <1>5 DEF Job
  <2> QED BY <1>2, <2>1, <2>2 DEF Row
<1>9. Lineage(r)
  <2>1. Len(r.read) \in {3, 4}
    BY <1>2, <1>5 DEF Reads
  <2>2. "splits" \notin r.stale => \E g \in Generations : \A i \in DOMAIN r.read : r.read[i] = g
    BY <1>2, <1>5, <1>6, Doing DEF Fits, ReadsAgree, Files
  <2>3. "meta" \notin r.stale => r.mine
    BY <1>2, <1>5, <1>6 DEF Fits, OwnLatest
  <2> QED BY <1>2, <1>5, <2>1, <2>2, <2>3 DEF Lineage
<1>10. Grown /\ Tells(u, {"versions"}) /\ job' = [w \in Users |-> job'[w]] /\ job'[u] = k
  BY <1>4, <1>7, <1>8, TouchedOthers DEF Grown, Tells, Things
<1>11. /\ versions' \in Seq(Row) /\ Len(versions') = Len(versions) + 1
       /\ \A v : Known(v) => Known(v)' /\ versions'[v] = versions[v]
       /\ \A v : v \in Version => v \in Version'
       /\ \A v \in DOMAIN versions' : Known(v) \/ versions'[v] = r
  <2>1. versions \in Seq(Row)
    BY Doing
  <2> QED BY <1>4, <1>8, <2>1 DEF Known, Version
<1>12. /\ k \in Job /\ k.op = j.op /\ k.at = "latest" /\ k.prev = j.prev
       /\ k.own = Len(versions')
  <2>1. PICK n \in Int : n = Len(versions) + 1
    BY Doing
  <2>2. k = [j EXCEPT !.own = n, !.at = "latest", !.stale = @ \ {"versions"}]
    BY <1>3, <2>1
  <2>3. k \in Job /\ k.op = j.op /\ k.at = "latest" /\ k.prev = j.prev /\ k.own = n
    BY <1>5, <2>2 DEF Job, Places
  <2> QED BY <1>11, <2>1, <2>3
<1>13. Fits(u, k)'
  <2>1. Known(k.own)'
    BY <1>11, <1>12, Doing DEF Known
  <2>2. Route(k) /\ Holds(k)'
    BY <1>5, <1>6, <1>11, <1>12, <2>1 DEF Fits, Route, Holds
  <2>3. ReadsAgree(k)' /\ OwnLatest(u, k)' /\ AliasesKept(k)' /\ Gated(k)'
    BY <1>6, <1>12 DEF ReadsAgree, OwnLatest, AliasesKept, Gated
  <2>4. MoveMade(k)'
    BY <1>12 DEF MoveMade
  <2> QED BY <2>1, <2>2, <2>3, <2>4 DEF Fits, Route
<1>14. Shapes' /\ \A w \in Users : Fits(w, job[w])'
  <2>1. /\ moves' \subseteq [op : Audited \cup {"register"}, from : Version', to : Version']
        /\ unlogged' \subseteq Audited \X Version'
        /\ \A e \in log' : e.version \in Version' /\ e.from \in Version'
    <3>1. Version \subseteq Version'
      BY <1>11
    <3>2. /\ moves \subseteq [op : Audited \cup {"register"}, from : Version, to : Version]
          /\ unlogged \subseteq Audited \X Version
          /\ \A e \in log : e.version \in Version /\ e.from \in Version
      BY DEF IInv, Shapes, StoreShapes
    <3> QED BY <1>7, <3>1, <3>2
  <2>2. StoreShapes'
    BY <1>7, <1>11, <2>1 DEF IInv, Shapes, StoreShapes
  <2>3. job' \in [Users -> Job] /\ \A w \in Users : Fits(w, job[w])'
    BY <1>7, <1>10, <1>12, <1>13, AllFit DEF Things
  <2> QED BY <2>2, <2>3 DEF Shapes
<1>15. \A v \in DOMAIN versions' : Lineage(versions'[v])
  BY <1>9, <1>11 DEF IInv, Known
<1>16. Labelled' /\ ReportsOwn'
  BY <1>7 DEF IInv, Labelled, ReportsOwn
<1>17. AuditAgrees'
  BY <1>1, <1>5, <1>7, <1>10, AuditKept DEF Things
<1> QED BY <1>14, <1>15, <1>16, <1>17 DEF IInv

\* An alias moves: an engine between its two look-ups is told.
LEMMA EngineTold ==
    ASSUME IInv, NEW alias \in {"champion", "challenger"}, engine' = EngineSees(alias),
           UNCHANGED versions,
           alias = "champion" => challenger' = challenger,
           alias = "challenger" => champion' = champion
    PROVE  engine' \in Engine /\ (engine.label \in Version \cup {LocalLabel})' /\ Labelled'
<1>1. engine \in Engine /\ engine.label \in Version \cup {LocalLabel} /\ Labelled
  BY DEF IInv, Shapes, StoreShapes
<1>2. CASE engine.at = "loading" /\ engine.via = alias
  <2>1. engine' = [engine EXCEPT !.moved = TRUE]
    BY <1>2 DEF EngineSees
  <2>2. /\ engine' \in Engine /\ engine'.label = engine.label /\ engine'.at = "loading"
        /\ engine'.moved /\ engine'.via = alias
    BY <1>1, <1>2, <2>1 DEF Engine
  <2>3. (engine.label \in Version \cup {LocalLabel})'
    BY <1>1, <2>2 DEF Version
  <2> QED BY <2>2, <2>3 DEF Labelled
<1>3. CASE ~(engine.at = "loading" /\ engine.via = alias)
  <2>1. engine' = engine
    BY <1>3 DEF EngineSees
  <2>2. engine.at = "loading" => engine.via \in {"none", "file", "champion", "challenger"}
    BY <1>1 DEF Engine
  <2>3. (engine.label \in Version \cup {LocalLabel})'
    BY <1>1, <2>1 DEF Version
  <2>4. Labelled'
    <3>1. CASE alias = "champion"
      BY <1>1, <1>3, <2>1, <3>1 DEF Labelled
    <3>2. CASE alias = "challenger" /\ engine.via = "champion"
      BY <1>1, <1>3, <2>1, <3>2 DEF Labelled
    <3>3. CASE engine.at # "loading"
      BY <1>1, <2>1, <3>3 DEF Labelled
    <3> QED BY <1>1, <1>3, <2>2, <3>1, <3>2, <3>3 DEF Labelled
  <2> QED BY <1>1, <2>1, <2>3, <2>4
<1> QED BY <1>2, <1>3

LEMMA SetChallengerStep == ASSUME IInv, NEW u \in Users, SetChallenger(u) PROVE IInv'
<1>1. PICK j : j = job[u]
  OBVIOUS
<1>2. PICK at \in {"log", "verify"} : at = IF j.op = "retrain" THEN "log" ELSE "verify"
  OBVIOUS
<1>3. PICK k : k = [j EXCEPT !.at = at]
  OBVIOUS
<1>4. j \in Job /\ Fits(u, j) /\ j.at = "alias" /\ Known(j.version)
  BY <1>1, Doing DEF SetChallenger, Fits, Holds
<1>5. j.op \in {"retrain", "register"}
  BY <1>4 DEF Fits, Route, Files
<1>6. challenger' = j.version /\ job' = [Touched(u, "challenger") EXCEPT ![u] = k]
  <2>1. Touched(u, "challenger")[u] = j
    BY <1>1 DEF Touched
  <2> QED BY <1>1, <1>2, <1>3, <2>1 DEF SetChallenger, Touched
<1>7. /\ UNCHANGED <<data, files, versions, champion, log, meta, artifact, begun, moves, unlogged>>
      /\ engine' = EngineSees("challenger")
  BY DEF SetChallenger, store
<1>8. Grown /\ Tells(u, {"challenger"}) /\ job' = [w \in Users |-> job'[w]] /\ job'[u] = k
  BY <1>6, <1>7, TouchedOthers DEF Grown, Tells, Things
<1>9. /\ k \in Job /\ k.op = j.op /\ k.at = at /\ k.prev = j.prev /\ k.own = j.own
      /\ k.version = j.version /\ k.stale = j.stale
  BY <1>3, <1>4 DEF Job, Places
<1>10. Fits(u, k)'
  <2>1. Known(j.own)
    BY <1>4, <1>5 DEF Fits, Holds
  <2>2. Route(k) /\ Holds(k)'
    BY <1>2, <1>4, <1>5, <1>7, <1>9, <2>1 DEF Fits, Route, Holds, Version, Known
  <2>3. OwnLatest(u, k)'
    BY <1>4, <1>5, <1>9 DEF Fits, OwnLatest
  <2>4. ReadsAgree(k)' /\ AliasesKept(k)' /\ Gated(k)'
    BY <1>5, <1>9 DEF ReadsAgree, AliasesKept, Gated
  <2>5. MoveMade(k)'
    BY <1>5, <1>9 DEF MoveMade, Audited
  <2> QED BY <2>2, <2>3, <2>4, <2>5 DEF Fits, Route
<1>11. engine' \in Engine /\ (engine.label \in Version \cup {LocalLabel})' /\ Labelled'
  BY <1>7, EngineTold
<1>12. Shapes' /\ \A w \in Users : Fits(w, job[w])'
  <2>1. StoreShapes'
    BY <1>4, <1>6, <1>7, <1>11 DEF IInv, Shapes, StoreShapes, Known, Version
  <2>2. job' \in [Users -> Job] /\ \A w \in Users : Fits(w, job[w])'
    BY <1>7, <1>8, <1>9, <1>10, AllFit DEF Things
  <2> QED BY <2>1, <2>2 DEF Shapes
<1>13. (\A v \in DOMAIN versions' : Lineage(versions'[v])) /\ ReportsOwn'
  BY <1>7 DEF IInv, ReportsOwn
<1>14. AuditAgrees'
  BY <1>1, <1>4, <1>7, <1>8, AuditKept DEF Things
<1> QED BY <1>11, <1>12, <1>13, <1>14 DEF IInv

\* The move is made; what the operation holds is what its entry will say.
LEMMA SetChampionStep == ASSUME IInv, NEW u \in Users, SetChampion(u) PROVE IInv'
<1>1. PICK j : j = job[u]
  OBVIOUS
<1>2. PICK k : k = IF j.op \in Audited THEN [j EXCEPT !.at = "log"] ELSE Idle
  OBVIOUS
<1>3. PICK m : m = [op |-> j.op, from |-> champion, to |-> j.version]
  OBVIOUS
<1>4. j \in Job /\ Fits(u, j) /\ j.at = "champion" /\ Known(j.version)
  BY <1>1, Doing DEF SetChampion, Fits, Holds
<1>5. j.op \in {"register", "promote", "rollback"}
  BY <1>4 DEF Fits, Route, Files
<1>6. /\ champion' = j.version /\ moves' = moves \cup {m}
      /\ job' = [Touched(u, "champion") EXCEPT ![u] = k]
  <2>1. Touched(u, "champion")[u] = j
    BY <1>1 DEF Touched
  <2> QED BY <1>1, <1>2, <1>3, <2>1 DEF SetChampion, Touched, Move
<1>7. /\ UNCHANGED <<data, files, versions, challenger, log, meta, artifact, begun, unlogged>>
      /\ engine' = EngineSees("champion")
  BY DEF SetChampion, store
<1>8. Grown /\ Tells(u, {"champion"}) /\ job' = [w \in Users |-> job'[w]] /\ job'[u] = k
  BY <1>6, <1>7, TouchedOthers DEF Grown, Tells, Things
<1>9. ASSUME j.op \in Audited
      PROVE  /\ k \in Job /\ Fits(u, k)'
             /\ \E w \in Users : job'[w].op = m.op /\ job'[w].at = "log" /\ job'[w].version = m.to
  <2>1. /\ k \in Job /\ k.op = j.op /\ k.at = "log" /\ k.prev = j.prev
        /\ k.version = j.version /\ k.stale = j.stale
    BY <1>2, <1>4, <1>9 DEF Job, Places
  <2>2. Route(k) /\ Holds(k)'
    BY <1>4, <1>7, <1>9, <2>1 DEF Fits, Route, Holds, Version, Known, Audited
  <2>3. ReadsAgree(k)' /\ OwnLatest(u, k)' /\ AliasesKept(k)' /\ Gated(k)'
    BY <1>9, <2>1 DEF ReadsAgree, OwnLatest, AliasesKept, Gated, Audited
  <2>4. "champion" \notin j.stale => champion = j.prev
    BY <1>4, <1>9 DEF Fits, AliasesKept, Audited
  <2>5. m \in moves' /\ m.op = k.op /\ m.to = k.version /\ m.from = champion
    BY <1>3, <1>6, <2>1
  <2>6. MoveMade(k)'
    BY <2>1, <2>4, <2>5 DEF MoveMade
  <2>7. Fits(u, k)'
    BY <2>2, <2>3, <2>6 DEF Fits, Route
  <2>8. \E w \in Users : job'[w].op = m.op /\ job'[w].at = "log" /\ job'[w].version = m.to
    BY <1>8, <2>1, <2>5
  <2> QED BY <2>1, <2>7, <2>8
<1>10. ASSUME j.op \notin Audited
       PROVE  k \in Job /\ Fits(u, k)' /\ m.op \notin Audited
  <2>1. k = Idle
    BY <1>2, <1>10
  <2>2. Route(k) /\ Holds(k)'
    BY <1>7, <2>1, IdleJob, ZeroVersion DEF Route, Holds, Version, IInv
  <2>3. ReadsAgree(k)' /\ OwnLatest(u, k)' /\ AliasesKept(k)' /\ Gated(k)'
    BY <2>1, IdleJob DEF ReadsAgree, OwnLatest, AliasesKept, Gated
  <2>4. MoveMade(k)'
    BY <2>1, IdleJob DEF MoveMade, Audited
  <2>5. k \in Job /\ Fits(u, k)' /\ m.op \notin Audited
    BY <1>3, <1>10, <2>1, <2>2, <2>3, <2>4, IdleJob DEF Fits, Route
  <2> QED BY <2>5
<1>11. engine' \in Engine /\ (engine.label \in Version \cup {LocalLabel})' /\ Labelled'
  BY <1>7, EngineTold
<1>12. Shapes' /\ \A w \in Users : Fits(w, job[w])'
  <2>1. moves' \subseteq [op : Audited \cup {"register"}, from : Version, to : Version]
    <3>1. m \in [op : Audited \cup {"register"}, from : Version, to : Version]
      BY <1>3, <1>4, <1>5, Doing DEF Known, Version, Audited
    <3> QED BY <1>6, <3>1 DEF IInv, Shapes, StoreShapes
  <2>2. StoreShapes'
    BY <1>4, <1>6, <1>7, <1>11, <2>1 DEF IInv, Shapes, StoreShapes, Known, Version
  <2>3. job' \in [Users -> Job] /\ \A w \in Users : Fits(w, job[w])'
    BY <1>6, <1>8, <1>9, <1>10, AllFit DEF Things
  <2> QED BY <2>2, <2>3 DEF Shapes
<1>13. (\A v \in DOMAIN versions' : Lineage(versions'[v])) /\ ReportsOwn'
  BY <1>7 DEF IInv, ReportsOwn
<1>14. AuditAgrees'
  <2>1. AuditAgrees
    BY DEF IInv
  <2>2. ASSUME NEW x \in moves, x.op \in Audited
        PROVE  \/ \E e \in log : e.event = x.op /\ e.version = x.to
               \/ \E w \in Users : job'[w].op = x.op /\ job'[w].at = "log" /\ job'[w].version = x.to
               \/ <<x.op, x.to>> \in unlogged
    <3>1. ASSUME NEW w \in Users, job[w].op \in Audited, job[w].at = "log"
          PROVE  job'[w].op = job[w].op /\ job'[w].at = "log" /\ job'[w].version = job[w].version
      <4>1. w \in Users \ {u} /\ job[w] \in Job
        BY <1>1, <1>4, <3>1, Doing
      <4>2. job'[w] = job[w] \/ job'[w] = [job[w] EXCEPT !.stale = @ \cup {"champion"}]
        BY <1>8, <4>1 DEF Tells
      <4> QED BY <3>1, <4>1, <4>2 DEF Job
    <3>2. CASE \E w \in Users : job[w].op = x.op /\ job[w].at = "log" /\ job[w].version = x.to
      BY <2>2, <3>1, <3>2
    <3> QED BY <2>1, <2>2, <3>2 DEF AuditAgrees
  <2>3. ASSUME NEW e \in log, e.event \in Audited
        PROVE  \E x \in moves' : /\ x.op = e.event /\ x.to = e.version
                                 /\ e.sure => x.from = e.from
    BY <1>6, <2>1, <2>3 DEF AuditAgrees
  <2>4. m.op \in Audited =>
          \E w \in Users : job'[w].op = m.op /\ job'[w].at = "log" /\ job'[w].version = m.to
    BY <1>9, <1>10
  <2> QED BY <1>6, <1>7, <2>2, <2>3, <2>4 DEF AuditAgrees
<1> QED BY <1>11, <1>12, <1>13, <1>14 DEF IInv

\* An operation whose move is made ends, written into the log or not.
LEMMA MoveEnds ==
    ASSUME IInv, NEW u \in Users, Done(u), job[u].op \in Audited, job[u].at = "log",
           UNCHANGED <<store, registry, meta, engine, begun, moves>>,
           log \subseteq log', unlogged \subseteq unlogged',
           unlogged' \subseteq unlogged \cup {<<job[u].op, job[u].version>>},
           \/ <<job[u].op, job[u].version>> \in unlogged'
           \/ \E e \in log' : e.event = job[u].op /\ e.version = job[u].version,
           \A e \in log' : e \in log \/
             /\ e \in Event /\ e.event = job[u].op /\ e.version = job[u].version
             /\ e.from = job[u].prev /\ e.sure = ("champion" \notin job[u].stale)
    PROVE  IInv'
<1>1. PICK j : j = job[u]
  OBVIOUS
<1>2. j \in Job /\ Fits(u, j) /\ job' = [job EXCEPT ![u] = Idle]
  BY <1>1, Doing DEF Done
<1>3. UNCHANGED <<data, files, versions, champion, challenger, meta, engine, begun, moves>>
  BY DEF store, registry
<1>4. Grown /\ Tells(u, {}) /\ job' = [w \in Users |-> job'[w]] /\ job'[u] = Idle
  BY <1>2, <1>3, Doing DEF Grown, Tells
<1>5. Fits(u, Idle)'
  <2>1. Fits(u, Idle)
    BY IdleFits
  <2>2. Route(Idle) /\ Holds(Idle)'
    BY <1>3, <2>1 DEF Fits, Holds, Known, Version
  <2>3. ReadsAgree(Idle)' /\ OwnLatest(u, Idle)' /\ AliasesKept(Idle)' /\ Gated(Idle)'
    BY IdleJob DEF ReadsAgree, OwnLatest, AliasesKept, Gated
  <2>4. MoveMade(Idle)'
    BY IdleJob DEF MoveMade, Audited
  <2> QED BY <2>2, <2>3, <2>4 DEF Fits, Route
<1>6. Known(j.version) /\ j.version \in Version /\ j.prev \in Version
  BY <1>1, <1>2, Doing DEF Fits, Holds, Known, Version
<1>7. Shapes' /\ \A w \in Users : Fits(w, job[w])'
  <2>1. log' \subseteq Event /\ \A e \in log' : e.version \in Version' /\ e.from \in Version'
    BY <1>1, <1>3, <1>6 DEF IInv, Shapes, StoreShapes, Version
  <2>2. unlogged' \subseteq Audited \X Version'
    BY <1>1, <1>3, <1>6 DEF IInv, Shapes, StoreShapes, Version
  <2>3. StoreShapes'
    BY <1>3, <2>1, <2>2 DEF IInv, Shapes, StoreShapes, Known, Version
  <2>4. job' \in [Users -> Job] /\ \A w \in Users : Fits(w, job[w])'
    BY <1>3, <1>4, <1>5, IdleJob, AllFit
  <2> QED BY <2>3, <2>4 DEF Shapes
<1>8. (\A v \in DOMAIN versions' : Lineage(versions'[v])) /\ Labelled'
  BY <1>3 DEF IInv, Labelled
<1>9. ReportsOwn'
  BY DEF IInv, ReportsOwn, Audited
<1>10. AuditAgrees'
  <2>1. AuditAgrees
    BY DEF IInv
  <2>2. ASSUME NEW x \in moves, x.op \in Audited
        PROVE  \/ \E e \in log' : e.event = x.op /\ e.version = x.to
               \/ \E w \in Users : job'[w].op = x.op /\ job'[w].at = "log" /\ job'[w].version = x.to
               \/ <<x.op, x.to>> \in unlogged'
    <3>1. CASE \E w \in Users : job[w].op = x.op /\ job[w].at = "log" /\ job[w].version = x.to
      <4>1. PICK w \in Users : job[w].op = x.op /\ job[w].at = "log" /\ job[w].version = x.to
        BY <3>1
      <4>2. CASE w = u
        BY <4>1, <4>2
      <4>3. CASE w # u
        <5>1. job'[w] = job[w]
          BY <1>2, <4>3, Doing
        <5> QED BY <4>1, <5>1
      <4> QED BY <4>2, <4>3
    <3> QED BY <2>1, <2>2, <3>1 DEF AuditAgrees
  <2>3. ASSUME NEW e \in log', e.event \in Audited
        PROVE  \E x \in moves : /\ x.op = e.event /\ x.to = e.version
                                /\ e.sure => x.from = e.from
    <3>1. CASE e \in log
      BY <2>1, <2>3, <3>1 DEF AuditAgrees
    <3>2. CASE e \notin log
      <4>1. /\ e.event = j.op /\ e.version = j.version
            /\ e.from = j.prev /\ e.sure = ("champion" \notin j.stale)
        BY <1>1, <3>2
      <4>2. PICK x \in moves : /\ x.op = j.op /\ x.to = j.version
                               /\ "champion" \notin j.stale => x.from = j.prev
        BY <1>1, <1>2 DEF Fits, MoveMade
      <4> QED BY <4>1, <4>2
    <3> QED BY <3>1, <3>2
  <2> QED BY <1>3, <2>2, <2>3 DEF AuditAgrees
<1> QED BY <1>7, <1>8, <1>9, <1>10 DEF IInv

LEMMA LogMoveStep == ASSUME IInv, NEW u \in Users, LogMove(u) PROVE IInv'
<1>1. PICK j : j = job[u]
  OBVIOUS
<1>2. PICK e : e = Entry(j.op, j.version, j.prev, "champion" \notin j.stale)
  OBVIOUS
<1>3. j \in Job /\ Done(u) /\ j.op \in Audited /\ j.at = "log" /\ log' = log \cup {e}
  BY <1>1, <1>2, Doing DEF LogMove, append_audit_log
<1>4. /\ e \in Event /\ e.event = j.op /\ e.version = j.version /\ e.from = j.prev
      /\ e.sure = ("champion" \notin j.stale)
  <2>1. j.op \in Events /\ j.version \in Int /\ j.prev \in Int
    BY <1>3 DEF Job, Audited, Events
  <2> QED BY <1>2, <2>1 DEF Entry, Event
<1>5. UNCHANGED <<store, registry, meta, engine, begun, moves, unlogged>>
  BY DEF LogMove
<1> QED BY <1>1, <1>3, <1>4, <1>5, MoveEnds

LEMMA DieStep == ASSUME IInv, NEW u \in Users, Die(u) PROVE IInv'
<1>1. Done(u) /\ UNCHANGED <<store, registry, log, meta, engine, begun, moves>>
  BY DEF Die
<1>2. CASE job[u].op \in Audited /\ job[u].at = "log"
  <2>1. unlogged' = unlogged \cup {<<job[u].op, job[u].version>>}
    BY <1>2 DEF Die
  <2> QED BY <1>1, <1>2, <2>1, MoveEnds
<1>3. CASE ~(job[u].op \in Audited /\ job[u].at = "log")
  <2>1. unlogged' = unlogged
    BY <1>3 DEF Die
  <2> QED BY <1>1, <1>3, <2>1, NothingReported, EndStep
<1> QED BY <1>2, <1>3

-----------------------------------------------------------------------------
\* What the engine does concerns nobody else.
LEMMA EngineOnly ==
    ASSUME IInv, UNCHANGED <<store, registry, log, meta, job, begun, moves, unlogged>>,
           engine' \in Engine, engine'.label \in Version \cup {LocalLabel}, Labelled'
    PROVE  IInv'
<1>1. UNCHANGED <<data, files, versions, champion, challenger, log, meta, job, begun,
                  moves, unlogged>>
  BY DEF store, registry
<1>2. Shapes'
  BY <1>1 DEF IInv, Shapes, StoreShapes, Known, Version
<1>3. ASSUME NEW u \in Users
      PROVE  Fits(u, job[u])'
  <2>1. Fits(u, job[u])
    BY DEF IInv
  <2>2. Route(job[u])' /\ Holds(job[u])' /\ ReadsAgree(job[u])' /\ OwnLatest(u, job[u])'
    BY <1>1, <2>1 DEF Fits, Route, Holds, ReadsAgree, OwnLatest, Known, Version, Mixed
  <2>3. AliasesKept(job[u])' /\ Gated(job[u])' /\ MoveMade(job[u])'
    BY <1>1, <2>1 DEF Fits, AliasesKept, Gated, MoveMade
  <2> QED BY <2>2, <2>3 DEF Fits
<1>4. (\A v \in DOMAIN versions' : Lineage(versions'[v])) /\ ReportsOwn' /\ AuditAgrees'
  BY <1>1 DEF IInv, ReportsOwn, AuditAgrees
<1> QED BY <1>2, <1>3, <1>4 DEF IInv

LEMMA EngineStep ==
    ASSUME IInv, artifact \in Held, LoadLocal \/ FindChampion \/ LoadModel \/ RestartApi
    PROVE  IInv'
<1>1. /\ engine \in Engine /\ engine.label \in Version \cup {LocalLabel} /\ Labelled
      /\ champion \in Version /\ champion \in Int /\ challenger \in Int /\ 0 \in Version
  BY ZeroVersion DEF IInv, Shapes, StoreShapes, Known, Version
<1>2. Off \in Engine /\ Off.label = 0 /\ Off.at = "off" /\ Off.moved = FALSE
  BY DEF Off, Engine
<1>3. UNCHANGED <<store, registry, log, meta, artifact, job, begun, moves, unlogged>>
  BY DEF LoadLocal, FindChampion, LoadModel, RestartApi
<1>4. CASE LoadLocal
  <2>1. engine' = [at |-> "ready", label |-> LocalLabel, via |-> "file", model |-> artifact,
                   moved |-> FALSE]
    BY <1>4 DEF LoadLocal, Off
  <2>2. /\ engine' \in Engine /\ engine'.label = LocalLabel /\ engine'.at = "ready"
        /\ engine'.via = "file"
    BY <2>1 DEF Engine, LocalLabel
  <2>3. Labelled'
    BY <2>2 DEF Labelled
  <2> QED BY <1>1, <1>3, <2>2, <2>3, EngineOnly
<1>5. CASE FindChampion
  <2>1. PICK a \in Aliases(champion) :
          engine' = [Off EXCEPT !.at = "loading", !.label = champion, !.via = a]
    BY <1>5 DEF FindChampion
  <2>2. a \in {"champion", "challenger"} /\ champion = IF a = "champion" THEN champion ELSE challenger
    BY DEF Aliases
  <2>3. engine' \in Engine /\ engine'.label = champion /\ engine'.at = "loading" /\ engine'.via = a
    BY <1>1, <1>2, <2>1, <2>2 DEF Engine
  <2>4. champion' = champion /\ challenger' = challenger
    BY <1>3 DEF registry
  <2>5. Labelled'
    BY <2>2, <2>3, <2>4 DEF Labelled
  <2> QED BY <1>1, <1>3, <2>3, <2>5, EngineOnly
<1>6. CASE LoadModel
  <2>1. PICK m \in Int : m = IF engine.via = "champion" THEN champion ELSE challenger
    BY <1>1
  <2>2. engine' = [engine EXCEPT !.at = "ready", !.model = m] /\ engine.at = "loading"
    BY <1>6, <2>1 DEF LoadModel
  <2>3. /\ engine' \in Engine /\ engine'.label = engine.label /\ engine'.at = "ready"
        /\ engine'.model = m /\ engine'.moved = engine.moved
    BY <1>1, <2>2 DEF Engine
  <2>4. ~engine.moved => engine.label = m
    BY <1>1, <2>1, <2>2 DEF Labelled
  <2>5. Labelled'
    BY <2>3, <2>4 DEF Labelled
  <2> QED BY <1>1, <1>3, <2>3, <2>5, EngineOnly
<1>7. CASE RestartApi
  <2>1. engine' = Off
    BY <1>7 DEF RestartApi
  <2>2. Labelled'
    BY <1>2, <2>1 DEF Labelled
  <2> QED BY <1>1, <1>2, <1>3, <2>1, <2>2, EngineOnly
<1> QED BY <1>4, <1>5, <1>6, <1>7

-----------------------------------------------------------------------------
LEMMA InitInv == Init => IInv
<1> SUFFICES ASSUME Init PROVE IInv
  OBVIOUS
<1>1. PICK m \in Trainings, n \in Trainings :
        \/ versions = <<Registered(m, <<1, 1, 1>>)>>
        \/ versions = <<Registered(m, <<1, 1, 1>>), Registered(n, <<1, 1, 1, 1>>)>>
  BY DEF Init
<1>2. 1 \in Generations
  OBVIOUS
<1>3. /\ <<1, 1, 1>> \in Seq(Generations) /\ Len(<<1, 1, 1>>) = 3
      /\ \A i \in DOMAIN <<1, 1, 1>> : <<1, 1, 1>>[i] = 1
      /\ <<1, 1, 1, 1>> \in Seq(Generations) /\ Len(<<1, 1, 1, 1>>) = 4
      /\ \A i \in DOMAIN <<1, 1, 1, 1>> : <<1, 1, 1, 1>>[i] = 1
  BY <1>2
<1>4. ASSUME NEW t \in Trainings, NEW read \in Seq(Generations), Len(read) \in {3, 4},
             \A i \in DOMAIN read : read[i] = 1
      PROVE  Registered(t, read) \in Row /\ Lineage(Registered(t, read))
  <2>1. PICK r : r = Registered(t, read)
    OBVIOUS
  <2>2. t \in [recall : Int, precision : Int, sound : BOOLEAN]
    OBVIOUS
  <2>3. /\ r \in Row /\ r.recall = t.recall /\ r.precision = t.precision /\ r.sound = t.sound
        /\ r.read = read /\ r.mine
    BY <2>1, <2>2 DEF Registered, Row
  <2>4. Lineage(r)
    BY <1>2, <1>4, <2>3 DEF Lineage
  <2> QED BY <2>1, <2>3, <2>4
<1>5. PICK a, b : a = Registered(m, <<1, 1, 1>>) /\ b = Registered(n, <<1, 1, 1, 1>>)
  OBVIOUS
<1>6. a \in Row /\ Lineage(a) /\ b \in Row /\ Lineage(b)
  <2>1. a \in Row /\ Lineage(a)
    BY <1>3, <1>4, <1>5
  <2>2. b \in Row /\ Lineage(b)
    BY <1>3, <1>4, <1>5
  <2> QED BY <2>1, <2>2
<1>7. /\ versions \in Seq(Row) /\ Len(versions) \in {1, 2}
      /\ \A v \in DOMAIN versions : Lineage(versions[v])
  <2>1. CASE versions = <<a>>
    <3>1. versions \in Seq(Row) /\ Len(versions) = 1 /\ versions[1] = a /\ DOMAIN versions = {1}
      BY <1>6, <2>1
    <3> QED BY <1>6, <3>1
  <2>2. CASE versions = <<a, b>>
    <3>1. /\ versions \in Seq(Row) /\ Len(versions) = 2 /\ DOMAIN versions = {1, 2}
          /\ versions[1] = a /\ versions[2] = b
      BY <1>6, <2>2
    <3> QED BY <1>6, <3>1
  <2>3. versions = <<a>> \/ versions = <<a, b>>
    BY <1>1, <1>5
  <2> QED BY <2>1, <2>2, <2>3
<1>8. Shapes
  <2>1. Known(champion) /\ Known(challenger) /\ 0 \in Version
    BY <1>7 DEF Init, Known, Version
  <2>2. engine \in Engine /\ engine.label \in Version
    BY <2>1 DEF Init, Off, Engine
  <2>3. job \in [Users -> Job]
    BY IdleJob DEF Init
  <2> QED BY <1>2, <1>7, <2>1, <2>2, <2>3 DEF Init, Shapes, StoreShapes
<1>9. ASSUME NEW u \in Users
      PROVE  Fits(u, job[u])
  <2>1. job[u] = Idle
    BY DEF Init
  <2>2. Route(Idle) /\ Holds(Idle)
    BY IdleJob, <1>8, ZeroVersion DEF Route, Holds
  <2>3. ReadsAgree(Idle) /\ OwnLatest(u, Idle) /\ AliasesKept(Idle) /\ Gated(Idle)
    BY IdleJob DEF ReadsAgree, OwnLatest, AliasesKept, Gated
  <2>4. MoveMade(Idle)
    BY IdleJob DEF MoveMade, Audited
  <2> QED BY <2>1, <2>2, <2>3, <2>4 DEF Fits
<1>10. Labelled /\ ReportsOwn /\ AuditAgrees
  BY DEF Init, Off, Labelled, ReportsOwn, AuditAgrees
<1> QED BY <1>7, <1>8, <1>9, <1>10 DEF IInv

LEMMA Inductive == IInv /\ artifact \in Held /\ [Next]_vars => IInv'
<1> SUFFICES ASSUME IInv, artifact \in Held, [Next]_vars PROVE IInv'
  OBVIOUS
<1>1. CASE UNCHANGED vars
  <2>1. UNCHANGED <<store, registry, log, meta, job, begun, moves, unlogged, engine>>
    BY <1>1 DEF vars
  <2>2. engine' \in Engine /\ engine'.label \in Version \cup {LocalLabel} /\ Labelled'
    BY <2>1 DEF IInv, Shapes, StoreShapes, Labelled, registry
  <2> QED BY <2>1, <2>2, EngineOnly
<1>2. CASE Next
  <2>1. CASE LoadLocal \/ FindChampion \/ LoadModel \/ RestartApi
    BY <2>1, EngineStep
  <2>2. CASE \E u \in Users :
               Prepare(u) \/ StartRetrain(u) \/ StartRegister(u) \/ StartPromote(u) \/ StartRollback(u)
    BY <2>2, StartStep
  <2>3. CASE \E u \in Users :
               SaveSplit(u) \/ ReadSplit(u) \/ Train(u) \/ RegisterVersion(u) \/ FindLatest(u)
                 \/ SetChallenger(u) \/ VerifyRegistered(u)
    BY <2>3, SaveSplitStep, ReadSplitStep, TrainStep, RegisterStep, FindLatestStep,
       SetChallengerStep, VerifyStep
  <2>4. CASE \E u \in Users :
               GateChampion(u) \/ GateChallenger(u) \/ Gate(u) \/ ReadDemoted(u) \/ SetChampion(u)
    BY <2>4, GateChampionStep, GateChallengerStep, GateStep, ReadDemotedStep, SetChampionStep
  <2>5. CASE \E u \in Users :
               LogRetrain(u) \/ RetrainFails(u) \/ LogRefused(u) \/ LogMove(u) \/ Die(u)
    BY <2>5, ReportStep, LogMoveStep, DieStep
  <2> QED BY <1>2, <2>1, <2>2, <2>3, <2>4, <2>5 DEF Next
<1> QED BY <1>1, <1>2

-----------------------------------------------------------------------------
(* The local file *)

\* What the others are doing does not change, but for what they are told.
OthersGoOn(u) == \A w \in Users \ {u} :
    job'[w].op = job[w].op /\ job'[w].at = job[w].at /\ job'[w].model = job[w].model

LEMMA TouchedGoOn ==
    ASSUME IInv, NEW u \in Users, NEW what \in Things, NEW k,
           job' = [job EXCEPT ![u] = k] \/ job' = [Touched(u, what) EXCEPT ![u] = k]
    PROVE  OthersGoOn(u) /\ job'[u] = k
<1>1. job \in [Users -> Job]
  BY Doing
<1>2. CASE job' = [job EXCEPT ![u] = k]
  BY <1>1, <1>2 DEF OthersGoOn
<1>3. CASE job' = [Touched(u, what) EXCEPT ![u] = k]
  <2>1. ASSUME NEW w \in Users \ {u}
        PROVE  job'[w].op = job[w].op /\ job'[w].at = job[w].at /\ job'[w].model = job[w].model
    <3>1. job'[w] = job[w] \/ job'[w] = [job[w] EXCEPT !.stale = @ \cup {what}]
      BY <1>3, TouchedOthers
    <3> QED BY <1>1, <3>1 DEF Job
  <2>2. job'[u] = k
    BY <1>3, TouchedOthers
  <2> QED BY <2>1, <2>2 DEF OthersGoOn
<1> QED BY <1>2, <1>3

\* Versions are only ever added, so what was registered from a file stays.
LEMMA FiledStays ==
    ASSUME IInv, Grown, NEW f, Filed(f)
    PROVE  Filed(f)'
BY StillKnown DEF IInv, Filed, RegisteredAs

\* A step of one who is not about to register, that leaves the file alone.
LEMMA FileUntouched ==
    ASSUME IInv, FileInv, NEW u \in Users, OthersGoOn(u),
           ~(job[u].op = "register" /\ job[u].at = "register"),
           UNCHANGED <<versions, artifact>>,
           engine'.via = engine.via, engine'.model = engine.model
    PROVE  FileInv'
<1>1. Grown
  BY DEF Grown
<1>2. artifact' \in Held /\ Filed(artifact)'
  BY DEF FileInv, Filed, Known
<1>3. ASSUME NEW w \in Users, artifact'.writer = w
      PROVE  job'[w].op = "register" /\ job'[w].at = "register" /\ job'[w].model = artifact'.model
  BY <1>3 DEF FileInv, OthersGoOn
<1>4. engine'.via = "file" => Filed(engine.model)'
  BY <1>1, FiledStays DEF FileInv
<1> QED BY <1>2, <1>3, <1>4 DEF FileInv, Filed

LEMMA TrainFiles == ASSUME IInv, FileInv, NEW u \in Users, Train(u) PROVE FileInv'
<1>1. PICK j : j = job[u]
  OBVIOUS
<1>2. PICK m \in Trainings :
        /\ job' = [Touched(u, "meta") EXCEPT
                     ![u] = [j EXCEPT !.model = m, !.at = "register", !.stale = @ \ {"meta"}]]
        /\ IF j.op = "retrain" THEN UNCHANGED artifact ELSE artifact' = File(m, u, 0)
  <2>1. Touched(u, "meta")[u] = j
    BY <1>1 DEF Touched
  <2> QED BY <1>1, <2>1 DEF Train, Touched
<1>3. j \in Job /\ Fits(u, j) /\ j.at = "read" /\ j.op \in {"retrain", "register"}
  BY <1>1, Doing DEF Train, Fits, Route, Files
<1>4. PICK k : k = [j EXCEPT !.model = m, !.at = "register", !.stale = @ \ {"meta"}]
  OBVIOUS
<1>5. OthersGoOn(u) /\ job'[u] = k
  BY <1>2, <1>4, TouchedGoOn DEF Things
<1>6. UNCHANGED <<versions, engine>>
  BY DEF Train, registry
<1>7. CASE j.op = "retrain"
  BY <1>1, <1>2, <1>3, <1>5, <1>6, <1>7, FileUntouched
<1>8. CASE j.op = "register"
  <2>1. artifact' = File(m, u, 0)
    BY <1>2, <1>8
  <2>2. /\ artifact' \in Held /\ artifact'.version = 0 /\ artifact'.writer = u
        /\ artifact'.model = m
    BY <2>1 DEF File, Held
  <2>3. k.op = "register" /\ k.at = "register" /\ k.model = m
    BY <1>4, <1>3, <1>8 DEF Job
  <2>4. engine.via = "file" => Filed(engine.model)'
    BY <1>6, FiledStays DEF FileInv, Grown
  <2> QED BY <1>5, <1>6, <2>2, <2>3, <2>4 DEF FileInv, Filed
<1> QED BY <1>3, <1>7, <1>8

LEMMA RegisterFiles == ASSUME IInv, FileInv, NEW u \in Users, RegisterVersion(u) PROVE FileInv'
<1>1. PICK j : j = job[u]
  OBVIOUS
<1>2. PICK r : r = [recall |-> j.model.recall, precision |-> j.model.precision,
                    sound  |-> j.model.sound,  read |-> j.read,
                    mine   |-> j.op = "register" \/ meta = u,
                    stale  |-> j.stale \cap {"splits", "meta"}]
  OBVIOUS
<1>3. PICK k : k = [j EXCEPT !.own = Len(versions) + 1, !.at = "latest", !.stale = @ \ {"versions"}]
  OBVIOUS
<1>4. /\ versions' = Append(versions, r)
      /\ job' = [Touched(u, "versions") EXCEPT ![u] = k]
  <2>1. Touched(u, "versions")[u] = j
    BY <1>1 DEF Touched
  <2>2. versions' = Append(versions, r)
    BY <1>1, <1>2 DEF RegisterVersion
  <2>3. job' = [Touched(u, "versions") EXCEPT ![u].own = Len(versions) + 1, ![u].at = "latest",
                                              ![u].stale = @ \ {"versions"}]
    BY DEF RegisterVersion
  <2> QED BY <1>3, <2>1, <2>2, <2>3 DEF Touched
<1>5. /\ j \in Job /\ j.at = "register" /\ j.model \in Trainings
      /\ Len(j.read) = Len(Reads(j.op)) /\ versions \in Seq(Row)
  BY <1>1, Doing DEF RegisterVersion, Fits, Holds
<1>6. OthersGoOn(u) /\ UNCHANGED engine
  BY <1>4, TouchedGoOn DEF Things, RegisterVersion
<1>7. r \in Row
  <2>1. j.model \in [recall : Int, precision : Int, sound : BOOLEAN]
    BY <1>5
  <2>2. j.read \in Seq(Generations)
    BY <1>5 DEF Job
  <2> QED BY <1>2, <2>1, <2>2 DEF Row
<1>8. Grown
  BY <1>4, <1>7 DEF Grown
<1>9. engine'.via = "file" => Filed(engine.model)'
  BY <1>6, <1>8, FiledStays DEF FileInv
<1>10. CASE artifact.writer = u
  <2>1. j.op = "register" /\ j.model = artifact.model /\ artifact \in Held
    BY <1>1, <1>10 DEF FileInv
  <2>2. PICK n \in Int : n = Len(versions) + 1
    BY <1>5
  <2>3. artifact' = File(artifact.model, NaN, n)
    BY <1>10, <2>2 DEF RegisterVersion
  <2>4. /\ artifact' \in Held /\ artifact'.writer = NaN /\ artifact'.version = n
        /\ artifact'.model = j.model
    BY <2>1, <2>3 DEF File, Held
  <2>5. Known(n)' /\ versions'[n] = r
    BY <1>4, <1>5, <1>7, <2>2 DEF Known
  <2>6. RegisteredAs(r, j.model)
    BY <1>2, <1>5, <2>1 DEF RegisteredAs
  <2>7. Filed(artifact)'
    BY <2>4, <2>5, <2>6 DEF Filed, RegisteredAs
  <2> QED BY <1>6, <1>9, <2>4, <2>7 DEF FileInv, Filed
<1>11. CASE artifact.writer # u
  <2>1. artifact' = artifact
    BY <1>11 DEF RegisterVersion
  <2>2. Filed(artifact)'
    BY <1>8, <2>1, FiledStays DEF FileInv, Filed
  <2>3. ASSUME NEW w \in Users, artifact'.writer = w
        PROVE  job'[w].op = "register" /\ job'[w].at = "register" /\ job'[w].model = artifact'.model
    BY <1>6, <1>11, <2>1, <2>3 DEF FileInv, OthersGoOn
  <2> QED BY <1>6, <1>9, <2>1, <2>2, <2>3 DEF FileInv, Filed
<1> QED BY <1>10, <1>11

LEMMA DieFiles == ASSUME IInv, FileInv, NEW u \in Users, Die(u) PROVE FileInv'
<1>1. OthersGoOn(u)
  BY TouchedGoOn DEF Die, Done, Things
<1>2. UNCHANGED <<versions, engine>>
  BY DEF Die, registry
<1>3. engine'.via = "file" => Filed(engine.model)'
  BY <1>2, FiledStays DEF FileInv, Grown
<1>4. CASE artifact.writer = u
  <2>1. artifact' = File(artifact.model, NaN, 0)
    BY <1>4 DEF Die
  <2>2. artifact' \in Held /\ artifact'.writer = NaN /\ artifact'.version = 0
    BY <2>1 DEF File, Held, FileInv
  <2> QED BY <1>2, <1>3, <2>2 DEF FileInv, Filed
<1>5. CASE artifact.writer # u
  <2>1. artifact' = artifact
    BY <1>5 DEF Die
  <2>2. Filed(artifact)'
    BY <1>2, <2>1 DEF FileInv, Filed, Known
  <2>3. ASSUME NEW w \in Users, artifact'.writer = w
        PROVE  job'[w].op = "register" /\ job'[w].at = "register" /\ job'[w].model = artifact'.model
    BY <1>1, <1>5, <2>1, <2>3 DEF FileInv, OthersGoOn
  <2> QED BY <1>2, <1>3, <2>1, <2>2, <2>3 DEF FileInv, Filed
<1> QED BY <1>4, <1>5

LEMMA EngineFiles ==
    ASSUME IInv, FileInv, LoadLocal \/ FindChampion \/ LoadModel \/ RestartApi
    PROVE  FileInv'
<1>1. UNCHANGED <<versions, artifact, job>>
  BY DEF LoadLocal, FindChampion, LoadModel, RestartApi, registry
<1>2. engine'.via = "file" => Filed(engine'.model)
  <2>1. Off.via = "none" /\ Off \in Engine /\ engine \in Engine /\ Labelled
    BY DEF Off, Engine, IInv, Shapes, StoreShapes
  <2>2. CASE LoadLocal
    <3>1. engine'.model = artifact
      BY <2>2 DEF LoadLocal, Off
    <3> QED BY <3>1 DEF FileInv
  <2>3. CASE FindChampion
    <3>1. engine'.via \in {"champion", "challenger"}
      BY <2>3 DEF FindChampion, Aliases, Off
    <3> QED BY <3>1
  <2>4. CASE LoadModel
    <3>1. engine'.via = engine.via /\ engine.at = "loading"
      BY <2>1, <2>4 DEF LoadModel, Engine
    <3> QED BY <2>1, <3>1 DEF Labelled
  <2>5. CASE RestartApi
    BY <2>1, <2>5 DEF RestartApi
  <2> QED BY <2>2, <2>3, <2>4, <2>5
<1>3. engine'.via = "file" => Filed(engine.model)'
  BY <1>1, <1>2 DEF Filed, Known
<1> QED BY <1>1, <1>3 DEF FileInv, Filed, Known

\* All others leave the file alone.
LEMMA OtherFiles ==
    ASSUME IInv, FileInv, NEW u \in Users,
           \/ Prepare(u) \/ SaveSplit(u)
           \/ StartRetrain(u) \/ StartRegister(u) \/ ReadSplit(u) \/ FindLatest(u)
           \/ SetChallenger(u) \/ LogRetrain(u) \/ RetrainFails(u) \/ VerifyRegistered(u)
           \/ StartPromote(u) \/ GateChampion(u) \/ GateChallenger(u) \/ Gate(u)
           \/ LogRefused(u) \/ StartRollback(u) \/ ReadDemoted(u)
           \/ SetChampion(u) \/ LogMove(u)
    PROVE  FileInv'
<1>1. UNCHANGED <<versions, artifact>>
  BY DEF Prepare, SaveSplit, StartRetrain, StartRegister, ReadSplit, FindLatest, SetChallenger,
         LogRetrain, RetrainFails, VerifyRegistered, StartPromote, GateChampion, GateChallenger,
         Gate, LogRefused, StartRollback, ReadDemoted, SetChampion, LogMove, registry
<1>2. ~(job[u].op = "register" /\ job[u].at = "register")
  BY DEF Prepare, SaveSplit, StartRetrain, StartRegister, Begin, ReadSplit, FindLatest,
         SetChallenger, LogRetrain, RetrainFails, VerifyRegistered, StartPromote, GateChampion,
         GateChallenger, Gate, LogRefused, StartRollback, ReadDemoted, SetChampion, LogMove,
         Audited
<1>3. engine'.via = engine.via /\ engine'.model = engine.model
  <2>1. engine \in Engine
    BY DEF IInv, Shapes, StoreShapes
  <2>2. CASE SetChallenger(u) \/ SetChampion(u)
    <3>1. engine' = engine \/ engine' = [engine EXCEPT !.moved = TRUE]
      BY <2>2 DEF SetChallenger, SetChampion, EngineSees
    <3> QED BY <2>1, <3>1 DEF Engine
  <2>3. CASE ~(SetChallenger(u) \/ SetChampion(u))
    BY <2>3 DEF Prepare, SaveSplit, StartRetrain, StartRegister, ReadSplit, FindLatest,
         LogRetrain, RetrainFails, VerifyRegistered, StartPromote, GateChampion, GateChallenger,
         Gate, LogRefused, StartRollback, ReadDemoted, LogMove
  <2> QED BY <2>2, <2>3
<1>4. OthersGoOn(u)
  <2>1. job \in [Users -> Job]
    BY Doing
  <2>2. CASE SaveSplit(u) \/ SetChallenger(u) \/ SetChampion(u)
    <3>1. PICK what \in Things :
            \A w \in Users \ {u} : job'[w] = Touched(u, what)[w]
      BY <2>2 DEF SaveSplit, SetChallenger, SetChampion, Things, Touched
    <3>2. ASSUME NEW w \in Users \ {u}
          PROVE  /\ job'[w].op = job[w].op /\ job'[w].at = job[w].at
                 /\ job'[w].model = job[w].model
      <4>1. job'[w] = job[w] \/ job'[w] = [job[w] EXCEPT !.stale = @ \cup {what}]
        BY <3>1 DEF Touched
      <4> QED BY <2>1, <4>1 DEF Job
    <3> QED BY <3>2 DEF OthersGoOn
  <2>3. CASE ~(SaveSplit(u) \/ SetChallenger(u) \/ SetChampion(u))
    <3>1. \A w \in Users \ {u} : job'[w] = job[w]
      BY <2>1, <2>3 DEF Prepare, StartRetrain, StartRegister, Begin, ReadSplit, FindLatest,
         LogRetrain, RetrainFails, VerifyRegistered, StartPromote, GateChampion, GateChallenger,
         Gate, LogRefused, StartRollback, ReadDemoted, LogMove, Go, Done
    <3> QED BY <3>1 DEF OthersGoOn
  <2> QED BY <2>2, <2>3
<1> QED BY <1>1, <1>2, <1>3, <1>4, FileUntouched

LEMMA FileInitial == Init => FileInv
<1> SUFFICES ASSUME Init PROVE FileInv
  OBVIOUS
<1>1. IInv /\ engine.via = "none" /\ \A u \in Users : artifact.writer # u
  BY InitInv DEF Init, Off, File, NoFile
<1>2. PICK m \in Trainings :
        \/ versions = <<Registered(m, <<1, 1, 1>>)>> /\ artifact = File(m, NaN, 1)
        \/ artifact = NoFile
  BY DEF Init
<1>3. CASE artifact = NoFile
  BY <1>1, <1>3 DEF FileInv, Filed, NoFile, File, Held
<1>4. CASE versions = <<Registered(m, <<1, 1, 1>>)>> /\ artifact = File(m, NaN, 1)
  <2>1. artifact \in Held /\ artifact.version = 1 /\ artifact.model = m
    BY <1>4 DEF File, Held
  <2>2. Known(1) /\ versions[1] = Registered(m, <<1, 1, 1>>)
    BY <1>4 DEF Known
  <2>3. RegisteredAs(Registered(m, <<1, 1, 1>>), m)
    BY DEF RegisteredAs, Registered, Reads
  <2> QED BY <1>1, <2>1, <2>2, <2>3 DEF FileInv, Filed
<1> QED BY <1>2, <1>3, <1>4

LEMMA FileInductive == IInv /\ FileInv /\ [Next]_vars => FileInv'
<1> SUFFICES ASSUME IInv, FileInv, [Next]_vars PROVE FileInv'
  OBVIOUS
<1>1. CASE UNCHANGED vars
  BY <1>1 DEF vars, registry, FileInv, Filed, Known
<1>2. CASE Next
  <2>1. CASE LoadLocal \/ FindChampion \/ LoadModel \/ RestartApi
    BY <2>1, EngineFiles
  <2>2. CASE \E u \in Users : Train(u) \/ RegisterVersion(u) \/ Die(u)
    BY <2>2, TrainFiles, RegisterFiles, DieFiles
  <2> QED BY <1>2, <2>1, <2>2, OtherFiles DEF Next
<1> QED BY <1>1, <1>2

LEMMA Invariant == Spec => [](IInv /\ FileInv)
<1>1. FileInv => artifact \in Held
  BY DEF FileInv
<1> QED BY <1>1, InitInv, Inductive, FileInitial, FileInductive, PTL DEF Spec

-----------------------------------------------------------------------------
\* What register.py, promote.py and retrain.py keep in the registry, the files and the log
\* is what they expect there: an alias and an entry name versions that exist.
THEOREM TypesKept == Spec => []TypeOK
BY Invariant, Typed, PTL

\* append_audit_log after set_registered_model_alias (promote.py): no entry without its
\* move, and no move without its entry, or one that is about to be written or was lost.
THEOREM AuditTrailAgrees == Spec => []AuditAgrees
<1>1. IInv => AuditAgrees
  BY DEF IInv
<1> QED BY <1>1, Invariant, PTL

\* train_challenger (retrain.py) reports the version it registered, with its own metadata,
\* unless another training came in the very interval.
THEOREM RetrainingsApart == Spec => []RetrainingsKeptApart
BY Invariant, KeptApart, PTL

\* For every dataset: a version was trained on the data of the recorded hashes, and
\* validated on other machines and other rows, unless the files were rewritten meanwhile.
THEOREM TrainedOnSeparateData == Spec => []TrainingDataSound
BY Invariant, DataSound, PTL

\* ModelEngine (engine.py): through the registry it serves the version it reports, unless
\* the alias moved between its two look-ups; from the local file, whose label says nothing
\* of what it holds, it serves what a registration trained, and the version registered from
\* that, if any, is of that very training.
THEOREM ServedModelIsKnown == Spec => []ServedModelKnown
<1>1. IInv /\ FileInv => ServedModelKnown
  BY DEF IInv, Labelled, FileInv, Filed, ServedModelKnown
<1> QED BY <1>1, Invariant, PTL

\* Only the last step of a promotion takes it past its gate.
LEMMA PromotedBySetChampion ==
    ASSUME IInv, [Next]_vars, NEW u \in Users,
           job[u].op = "promote", job[u].at = "champion", job'[u].at = "log"
    PROVE  SetChampion(u)
<1>1. job[u] \in Job /\ job \in [Users -> Job]
  BY Doing
<1>2. ~UNCHANGED job
  OBVIOUS
<1>3. Next
  BY <1>2 DEF vars
<1>4. PICK w \in Users :
         \/ Prepare(w) \/ SaveSplit(w)
         \/ StartRetrain(w) \/ StartRegister(w) \/ ReadSplit(w) \/ Train(w)
         \/ RegisterVersion(w) \/ FindLatest(w) \/ SetChallenger(w) \/ LogRetrain(w)
         \/ RetrainFails(w) \/ VerifyRegistered(w)
         \/ StartPromote(w) \/ GateChampion(w) \/ GateChallenger(w) \/ Gate(w)
         \/ LogRefused(w) \/ StartRollback(w) \/ ReadDemoted(w)
         \/ SetChampion(w) \/ LogMove(w) \/ Die(w)
  BY <1>2, <1>3 DEF Next, LoadLocal, FindChampion, LoadModel, RestartApi
<1>5. CASE w = u
  <2>1. ~Done(u)
    BY <1>1, IdleJob DEF Done
  <2> QED BY <1>4, <1>5, <2>1
          DEF Prepare, SaveSplit, StartRetrain, StartRegister, ReadSplit, Train, RegisterVersion,
              FindLatest, SetChallenger, LogRetrain, RetrainFails, VerifyRegistered, StartPromote,
              GateChampion, GateChallenger, Gate, LogRefused, StartRollback, ReadDemoted, LogMove,
              Die, Begin
<1>6. CASE w # u
  <2>1. ~(SaveSplit(w) \/ Train(w) \/ RegisterVersion(w) \/ SetChallenger(w) \/ SetChampion(w))
    <3>1. ASSUME NEW what, job'[u] = Touched(w, what)[u]
          PROVE  FALSE
      <4>1. job'[u] = [job[u] EXCEPT !.stale = @ \cup {what}]
        BY <1>1, <1>6, <3>1 DEF Touched
      <4> QED BY <1>1, <4>1 DEF Job
    <3>2. SaveSplit(w) => \E what : job'[u] = Touched(w, what)[u]
      BY <1>6 DEF SaveSplit, Touched
    <3>3. Train(w) => \E what : job'[u] = Touched(w, what)[u]
      BY <1>6 DEF Train, Touched
    <3>4. RegisterVersion(w) => \E what : job'[u] = Touched(w, what)[u]
      BY <1>6 DEF RegisterVersion, Touched
    <3>5. SetChallenger(w) => \E what : job'[u] = Touched(w, what)[u]
      BY <1>6 DEF SetChallenger, Touched
    <3>6. SetChampion(w) => \E what : job'[u] = Touched(w, what)[u]
      BY <1>6 DEF SetChampion, Touched
    <3> QED BY <3>1, <3>2, <3>3, <3>4, <3>5, <3>6
  <2>2. job'[u] # job[u]
    OBVIOUS
  <2>3. ~(Prepare(w) \/ StartRetrain(w) \/ StartRegister(w) \/ StartPromote(w) \/ StartRollback(w))
    BY <1>1, <1>6, <2>2
       DEF Prepare, StartRetrain, StartRegister, StartPromote, StartRollback, Begin
  <2>4. ~(ReadSplit(w) \/ FindLatest(w) \/ VerifyRegistered(w) \/ GateChampion(w)
            \/ GateChallenger(w) \/ Gate(w) \/ ReadDemoted(w))
    BY <1>1, <1>6, <2>2
       DEF ReadSplit, FindLatest, VerifyRegistered, GateChampion, GateChallenger, Gate, ReadDemoted,
           Go, Done
  <2>5. ~(LogRetrain(w) \/ RetrainFails(w) \/ LogRefused(w) \/ LogMove(w) \/ Die(w))
    BY <1>1, <1>6, <2>2 DEF LogRetrain, RetrainFails, LogRefused, LogMove, Die, Done
  <2> QED BY <1>4, <2>1, <2>3, <2>4, <2>5
<1> QED BY <1>5, <1>6

\* run_promotion_gate and promote_challenger (promote.py): what a promotion puts in the
\* champion's place is precise enough, and, unless an alias moved meanwhile, sound and not
\* worse than what it replaces by more than the margin.
THEOREM PromotionsGated == Spec => PromotionsProtected
<1>1. IInv /\ [Next]_vars =>
        [\A u \in Users :
           job[u].op = "promote" /\ job[u].at = "champion" /\ job'[u].at = "log" =>
             LET old == versions[champion]
                 new == versions[champion']
             IN  /\ new.precision >= Floor
                 /\ "champion" \notin job[u].stale => new.recall >= old.recall - Margin
                 /\ "challenger" \notin job[u].stale => new.sound]_vars
  <2>1. SUFFICES ASSUME IInv, [Next]_vars, NEW u \in Users,
                        job[u].op = "promote", job[u].at = "champion", job'[u].at = "log"
                 PROVE  /\ versions[champion'].precision >= Floor
                        /\ "champion" \notin job[u].stale =>
                             versions[champion'].recall >= versions[champion].recall - Margin
                        /\ "challenger" \notin job[u].stale => versions[champion'].sound
    OBVIOUS
  <2>2. champion' = job[u].version
    BY <2>1, PromotedBySetChampion DEF SetChampion
  <2>3. Gated(job[u])
    BY <2>1 DEF IInv, Fits
  <2> QED BY <2>1, <2>2, <2>3 DEF Gated
<1> QED BY <1>1, Invariant, PTL DEF Spec, PromotionsProtected
=============================================================================
