-------------------------- MODULE EvaluationProofs --------------------------
(***************************************************************************)
(* The calibration of a cohort of any size, whatever its scores, outcomes  *)
(* and consensus; and one pre-evaluation, whatever the model answers.      *)
(***************************************************************************)
EXTENDS PreEvaluation, Calibration, FiniteSetTheorems, TLAPS

\* A finite set of numbers has a least and a greatest one.
LEMMA Extremes ==
    ASSUME NEW S \in SUBSET Int, IsFiniteSet(S), S # {}
    PROVE  /\ Min(S) \in S /\ \A y \in S : Min(S) <= y
           /\ Max(S) \in S /\ \A y \in S : Max(S) >= y
<1> DEFINE Above(x) == {y \in S : y > x}
           Below(x) == {y \in S : y < x}
           R == StrictSubsetOrdering(S)
<1>1. IsWellFoundedOn(R, SUBSET S)
  <2>1. IsWellFoundedOn(R, FiniteSubsetsOf(S))
    BY FS_StrictSubsetOrderingWellFounded
  <2>2. FiniteSubsetsOf(S) = SUBSET S
    BY FS_FiniteSubsetsOfFinite
  <2> QED BY <2>1, <2>2
<1>3. \E x \in S : \A y \in S : x >= y
  <2> DEFINE T == {Above(x) : x \in S}
  <2>1. T \subseteq SUBSET S /\ T # {}
    OBVIOUS
  <2>2. \E X \in T : \A Y \in T : ~ (<<Y, X>> \in R)
    <3> HIDE DEF T, R
    <3> QED BY ONLY <1>1, <2>1, WFMin
  <2>3. PICK x \in S : \A Y \in T : ~ (<<Y, Above(x)>> \in R)
    BY <2>2
  <2>4. ASSUME NEW y \in S, ~(x >= y) PROVE FALSE
    <3> x \in Int /\ y \in Int /\ y > x
      BY <2>4
    <3>0. \A z \in S : z > y => z > x
      OBVIOUS
    <3>1. Above(y) \subseteq Above(x) /\ y \in Above(x) /\ y \notin Above(y)
      <4>1. Above(y) \subseteq Above(x)
        BY ONLY <3>0
      <4>2. y \in Above(x)
        OBVIOUS
      <4>3. y \notin Above(y)
        OBVIOUS
      <4> QED BY <4>1, <4>2, <4>3
    <3>2. Above(y) \subseteq S /\ Above(x) \subseteq S
      OBVIOUS
    <3>3. <<Above(y), Above(x)>> \in R
      <4> HIDE DEF Above
      <4> QED BY <3>1, <3>2 DEF StrictSubsetOrdering
    <3> QED BY <3>3, <2>3
  <2> QED BY <2>4
<1>4. \E x \in S : \A y \in S : x <= y
  <2> DEFINE T == {Below(x) : x \in S}
  <2>1. T \subseteq SUBSET S /\ T # {}
    OBVIOUS
  <2>2. \E X \in T : \A Y \in T : ~ (<<Y, X>> \in R)
    <3> HIDE DEF T, R
    <3> QED BY ONLY <1>1, <2>1, WFMin
  <2>3. PICK x \in S : \A Y \in T : ~ (<<Y, Below(x)>> \in R)
    BY <2>2
  <2>4. ASSUME NEW y \in S, ~(x <= y) PROVE FALSE
    <3> x \in Int /\ y \in Int /\ y < x
      BY <2>4
    <3>0. \A z \in S : z < y => z < x
      OBVIOUS
    <3>1. Below(y) \subseteq Below(x) /\ y \in Below(x) /\ y \notin Below(y)
      <4>1. Below(y) \subseteq Below(x)
        BY ONLY <3>0
      <4>2. y \in Below(x)
        OBVIOUS
      <4>3. y \notin Below(y)
        OBVIOUS
      <4> QED BY <4>1, <4>2, <4>3
    <3>2. Below(y) \subseteq S /\ Below(x) \subseteq S
      OBVIOUS
    <3>3. <<Below(y), Below(x)>> \in R
      <4> HIDE DEF Below
      <4> QED BY <3>1, <3>2 DEF StrictSubsetOrdering
    <3> QED BY <3>3, <2>3
  <2> QED BY <2>4
<1> QED BY <1>3, <1>4 DEF Min, Max

\* So some row of a finite set has the least score, and some the greatest.
LEMMA ExtremeRows ==
    ASSUME NEW S, IsFiniteSet(S), S # {}, NEW score, \A r \in S : score[r] \in Nat
    PROVE  /\ IsFiniteSet({score[r] : r \in S})
           /\ \E r \in S : \A q \in S : score[r] <= score[q]
           /\ \E r \in S : \A q \in S : score[q] <= score[r]
<1> DEFINE T == {score[r] : r \in S}
           f == [r \in S |-> score[r]]
<1>1. f \in Surjection(S, T)
  BY DEF Surjection
<1>2. IsFiniteSet(T)
  BY <1>1, FS_Surjection
<1>3. T \in SUBSET Int /\ T # {}
  OBVIOUS
<1>4. /\ Min(T) \in T /\ \A y \in T : Min(T) <= y
      /\ Max(T) \in T /\ \A y \in T : Max(T) >= y
  <2> HIDE DEF T
  <2> QED BY <1>2, <1>3, Extremes
<1>5. \A q \in S : score[q] \in T
  OBVIOUS
<1>6. PICK least \in S, most \in S : score[least] = Min(T) /\ score[most] = Max(T)
  BY <1>4
<1>7. \A q \in S : score[least] <= score[q] /\ score[q] <= score[most]
  <2> HIDE DEF T
  <2> QED BY <1>4, <1>5, <1>6
<1> QED BY <1>2, <1>7

\* The median of a set of rows lies between the scores of two of them.
LEMMA MedianBetween ==
    ASSUME NEW S, IsFiniteSet(S), NEW score, \A r \in S : score[r] \in Nat,
           Middle(score, S) # {}
    PROVE  /\ Median(score, S) \in Nat
           /\ \E r \in S : Median(score, S) <= score[r]
<1> DEFINE M == Middle(score, S)
<1>1. M \subseteq {score[r] : r \in S} /\ M \subseteq Int
  <2>1. \A m \in M : \E r \in S : m = score[r]
    BY DEF Middle
  <2> QED BY <2>1
<1>2. IsFiniteSet(M)
  <2>1. S # {}
    BY DEF Middle
  <2>2. IsFiniteSet({score[r] : r \in S})
    BY <2>1, ExtremeRows
  <2> QED BY <1>1, <2>2, FS_Subset
<1>3. Min(M) \in M /\ Max(M) \in M /\ Min(M) <= Max(M)
  BY <1>1, <1>2, Extremes
<1>4. PICK r \in S : Max(M) = score[r]
  BY <1>1, <1>3
<1>5. Min(M) \in Nat /\ Max(M) \in Nat
  BY <1>1, <1>3
<1>6. (Min(M) + Max(M)) \div 2 \in Nat /\ (Min(M) + Max(M)) \div 2 <= Max(M)
  <2> HIDE DEF M
  <2> QED BY <1>3, <1>5
<1> QED BY <1>4, <1>6 DEF Median

\* Two parts of a finite set that share nothing.
LEMMA Disjoint ==
    ASSUME NEW S, IsFiniteSet(S), NEW A \in SUBSET S, NEW B \in SUBSET S, A \cap B = {}
    PROVE  /\ Cardinality(A) \in Nat /\ Cardinality(B) \in Nat /\ Cardinality(S) \in Nat
           /\ Cardinality(A) + Cardinality(B) <= Cardinality(S)
           /\ A \cup B = S => Cardinality(A) + Cardinality(B) = Cardinality(S)
<1>1. IsFiniteSet(A) /\ IsFiniteSet(B)
  BY FS_Subset
<1>2. Cardinality(A) \in Nat /\ Cardinality(B) \in Nat /\ Cardinality(S) \in Nat
  BY <1>1, FS_CardinalityType
<1>3. Cardinality(A \cup B) = Cardinality(A) + Cardinality(B)
  <2>1. Cardinality(A \cup B) = Cardinality(A) + Cardinality(B) - Cardinality(A \cap B)
    BY <1>1, FS_Union
  <2>2. Cardinality(A \cap B) = 0
    BY FS_EmptySet
  <2> QED BY <1>2, <2>1, <2>2
<1>4. Cardinality(A \cup B) <= Cardinality(S)
  <2>1. A \cup B \in SUBSET S
    OBVIOUS
  <2> QED BY <2>1, FS_Subset
<1> QED BY <1>2, <1>3, <1>4

\* There is a middle: the least score that half of the rows do not exceed.
LEMMA MiddleExists ==
    ASSUME NEW S, IsFiniteSet(S), S # {}, NEW score, \A r \in S : score[r] \in Nat
    PROVE  Middle(score, S) # {}
<1> DEFINE UpTo(v) == {p \in S : score[p] <= v}
           From(v) == {p \in S : score[p] >= v}
<1>1. \A T \in SUBSET S : T # {} => \E r \in T : \A q \in T : score[r] <= score[q]
  BY FS_Subset, ExtremeRows
<1>2. \A T \in SUBSET S : T # {} => \E r \in T : \A q \in T : score[q] <= score[r]
  BY FS_Subset, ExtremeRows
<1>3. Cardinality(S) \in Nat
  BY FS_CardinalityType
<1>4. \E r \in S : IsHalf(UpTo(score[r]), S)
  <2>1. PICK r \in S : \A q \in S : score[q] <= score[r]
    BY <1>2
  <2>2. UpTo(score[r]) = S
    BY <2>1
  <2>3. IsHalf(S, S)
    BY <1>3 DEF IsHalf
  <2> QED BY <2>2, <2>3
<1>5. PICK a \in S : /\ IsHalf(UpTo(score[a]), S)
                     /\ \A q \in S : IsHalf(UpTo(score[q]), S) => score[a] <= score[q]
  <2> DEFINE T == {r \in S : IsHalf(UpTo(score[r]), S)}
  <2>1. T \in SUBSET S /\ T # {}
    BY <1>4
  <2>2. PICK a \in T : \A q \in T : score[a] <= score[q]
    BY <1>1, <2>1
  <2> QED BY <2>2
<1>6. IsHalf(From(score[a]), S)
  <2> DEFINE L == {p \in S : score[p] < score[a]}
  <2>1. CASE L = {}
    <3>1. From(score[a]) = S
      BY <2>1
    <3> QED BY <1>3, <3>1 DEF IsHalf
  <2>2. CASE L # {}
    <3>1. L \in SUBSET S
      OBVIOUS
    <3>2. PICK m \in L : \A q \in L : score[q] <= score[m]
      BY <1>2, <2>2, <3>1
    <3>3. UpTo(score[m]) = L
      BY <3>2
    <3>4. ~ IsHalf(L, S)
      BY <1>5, <3>2, <3>3
    <3>5. /\ L \cap From(score[a]) = {} /\ L \cup From(score[a]) = S
          /\ L \in SUBSET S /\ From(score[a]) \in SUBSET S
      OBVIOUS
    <3>6. /\ Cardinality(L) \in Nat /\ Cardinality(From(score[a])) \in Nat
          /\ Cardinality(L) + Cardinality(From(score[a])) = Cardinality(S)
      <4> HIDE DEF L, From
      <4> QED BY <3>5, Disjoint
    <3> QED BY <1>3, <3>4, <3>6 DEF IsHalf
  <2> QED BY <2>1, <2>2
<1> QED BY <1>5, <1>6 DEF Middle

\* The median of a majority is what the majority shares.
LEMMA MajorityIsMedian ==
    ASSUME NEW S, IsFiniteSet(S), NEW score, \A r \in S : score[r] \in Nat, NEW mode \in Nat,
           2 * Cardinality({r \in S : score[r] = mode}) > Cardinality(S)
    PROVE  Median(score, S) = mode
<1> DEFINE Sharing == {r \in S : score[r] = mode}
           UpTo(v) == {p \in S : score[p] <= v}
           From(v) == {p \in S : score[p] >= v}
<1>1. Cardinality(S) \in Nat /\ Cardinality(Sharing) \in Nat
  <2>1. Sharing \in SUBSET S
    OBVIOUS
  <2> QED BY <2>1, FS_Subset, FS_CardinalityType
<1>2. PICK r \in S : score[r] = mode
  <2>1. Sharing = {} => Cardinality(Sharing) = 0
    BY FS_EmptySet
  <2>2. Sharing # {}
    BY <1>1, <2>1
  <2> QED BY <2>2
<1>3. \A T \in SUBSET S : Sharing \subseteq T => IsHalf(T, S)
  <2> SUFFICES ASSUME NEW T \in SUBSET S, Sharing \subseteq T PROVE IsHalf(T, S)
    OBVIOUS
  <2>1. IsFiniteSet(T) /\ Cardinality(T) \in Nat
    BY FS_Subset, FS_CardinalityType
  <2>2. Cardinality(Sharing) <= Cardinality(T)
    <3> HIDE DEF Sharing
    <3> QED BY <2>1, FS_Subset
  <2> QED BY <1>1, <2>1, <2>2 DEF IsHalf
<1>4. \A T \in SUBSET S : IsHalf(T, S) => Sharing \cap T # {}
  <2> SUFFICES ASSUME NEW T \in SUBSET S, IsHalf(T, S), Sharing \cap T = {} PROVE FALSE
    OBVIOUS
  <2>1. Sharing \in SUBSET S
    OBVIOUS
  <2>2. Cardinality(T) \in Nat /\ Cardinality(Sharing) + Cardinality(T) <= Cardinality(S)
    <3> HIDE DEF Sharing
    <3> QED BY <2>1, Disjoint
  <2> QED BY <1>1, <2>2 DEF IsHalf
<1>5. mode \in Middle(score, S)
  <2>1. Sharing \subseteq UpTo(score[r]) /\ Sharing \subseteq From(score[r])
    BY <1>2
  <2>2. IsHalf(UpTo(score[r]), S) /\ IsHalf(From(score[r]), S)
    BY <1>3, <2>1
  <2> QED BY <1>2, <2>2 DEF Middle
<1>6. \A v \in Middle(score, S) : v = mode
  <2> SUFFICES ASSUME NEW q \in S, IsHalf(UpTo(score[q]), S), IsHalf(From(score[q]), S)
               PROVE  score[q] = mode
    BY DEF Middle
  <2>1. PICK p \in Sharing : score[p] <= score[q]
    BY <1>4
  <2>2. PICK o \in Sharing : score[o] >= score[q]
    BY <1>4
  <2> QED BY <2>1, <2>2
<1>7. Middle(score, S) = {mode}
  BY <1>5, <1>6
<1>8. Min({mode}) = mode /\ Max({mode}) = mode
  BY DEF Min, Max
<1> QED BY <1>7, <1>8 DEF Median

----------------------------------------------------------------------------
\* One calibration of a cohort of rows D.
Outcome == {Outcomes[o] : o \in DOMAIN Outcomes}
Row == [kind : DOMAIN Outcomes, outcome : Outcome, score : Nat]

\* No score above 5.5.
Valid(score, D) == \A r \in D : score[r] \in Nat /\ score[r] <= MAX_VALID_SCORE

\* The median of valid scores is one.
LEMMA MedianValid ==
    ASSUME NEW S, IsFiniteSet(S), S # {}, NEW score, Valid(score, S)
    PROVE  Median(score, S) \in Nat /\ Median(score, S) <= MAX_VALID_SCORE
<1>1. \A r \in S : score[r] \in Nat
  BY DEF Valid
<1>2. Middle(score, S) # {}
  BY <1>1, MiddleExists
<1>3. Median(score, S) \in Nat /\ \E r \in S : Median(score, S) <= score[r]
  BY <1>1, <1>2, MedianBetween
<1> QED BY <1>3 DEF Valid, MAX_VALID_SCORE

\* The caps leave valid scores, and a row that is not adjusted its score.
LEMMA CapsValid ==
    ASSUME NEW D, NEW c \in [D -> Row], NEW d
    PROVE  /\ DOMAIN HardCapped(d, c).score = D
           /\ Valid(HardCapped(d, c).score, D)
           /\ \A r \in D \ HardCapped(d, c).adjusted : HardCapped(d, c).score[r] = c[r].score
<1>1. \A r \in D : c[r].score \in Nat
  BY DEF Row
<1>2. \A r \in D : CapScore(d, c[r]) \in Nat /\ CapScore(d, c[r]) <= MAX_VALID_SCORE
  BY <1>1 DEF CapScore, MAX_VALID_SCORE, ERROR_CER_CAP
<1> QED BY <1>2 DEF HardCapped, Valid

\* So does the cap under the reference fits, which leaves those alone.
LEMMA BoundedCapValid ==
    ASSUME NEW D, IsFiniteSet(D), NEW c \in [D -> Row], NEW d, NEW done, Valid(done.score, D)
    PROVE  /\ Valid(BoundedCapped(d, c, done).score, D)
           /\ DOMAIN BoundedCapped(d, c, done).score = D
           /\ \A r \in Cluster(c, "reference_fit") : /\ BoundedCapped(d, c, done).score[r] = done.score[r]
                                                     /\ r \in BoundedCapped(d, c, done).adjusted => r \in done.adjusted
<1> DEFINE Ref == Cluster(c, "reference_fit")
           Over == Outranking(d, c, done)
<1>1. Ref \in SUBSET D /\ Over \in SUBSET Cluster(c, "bounded_fit")
  BY DEF Cluster, Outranking
<1>2. Ref \cap Over = {}
  BY DEF Cluster, Outranking
<1>3. \A r \in Over : Ref # {}
  BY DEF Outranking
<1>4. IsFiniteSet(Ref)
  BY <1>1, FS_Subset
<1>5. Valid(done.score, Ref)
  BY <1>1 DEF Valid
<1>6. \A r \in Over : Median(done.score, Ref) \in Nat /\ Median(done.score, Ref) <= MAX_VALID_SCORE
  BY <1>3, <1>4, <1>5, MedianValid
<1>7. /\ BoundedCapped(d, c, done).score = [r \in D |-> IF r \in Over THEN Median(done.score, Ref) ELSE done.score[r]]
      /\ BoundedCapped(d, c, done).adjusted = done.adjusted \cup Over
  BY DEF BoundedCapped
<1>8. Valid(BoundedCapped(d, c, done).score, D)
  BY <1>6, <1>7 DEF Valid
<1>9. \A r \in Ref : r \in D /\ r \notin Over
  BY <1>1, <1>2
<1> HIDE DEF Ref, Over
<1>10. \A r \in Ref : /\ BoundedCapped(d, c, done).score[r] = done.score[r]
                      /\ r \in BoundedCapped(d, c, done).adjusted => r \in done.adjusted
  BY <1>7, <1>9
<1> QED BY <1>7, <1>8, <1>10 DEF Ref

\* What an outlier is set to is the score most of its cluster share.
LEMMA OutlierGetsMode ==
    ASSUME NEW S, IsFiniteSet(S), NEW done, Valid(done.score, S), NEW r \in Outliers(done, S)
    PROVE  \E q \in S : /\ Homogeneous(done.score, S, done.score[q])
                        /\ Median(done.score, S) = done.score[q]
<1>1. PICK q \in S : Homogeneous(done.score, S, done.score[q])
  BY DEF Outliers
<1>2. \A p \in S : done.score[p] \in Nat
  BY DEF Valid
<1>3. 2 * Cardinality({p \in S : done.score[p] = done.score[q]}) > Cardinality(S)
  BY <1>1 DEF Homogeneous
<1>4. Median(done.score, S) = done.score[q]
  BY <1>2, <1>3, MajorityIsMedian
<1> QED BY <1>1, <1>4

\* A corrected row has the score that some row of its cluster had.
LEMMA CorrectedFromCluster ==
    ASSUME NEW D, IsFiniteSet(D), NEW c \in [D -> Row], NEW done, Valid(done.score, D)
    PROVE  /\ DOMAIN OutliersCorrected(c, done) = D
           /\ \A name : \A r \in Cluster(c, name) :
                 \E q \in Cluster(c, name) : OutliersCorrected(c, done)[r] = done.score[q]
<1>1. DOMAIN OutliersCorrected(c, done) = D
  BY DEF OutliersCorrected
<1>2. ASSUME NEW name, NEW r \in Cluster(c, name)
      PROVE  \E q \in Cluster(c, name) : OutliersCorrected(c, done)[r] = done.score[q]
  <2> DEFINE S == Cluster(c, name)
  <2>1. r \in D /\ name = ExecutionCluster(c[r].outcome) /\ S \in SUBSET D
    BY DEF Cluster
  <2>2. OutliersCorrected(c, done)[r] = IF r \in Outliers(done, S) THEN Median(done.score, S) ELSE done.score[r]
    BY <2>1 DEF OutliersCorrected
  <2>3. IsFiniteSet(S) /\ Valid(done.score, S)
    BY <2>1, FS_Subset DEF Valid
  <2>4. r \in Outliers(done, S) => \E q \in S : Median(done.score, S) = done.score[q]
    <3> HIDE DEF S
    <3> QED BY <2>3, OutlierGetsMode
  <2> QED BY <2>2, <2>4
<1> QED BY <1>1, <1>2

\* What a calibration makes of a cohort: rows again, with the corrected scores, none of
\* them above the maximum a rubric may reach.
LEMMA CalibratedScores ==
    ASSUME NEW D, IsFiniteSet(D), NEW c \in [D -> Row], NEW d
    PROVE  LET bound == BoundedCapped(d, c, HardCapped(d, c))
           IN  /\ Valid(bound.score, D)
               /\ Calibrated(d, c) \in [D -> Row]
               /\ \A r \in D : /\ Calibrated(d, c)[r].score = OutliersCorrected(c, bound)[r]
                               /\ Calibrated(d, c)[r].score <= MAX_VALID_SCORE
                               /\ Calibrated(d, c)[r].outcome = c[r].outcome
<1> DEFINE bound == BoundedCapped(d, c, HardCapped(d, c))
           score == OutliersCorrected(c, bound)
<1>1. Valid(bound.score, D)
  BY CapsValid, BoundedCapValid
<1>2. \A r \in D : \E q \in D : score[r] = bound.score[q]
  <2> SUFFICES ASSUME NEW r \in D PROVE \E q \in D : score[r] = bound.score[q]
    OBVIOUS
  <2>1. r \in Cluster(c, ExecutionCluster(c[r].outcome))
    BY DEF Cluster
  <2>2. \E q \in Cluster(c, ExecutionCluster(c[r].outcome)) : score[r] = bound.score[q]
    <3> HIDE DEF bound
    <3> QED BY <1>1, <2>1, CorrectedFromCluster
  <2> QED BY <2>2 DEF Cluster
<1>3. \A r \in D : score[r] \in Nat /\ score[r] <= MAX_VALID_SCORE
  <2> HIDE DEF bound, score
  <2> QED BY <1>1, <1>2 DEF Valid
<1>4. Calibrated(d, c) = [r \in D |-> [c[r] EXCEPT !.score = score[r]]]
  BY DEF Calibrated
<1>5. \A r \in D : /\ [c[r] EXCEPT !.score = score[r]] \in Row
                   /\ [c[r] EXCEPT !.score = score[r]].score = score[r]
                   /\ [c[r] EXCEPT !.score = score[r]].outcome = c[r].outcome
  <2> HIDE DEF score
  <2> QED BY <1>3 DEF Row
<1> HIDE DEF score
<1>6. /\ Calibrated(d, c) \in [D -> Row]
      /\ \A r \in D : Calibrated(d, c)[r].score = score[r] /\ Calibrated(d, c)[r].outcome = c[r].outcome
  BY <1>4, <1>5
<1> QED BY <1>1, <1>3, <1>6 DEF score

----------------------------------------------------------------------------
\* The runs.

\* The cohort consists of rows, and after a calibration of valid ones.
CohortInv ==
    /\ cohort \in Seq(Row)
    /\ calibrations \in Nat
    /\ NeverSix

\* A cohort is a finite list of rows.
LEMMA CohortIsFunction == ASSUME cohort \in Seq(Row) PROVE IsFiniteSet(DOMAIN cohort) /\ cohort \in [DOMAIN cohort -> Row]
<1>1. Len(cohort) \in Nat /\ DOMAIN cohort = 1 .. Len(cohort) /\ cohort \in [1 .. Len(cohort) -> Row]
  OBVIOUS
<1> QED BY <1>1, FS_Interval

\* A calibration keeps a cohort of rows with valid scores.
LEMMA CalibrationKeeps ==
    ASSUME CohortInv, RunCohortCalibration
    PROVE  CohortInv'
<1>1. IsFiniteSet(DOMAIN cohort) /\ cohort \in [DOMAIN cohort -> Row]
  BY CohortIsFunction DEF CohortInv
<1>2. cohort' \in [DOMAIN cohort -> Row] /\ \A r \in DOMAIN cohort : cohort'[r].score <= MAX_VALID_SCORE
  BY <1>1, CalibratedScores DEF RunCohortCalibration
<1>3. cohort' \in Seq(Row) /\ DOMAIN cohort' = DOMAIN cohort
  BY <1>2 DEF CohortInv
<1> QED BY <1>2, <1>3 DEF CohortInv, NeverSix, RunCohortCalibration

\* However often a cohort is calibrated it consists of rows with valid scores.
LEMMA CohortInvariant == CalibrationSpec => []CohortInv
<1>1. CalibrationInit => CohortInv
  BY DEF CalibrationInit, CohortInv, NeverSix
<1>2. CohortInv /\ [CalibrationNext]_calibrationVars => CohortInv'
  <2> SUFFICES ASSUME CohortInv, [CalibrationNext]_calibrationVars PROVE CohortInv'
    OBVIOUS
  <2>1. ASSUME NEW o \in DOMAIN Outcomes, NEW v \in RawScores, RowEvaluated(o, v) PROVE CohortInv'
    <3>1. [kind |-> o, outcome |-> Outcomes[o], score |-> v] \in Row
      BY CalibrationAssumption DEF Row, Outcome
    <3>2. cohort' \in Seq(Row)
      BY <2>1, <3>1 DEF RowEvaluated, CohortInv
    <3> QED BY <2>1, <3>2 DEF RowEvaluated, CohortInv, NeverSix
  <2>2. ASSUME NEW r \in DOMAIN cohort, NEW v \in RawScores, RowEvaluatedAgain(r, v) PROVE CohortInv'
    <3>0. cohort[r] \in Row /\ v \in Nat
      BY CalibrationAssumption DEF CohortInv
    <3>1. [cohort[r] EXCEPT !.score = v] \in Row
      BY <3>0 DEF Row
    <3>2. cohort' \in Seq(Row)
      BY <2>2, <3>1 DEF RowEvaluatedAgain, CohortInv
    <3> QED BY <2>2, <3>2 DEF RowEvaluatedAgain, CohortInv, NeverSix
  <2>3. CASE RunCohortCalibration
    BY <2>3, CalibrationKeeps
  <2>4. CASE UNCHANGED calibrationVars
    BY <2>4 DEF calibrationVars, CohortInv, NeverSix
  <2> QED BY <2>1, <2>2, <2>3, <2>4 DEF CalibrationNext
<1> QED BY <1>1, <1>2, PTL DEF CalibrationSpec

\* NeverSix for every cohort: no run leaves a score above 5.5 (MAX_VALID_SCORE),
\* neither by a cap nor by the median an outlier is set to.
THEOREM NeverSixHolds == CalibrationSpec => []NeverSix
<1>1. CohortInv => NeverSix
  BY DEF CohortInv
<1> QED BY <1>1, CohortInvariant, PTL

----------------------------------------------------------------------------
\* Where the scores are the same the median is.
LEMMA MedianSame ==
    ASSUME NEW S, NEW score, NEW after, \A r \in S : after[r] = score[r]
    PROVE  Median(after, S) = Median(score, S)
<1>1. \A q \in S : /\ {p \in S : after[p] <= after[q]} = {p \in S : score[p] <= score[q]}
                   /\ {p \in S : after[p] >= after[q]} = {p \in S : score[p] >= score[q]}
  OBVIOUS
<1> DEFINE Mid == {q \in S : /\ IsHalf({p \in S : score[p] <= score[q]}, S)
                             /\ IsHalf({p \in S : score[p] >= score[q]}, S)}
<1>2. Middle(after, S) = {after[r] : r \in Mid}
  BY <1>1 DEF Middle
<1>3. {after[r] : r \in Mid} = {score[r] : r \in Mid}
  OBVIOUS
<1> QED BY <1>2, <1>3 DEF Middle, Median

\* The outliers of a cluster whose rows mostly share a score, and what they are set to.
LEMMA OutliersOfMode ==
    ASSUME NEW S, IsFiniteSet(S), NEW done, Valid(done.score, S),
           NEW q \in S, Homogeneous(done.score, S, done.score[q])
    PROVE  /\ Median(done.score, S) = done.score[q]
           /\ Outliers(done, S) = {r \in S \ done.adjusted : done.score[r] # done.score[q]}
<1>1. \A p \in S : done.score[p] \in Nat
  BY DEF Valid
<1>2. ASSUME NEW p \in S, Homogeneous(done.score, S, done.score[p])
      PROVE  Median(done.score, S) = done.score[p]
  <2>1. 2 * Cardinality({r \in S : done.score[r] = done.score[p]}) > Cardinality(S)
    BY <1>2 DEF Homogeneous
  <2> QED BY <1>1, <2>1, MajorityIsMedian
<1>3. Median(done.score, S) = done.score[q]
  BY <1>2
<1>4. \A p \in S : Homogeneous(done.score, S, done.score[p]) => done.score[p] = done.score[q]
  BY <1>2, <1>3
<1> QED BY <1>3, <1>4 DEF Outliers

\* The correction of the outliers of a cluster leaves its median.
LEMMA MedianStays ==
    ASSUME NEW S, IsFiniteSet(S), NEW done, Valid(done.score, S),
           NEW after, \A r \in S : after[r] = IF r \in Outliers(done, S) THEN Median(done.score, S) ELSE done.score[r]
    PROVE  Median(after, S) = Median(done.score, S)
<1>1. \A r \in S : done.score[r] \in Nat
  BY DEF Valid
<1>2. CASE Outliers(done, S) = {}
  BY <1>2, MedianSame
<1>3. CASE Outliers(done, S) # {}
  <2>1. PICK q \in S : Homogeneous(done.score, S, done.score[q])
    BY <1>3, OutlierGetsMode
  <2>2. /\ Median(done.score, S) = done.score[q]
        /\ Outliers(done, S) = {r \in S \ done.adjusted : done.score[r] # done.score[q]}
    BY <2>1, OutliersOfMode
  <2> DEFINE Before == {r \in S : done.score[r] = done.score[q]}
             After == {r \in S : after[r] = done.score[q]}
  <2>3. Before \subseteq After /\ After \in SUBSET S
    BY <2>2
  <2>4. 2 * Cardinality(Before) > Cardinality(S)
    BY <2>1 DEF Homogeneous
  <2>5. \A r \in S : after[r] \in Nat
    BY <1>1, <2>2
  <2>6. 2 * Cardinality(After) > Cardinality(S)
    <3> HIDE DEF Before, After
    <3>1. IsFiniteSet(After)
      BY <2>3, FS_Subset
    <3>2. Cardinality(Before) <= Cardinality(After)
      BY <2>3, <3>1, FS_Subset
    <3>3. Cardinality(Before) \in Nat /\ Cardinality(After) \in Nat /\ Cardinality(S) \in Nat
      BY <2>3, <3>1, FS_Subset, FS_CardinalityType
    <3> QED BY <2>4, <3>2, <3>3
  <2>7. Median(after, S) = done.score[q]
    <3>1. done.score[q] \in Nat
      BY <1>1
    <3> QED BY <2>5, <2>6, <3>1, MajorityIsMedian
  <2> QED BY <2>2, <2>7
<1> QED BY <1>2, <1>3

\* What a row of cluster k gets from the correction of the outliers.
LEMMA CorrectedBy ==
    ASSUME NEW D, NEW c \in [D -> Row], NEW done, NEW k, NEW r \in Cluster(c, k)
    PROVE  OutliersCorrected(c, done)[r] =
               IF r \in Outliers(done, Cluster(c, k)) THEN Median(done.score, Cluster(c, k)) ELSE done.score[r]
<1>1. r \in D /\ k = ExecutionCluster(c[r].outcome)
  BY DEF Cluster
<1> QED BY <1>1 DEF OutliersCorrected

\* When no row is capped the bounded fits end at or below the reference fits.
LEMMA UncappedUnder ==
    ASSUME NEW D, IsFiniteSet(D), NEW c \in [D -> Row],
           HardCapped(CER_DIMENSION, c).adjusted = {}, Cluster(c, "reference_fit") # {},
           NEW stored, \A q \in D : stored[q] = Calibrated(CER_DIMENSION, c)[q].score,
           NEW r \in Cluster(c, "bounded_fit")
    PROVE  stored[r] <= Median(stored, Cluster(c, "reference_fit"))
<1> DEFINE hard == HardCapped(CER_DIMENSION, c)
           bound == BoundedCapped(CER_DIMENSION, c, hard)
           after == OutliersCorrected(c, bound)
           Ref == Cluster(c, "reference_fit")
           Bounded == Cluster(c, "bounded_fit")
<1>1. Ref \in SUBSET D /\ Bounded \in SUBSET D /\ IsFiniteSet(Ref) /\ IsFiniteSet(Bounded)
  <2>1. Ref \in SUBSET D /\ Bounded \in SUBSET D
    BY DEF Cluster
  <2> QED BY <2>1, FS_Subset
<1>2. Valid(hard.score, D) /\ Valid(bound.score, D)
  BY CapsValid, BoundedCapValid
<1>3. \A q \in D : stored[q] = after[q]
  BY CalibratedScores
<1>4. \A q \in Ref : bound.score[q] = hard.score[q] /\ q \notin bound.adjusted
  BY <1>2, BoundedCapValid
<1>5. Median(bound.score, Ref) = Median(hard.score, Ref)
  <2> HIDE DEF bound, hard, Ref
  <2> QED BY <1>4, MedianSame
<1>6. Valid(hard.score, Ref) /\ Valid(bound.score, Ref) /\ Valid(bound.score, Bounded)
  BY <1>1, <1>2 DEF Valid
<1>7. Median(hard.score, Ref) \in Nat
  BY <1>1, <1>6, MedianValid
<1>8. \A q \in Bounded : bound.score[q] <= Median(hard.score, Ref)
  <2> SUFFICES ASSUME NEW q \in Bounded PROVE bound.score[q] <= Median(hard.score, Ref)
    OBVIOUS
  <2>1. q \in D /\ hard.score[q] \in Nat
    BY <1>1, <1>2 DEF Valid
  <2>2. bound.score[q] = IF q \in Outranking(CER_DIMENSION, c, hard) THEN Median(hard.score, Ref) ELSE hard.score[q]
    BY <2>1 DEF BoundedCapped
  <2>3. hard.score[q] > Median(hard.score, Ref) => q \in Outranking(CER_DIMENSION, c, hard)
    BY DEF Outranking
  <2> HIDE DEF hard, bound, Ref
  <2> QED BY <1>7, <2>1, <2>2, <2>3
<1>9. after[r] <= Median(hard.score, Ref)
  <2>1. \E q \in Bounded : after[r] = bound.score[q]
    <3> HIDE DEF bound
    <3> QED BY <1>2, CorrectedFromCluster
  <2> QED BY <1>8, <2>1
<1>10. Median(stored, Ref) = Median(bound.score, Ref)
  <2>1. \A q \in Ref : stored[q] = IF q \in Outliers(bound, Ref) THEN Median(bound.score, Ref) ELSE bound.score[q]
    <3> HIDE DEF bound
    <3> QED BY <1>1, <1>3, CorrectedBy
  <2> HIDE DEF bound, Ref
  <2> QED BY <1>1, <1>6, <2>1, MedianStays
<1> QED BY <1>1, <1>3, <1>5, <1>9, <1>10

\* UncappedUnderReference for every cohort: when no row is capped the rule of the
\* bounded fits, and with it what the header of cohort-calibration.ts says of them,
\* survives the outliers that are corrected after it.
THEOREM UncappedUnderReferenceHolds == CalibrationSpec => UncappedUnderReference
<1>1. CohortInv /\ RunCohortCalibration /\ HardCapped(dimension, cohort).adjusted = {} => UnderReference'
  <2> SUFFICES ASSUME CohortInv, RunCohortCalibration, HardCapped(dimension, cohort).adjusted = {},
                      dimension' = CER_DIMENSION, Cluster(cohort', "reference_fit") # {},
                      NEW r \in Cluster(cohort', "bounded_fit")
               PROVE  Stored'[r] <= Median(Stored', Cluster(cohort', "reference_fit"))
    BY DEF UnderReference
  <2>1. IsFiniteSet(DOMAIN cohort) /\ cohort \in [DOMAIN cohort -> Row]
    BY CohortIsFunction DEF CohortInv
  <2>2. dimension = CER_DIMENSION /\ cohort' = Calibrated(CER_DIMENSION, cohort)
    BY DEF RunCohortCalibration
  <2>3. DOMAIN cohort' = DOMAIN cohort /\ \A q \in DOMAIN cohort : cohort'[q].outcome = cohort[q].outcome
    BY <2>1, <2>2, CalibratedScores
  <2>4. \A k : Cluster(cohort', k) = Cluster(cohort, k)
    BY <2>3 DEF Cluster
  <2>5. \A q \in DOMAIN cohort : Stored'[q] = Calibrated(CER_DIMENSION, cohort)[q].score
    BY <2>2, <2>3 DEF Stored
  <2> QED BY <2>1, <2>2, <2>4, <2>5, UncappedUnder
<1>2. CalibrationSpec => []CohortInv
  BY CohortInvariant
<1> QED BY <1>1, <1>2, PTL DEF UncappedUnderReference

----------------------------------------------------------------------------
\* That the runs settle.

Scores(c) == [r \in DOMAIN c |-> c[r].score]

\* The failed rows whose score the next run takes down.
OverCap(d, c) == {r \in DOMAIN c : d = CER_DIMENSION /\ c[r].outcome.hadError /\ c[r].score > ERROR_CER_CAP}

\* Outliers of S would be corrected.
Divided(score, S) == \E q \in S : Homogeneous(score, S, score[q])

\* Most rows of S share a score that is over the cap of failed rows, which they are not.
Agreed(d, c, S, mode) ==
    /\ mode > ERROR_CER_CAP
    /\ 2 * Cardinality({r \in S : c[r].score = mode /\ r \notin OverCap(d, c)}) > Cardinality(S)

Under(d, c) ==
    d = CER_DIMENSION /\ Cluster(c, "reference_fit") # {} =>
        \A r \in Cluster(c, "bounded_fit") : c[r].score <= Median(Scores(c), Cluster(c, "reference_fit"))

\* What one calibration leaves, of whatever cohort: a failed row that is over its cap
\* is where most of its cluster are, and no bounded fit is there over the reference fits.
Explained(d, c) ==
    \A k : \A r \in Cluster(c, k) \cap OverCap(d, c) :
        /\ Agreed(d, c, Cluster(c, k), c[r].score)
        /\ k = "bounded_fit" /\ Cluster(c, "reference_fit") # {} =>
               c[r].score <= Median(Scores(c), Cluster(c, "reference_fit"))

\* What two calibrations leave (three, of the scores of the execution).
Undivided(d, c) ==
    \A k : /\ ~ Divided(Scores(c), Cluster(c, k))
           /\ ~ Divided(HardCapped(d, c).score, Cluster(c, k))

\* What the caps do to valid scores.
LEMMA CapsTakeFailed ==
    ASSUME NEW D, NEW c \in [D -> Row], NEW d, \A r \in D : c[r].score <= MAX_VALID_SCORE
    PROVE  /\ HardCapped(d, c).adjusted = OverCap(d, c)
           /\ \A r \in D : HardCapped(d, c).score[r] = IF r \in OverCap(d, c) THEN ERROR_CER_CAP ELSE c[r].score
<1>1. \A r \in D : c[r].score \in Nat
  BY DEF Row
<1>2. \A r \in D : CapScore(d, c[r]) = IF r \in OverCap(d, c) THEN ERROR_CER_CAP ELSE c[r].score
  BY <1>1 DEF CapScore, OverCap, MAX_VALID_SCORE, ERROR_CER_CAP
<1>3. \A r \in OverCap(d, c) : r \in D /\ c[r].score # ERROR_CER_CAP
  BY <1>1 DEF OverCap, ERROR_CER_CAP
<1>4. DOMAIN c = D
  OBVIOUS
<1>5. HardCapped(d, c).score = [r \in D |-> CapScore(d, c[r])]
  BY DEF HardCapped
<1>6. HardCapped(d, c).adjusted = {r \in D : CapScore(d, c[r]) # c[r].score}
  BY DEF HardCapped
<1> QED BY <1>2, <1>3, <1>5, <1>6

\* They do not move the median of a cluster whose failed rows are where most are.
LEMMA CapKeepsMedian ==
    ASSUME NEW D, IsFiniteSet(D), NEW c \in [D -> Row], NEW d, \A r \in D : c[r].score <= MAX_VALID_SCORE,
           Explained(d, c), NEW k
    PROVE  Median(HardCapped(d, c).score, Cluster(c, k)) = Median(Scores(c), Cluster(c, k))
<1> DEFINE S == Cluster(c, k)
           hard == HardCapped(d, c).score
<1>1. S \in SUBSET D /\ IsFiniteSet(S)
  <2>1. S \in SUBSET D
    BY DEF Cluster
  <2> QED BY <2>1, FS_Subset
<1>2. \A r \in D : c[r].score \in Nat /\ Scores(c)[r] = c[r].score
  BY DEF Row, Scores
<1>3. \A r \in D : hard[r] = IF r \in OverCap(d, c) THEN ERROR_CER_CAP ELSE c[r].score
  BY CapsTakeFailed
<1>4. CASE S \cap OverCap(d, c) = {}
  <2>1. \A r \in S : hard[r] = Scores(c)[r]
    BY <1>1, <1>2, <1>3, <1>4
  <2> HIDE DEF S, hard
  <2> QED BY <2>1, MedianSame DEF S, hard
<1>5. CASE S \cap OverCap(d, c) # {}
  <2>1. PICK r \in S \cap OverCap(d, c) : TRUE
    BY <1>5
  <2> DEFINE mode == c[r].score
             Stay == {q \in S : c[q].score = mode /\ q \notin OverCap(d, c)}
  <2>2. mode \in Nat /\ 2 * Cardinality(Stay) > Cardinality(S)
    BY <1>1, <1>2, <2>1 DEF Explained, Agreed
  <2>3. ASSUME NEW score, \A q \in S : score[q] \in Nat, \A q \in Stay : score[q] = mode
        PROVE  Median(score, S) = mode
    <3> DEFINE Sharing == {q \in S : score[q] = mode}
    <3>1. Stay \subseteq Sharing /\ Sharing \in SUBSET S
      BY <2>3
    <3> HIDE DEF Sharing, Stay, S, mode
    <3>2. IsFiniteSet(Sharing)
      BY <1>1, <3>1, FS_Subset
    <3>3. Cardinality(Stay) <= Cardinality(Sharing)
      BY <3>1, <3>2, FS_Subset
    <3>4. Cardinality(Stay) \in Nat /\ Cardinality(Sharing) \in Nat /\ Cardinality(S) \in Nat
      BY <1>1, <3>1, <3>2, FS_Subset, FS_CardinalityType
    <3>5. 2 * Cardinality(Sharing) > Cardinality(S)
      BY <2>2, <3>3, <3>4
    <3> QED BY <1>1, <2>2, <2>3, <3>5, MajorityIsMedian DEF Sharing
  <2>4. /\ \A q \in S : hard[q] \in Nat /\ Scores(c)[q] \in Nat
        /\ \A q \in Stay : hard[q] = mode /\ Scores(c)[q] = mode
    BY <1>1, <1>2, <1>3 DEF ERROR_CER_CAP
  <2> HIDE DEF S, Stay, mode, hard
  <2>5. Median(hard, S) = mode /\ Median(Scores(c), S) = mode
    BY <2>3, <2>4
  <2> QED BY <2>5 DEF S, hard
<1> QED BY <1>4, <1>5

\* One calibration, cluster by cluster.
LEMMA CalibratedCluster ==
    ASSUME NEW D, IsFiniteSet(D), NEW c \in [D -> Row], NEW d, NEW k
    PROVE  LET S == Cluster(c, k)
               bound == BoundedCapped(d, c, HardCapped(d, c))
               next == Calibrated(d, c)
           IN  /\ S \in SUBSET D /\ IsFiniteSet(S) /\ Cluster(next, k) = S
               /\ Valid(bound.score, S) /\ Valid(HardCapped(d, c).score, S)
               /\ \A r \in S : next[r].score = IF r \in Outliers(bound, S) THEN Median(bound.score, S) ELSE bound.score[r]
<1> DEFINE S == Cluster(c, k)
           hard == HardCapped(d, c)
           bound == BoundedCapped(d, c, hard)
           next == Calibrated(d, c)
<1>1. S \in SUBSET D /\ IsFiniteSet(S)
  <2>1. S \in SUBSET D
    BY DEF Cluster
  <2> QED BY <2>1, FS_Subset
<1>2. next \in [D -> Row] /\ \A r \in D : next[r].score = OutliersCorrected(c, bound)[r] /\ next[r].outcome = c[r].outcome
  BY CalibratedScores
<1>3. Cluster(next, k) = S
  <2> HIDE DEF next
  <2> QED BY <1>2 DEF Cluster
<1>4. Valid(hard.score, D) /\ Valid(bound.score, D)
  BY CapsValid, BoundedCapValid
<1>5. \A r \in S : OutliersCorrected(c, bound)[r] = IF r \in Outliers(bound, S) THEN Median(bound.score, S) ELSE bound.score[r]
  <2> HIDE DEF bound
  <2> QED BY CorrectedBy
<1> HIDE DEF bound, hard
<1>6. Valid(hard.score, S) /\ Valid(bound.score, S)
  BY <1>1, <1>4 DEF Valid
<1> QED BY <1>1, <1>2, <1>3, <1>5, <1>6 DEF bound, hard

\* The median of the reference fits is what the caps leave it, and no bounded fit that
\* they have not taken is over it.
LEMMA CalibratedReference ==
    ASSUME NEW D, IsFiniteSet(D), NEW c \in [D -> Row], NEW d, Cluster(c, "reference_fit") # {}, d = CER_DIMENSION
    PROVE  LET Ref == Cluster(c, "reference_fit")
               hard == HardCapped(d, c)
               bound == BoundedCapped(d, c, hard)
               reference == Median(hard.score, Ref)
           IN  /\ reference \in Nat
               /\ Median(Scores(Calibrated(d, c)), Ref) = reference
               /\ \A r \in Cluster(c, "bounded_fit") :
                     /\ bound.score[r] = IF hard.score[r] > reference /\ r \notin hard.adjusted
                                         THEN reference ELSE hard.score[r]
                     /\ r \in bound.adjusted => r \in hard.adjusted \/ hard.score[r] > reference
<1> DEFINE Ref == Cluster(c, "reference_fit")
           hard == HardCapped(d, c)
           bound == BoundedCapped(d, c, hard)
           reference == Median(hard.score, Ref)
           next == Calibrated(d, c)
<1>1. /\ Ref \in SUBSET D /\ IsFiniteSet(Ref)
      /\ Valid(bound.score, Ref) /\ Valid(hard.score, Ref)
      /\ \A r \in Ref : next[r].score = IF r \in Outliers(bound, Ref) THEN Median(bound.score, Ref) ELSE bound.score[r]
  BY CalibratedCluster
<1>2. Valid(hard.score, D)
  BY CapsValid
<1>3. \A r \in Ref : bound.score[r] = hard.score[r]
  <2> HIDE DEF hard
  <2> QED BY <1>2, BoundedCapValid
<1>4. reference \in Nat
  <2> HIDE DEF hard, Ref
  <2> QED BY <1>1, MedianValid DEF Ref
<1>5. Median(bound.score, Ref) = reference
  <2> HIDE DEF bound, hard, Ref
  <2> QED BY <1>3, MedianSame
<1>6. next \in [D -> Row] /\ \A r \in Ref : Scores(next)[r] = next[r].score
  BY <1>1, CalibratedScores DEF Scores
<1>7. Median(Scores(next), Ref) = reference
  <2> HIDE DEF bound, hard, Ref, next
  <2>1. Median(Scores(next), Ref) = Median(bound.score, Ref)
    BY <1>1, <1>6, MedianStays
  <2> QED BY <1>5, <2>1
<1>8. ASSUME NEW r \in Cluster(c, "bounded_fit")
      PROVE  /\ bound.score[r] = IF hard.score[r] > reference /\ r \notin hard.adjusted THEN reference ELSE hard.score[r]
             /\ r \in bound.adjusted => r \in hard.adjusted \/ hard.score[r] > reference
  <2>1. r \in D
    BY DEF Cluster
  <2>2. r \in Outranking(d, c, hard) <=> hard.score[r] > reference /\ r \notin hard.adjusted
    BY DEF Outranking
  <2>3. bound.score[r] = IF r \in Outranking(d, c, hard) THEN reference ELSE hard.score[r]
    BY <2>1 DEF BoundedCapped
  <2>4. bound.adjusted = hard.adjusted \cup Outranking(d, c, hard)
    BY DEF BoundedCapped
  <2> QED BY <2>2, <2>3, <2>4
<1> QED BY <1>4, <1>7, <1>8

\* Whatever was calibrated, a failed row that is over its cap afterwards is there since
\* it is where most rows of its cluster are.
LEMMA OneExplains ==
    ASSUME NEW D, IsFiniteSet(D), NEW c \in [D -> Row], NEW d
    PROVE  Explained(d, Calibrated(d, c))
<1> DEFINE hard == HardCapped(d, c)
           bound == BoundedCapped(d, c, hard)
           next == Calibrated(d, c)
<1>1. /\ next \in [D -> Row]
      /\ \A r \in D : next[r].outcome = c[r].outcome
  BY CalibratedScores
<1>2. \A r \in D : c[r].score \in Nat /\ next[r].score \in Nat
  <2> HIDE DEF next
  <2> QED BY <1>1 DEF Row
<1>3. \A r \in D : hard.score[r] = CapScore(d, c[r])
  BY DEF HardCapped
<1> SUFFICES ASSUME NEW k, NEW r \in Cluster(next, k) \cap OverCap(d, next)
             PROVE  /\ Agreed(d, next, Cluster(next, k), next[r].score)
                    /\ k = "bounded_fit" /\ Cluster(next, "reference_fit") # {} =>
                           next[r].score <= Median(Scores(next), Cluster(next, "reference_fit"))
  BY DEF Explained
<1> DEFINE S == Cluster(c, k)
           mode == next[r].score
<1>4. /\ S \in SUBSET D /\ IsFiniteSet(S) /\ Cluster(next, k) = S
      /\ Valid(bound.score, S) /\ Valid(hard.score, S)
      /\ \A p \in S : next[p].score = IF p \in Outliers(bound, S) THEN Median(bound.score, S) ELSE bound.score[p]
  BY CalibratedCluster
<1>5. r \in S /\ d = CER_DIMENSION /\ mode > ERROR_CER_CAP
  BY <1>4 DEF OverCap
<1>6. ASSUME NEW p \in S, c[p].outcome.hadError PROVE bound.score[p] <= ERROR_CER_CAP
  <2>1. p \in D /\ hard.score[p] \in Nat
    BY <1>4 DEF Valid
  <2>2. hard.score[p] <= ERROR_CER_CAP
    BY <1>2, <1>3, <1>5, <1>6, <2>1 DEF CapScore, ERROR_CER_CAP, MAX_VALID_SCORE
  <2>3. CASE p \in Outranking(d, c, hard)
    <3>1. Cluster(c, "reference_fit") # {} /\ p \in Cluster(c, "bounded_fit")
      BY <2>3 DEF Outranking
    <3>2. LET reference == Median(hard.score, Cluster(c, "reference_fit"))
          IN  /\ reference \in Nat
              /\ bound.score[p] = IF hard.score[p] > reference /\ p \notin hard.adjusted
                                  THEN reference ELSE hard.score[p]
      BY <1>5, <3>1, CalibratedReference
    <3> HIDE DEF hard, bound
    <3> QED BY <2>1, <2>2, <3>2 DEF ERROR_CER_CAP
  <2>4. CASE p \notin Outranking(d, c, hard)
    <3>1. bound.score[p] = hard.score[p]
      BY <2>1, <2>4 DEF BoundedCapped
    <3> QED BY <2>2, <3>1
  <2> QED BY <2>3, <2>4
<1>7. r \in Outliers(bound, S) /\ Median(bound.score, S) = mode
  <2>1. r \in D /\ c[r].outcome.hadError
    BY <1>1, <1>4, <1>5 DEF OverCap
  <2>2. bound.score[r] \in Nat /\ bound.score[r] <= ERROR_CER_CAP
    BY <1>4, <1>5, <1>6, <2>1 DEF Valid
  <2> HIDE DEF bound, next, S
  <2>3. mode = IF r \in Outliers(bound, S) THEN Median(bound.score, S) ELSE bound.score[r]
    BY <1>4, <1>5
  <2> QED BY <1>5, <2>2, <2>3 DEF ERROR_CER_CAP
<1>8. PICK q \in S : Homogeneous(bound.score, S, bound.score[q])
  BY <1>7 DEF Outliers
<1>9. /\ bound.score[q] = mode
      /\ Outliers(bound, S) = {p \in S \ bound.adjusted : bound.score[p] # mode}
  <2> HIDE DEF bound, S, mode
  <2> QED BY <1>4, <1>7, <1>8, OutliersOfMode
<1> DEFINE Sharing == {p \in S : bound.score[p] = mode}
           Stay == {p \in S : next[p].score = mode /\ p \notin OverCap(d, next)}
<1>10. Agreed(d, next, Cluster(next, k), mode)
  <2>1. \A p \in Sharing : p \in D /\ ~ c[p].outcome.hadError
    BY <1>4, <1>5, <1>6 DEF ERROR_CER_CAP, Valid
  <2>2. \A p \in Sharing : p \in Stay
    <3> SUFFICES ASSUME NEW p \in Sharing PROVE p \in Stay
      OBVIOUS
    <3>1. p \in S /\ bound.score[p] = mode /\ p \notin Outliers(bound, S)
      BY <1>9
    <3>2. next[p].score = mode
      <4> HIDE DEF bound, next, S, mode
      <4> QED BY <1>4, <3>1
    <3>3. p \notin OverCap(d, next)
      BY <1>1, <2>1 DEF OverCap
    <3> QED BY <3>1, <3>2, <3>3
  <2>3. Sharing \subseteq Stay /\ Stay \in SUBSET S
    BY <2>2
  <2>4. 2 * Cardinality(Sharing) > Cardinality(S)
    BY <1>8, <1>9 DEF Homogeneous
  <2>5. 2 * Cardinality(Stay) > Cardinality(S)
    <3> HIDE DEF Sharing, Stay, S
    <3>1. IsFiniteSet(Stay)
      BY <1>4, <2>3, FS_Subset
    <3>2. Cardinality(Sharing) <= Cardinality(Stay)
      BY <2>3, <3>1, FS_Subset
    <3>3. Cardinality(Sharing) \in Nat /\ Cardinality(Stay) \in Nat /\ Cardinality(S) \in Nat
      BY <1>4, <2>3, <3>1, FS_Subset, FS_CardinalityType
    <3> QED BY <2>4, <3>2, <3>3
  <2> HIDE DEF next, S, mode
  <2> QED BY <1>4, <1>5, <2>5 DEF Agreed
<1>11. ASSUME k = "bounded_fit", Cluster(next, "reference_fit") # {}
       PROVE  mode <= Median(Scores(next), Cluster(next, "reference_fit"))
  <2> DEFINE Ref == Cluster(c, "reference_fit")
             reference == Median(hard.score, Ref)
  <2>1. Cluster(next, "reference_fit") = Ref /\ Ref # {}
    BY <1>11, CalibratedCluster
  <2>2. /\ reference \in Nat /\ Median(Scores(next), Ref) = reference
        /\ \A p \in S : bound.score[p] = IF hard.score[p] > reference /\ p \notin hard.adjusted
                                         THEN reference ELSE hard.score[p]
    BY <1>5, <1>11, <2>1, CalibratedReference
  <2>3. ASSUME mode > reference PROVE FALSE
    <3>1. q \in D /\ hard.score[q] \in Nat /\ c[q].score \in Nat
      BY <1>2, <1>4 DEF Valid
    <3>2. hard.score[q] = mode /\ q \in hard.adjusted
      <4> HIDE DEF hard, bound, S, mode
      <4> QED BY <1>9, <2>2, <2>3, <3>1
    <3>3. CapScore(d, c[q]) = mode /\ mode # c[q].score
      <4>1. hard.score[q] # c[q].score
        BY <3>2 DEF HardCapped
      <4> QED BY <1>3, <3>1, <3>2, <4>1
    <3>4. mode = MAX_VALID_SCORE
      <4> HIDE DEF mode
      <4> QED BY <1>5, <3>1, <3>3 DEF CapScore, ERROR_CER_CAP, MAX_VALID_SCORE
    <3>5. \E p \in S : bound.score[p] > mode
      BY <1>8, <1>9 DEF Homogeneous
    <3>6. \A p \in S : bound.score[p] \in Nat /\ bound.score[p] <= MAX_VALID_SCORE
      BY <1>4 DEF Valid
    <3> HIDE DEF mode, bound, S
    <3> QED BY <3>4, <3>5, <3>6 DEF MAX_VALID_SCORE
  <2>4. mode \in Nat
    BY <1>2, <1>4, <1>5
  <2> HIDE DEF mode, next, Ref, hard
  <2> QED BY <2>1, <2>2, <2>3, <2>4
<1> QED BY <1>10, <1>11

\* The second run takes every bounded fit to the reference fits or below them.
LEMMA TwoUnder ==
    ASSUME NEW D, IsFiniteSet(D), NEW c \in [D -> Row], NEW d, \A r \in D : c[r].score <= MAX_VALID_SCORE,
           Explained(d, c)
    PROVE  Under(d, Calibrated(d, c))
<1> DEFINE hard == HardCapped(d, c)
           bound == BoundedCapped(d, c, hard)
           next == Calibrated(d, c)
           Ref == Cluster(c, "reference_fit")
           Bounded == Cluster(c, "bounded_fit")
           reference == Median(hard.score, Ref)
<1>0. Cluster(next, "reference_fit") = Ref /\ Cluster(next, "bounded_fit") = Bounded
  BY CalibratedCluster
<1> SUFFICES ASSUME d = CER_DIMENSION, Ref # {}, NEW r \in Bounded
             PROVE  next[r].score <= Median(Scores(next), Ref)
  BY <1>0 DEF Under
<1>1. /\ reference \in Nat /\ Median(Scores(next), Ref) = reference
      /\ \A p \in Bounded : bound.score[p] = IF hard.score[p] > reference /\ p \notin hard.adjusted
                                             THEN reference ELSE hard.score[p]
  BY CalibratedReference
<1>2. reference = Median(Scores(c), Ref)
  BY CapKeepsMedian
<1>3. /\ hard.adjusted = OverCap(d, c)
      /\ \A p \in D : hard.score[p] = IF p \in OverCap(d, c) THEN ERROR_CER_CAP ELSE c[p].score
  BY CapsTakeFailed
<1>4. Bounded \in SUBSET D /\ Valid(bound.score, D) /\ Valid(hard.score, D)
  BY CapsValid, BoundedCapValid DEF Cluster
<1>5. \A p \in Bounded : bound.score[p] <= reference
  <2> SUFFICES ASSUME NEW p \in Bounded PROVE bound.score[p] <= reference
    OBVIOUS
  <2>1. p \in D /\ hard.score[p] \in Nat /\ c[p].score \in Nat
    BY <1>4 DEF Valid, Row
  <2>2. p \in OverCap(d, c) => c[p].score <= reference /\ c[p].score > ERROR_CER_CAP
    BY <1>2, <2>1 DEF Explained, OverCap
  <2>3. p \in hard.adjusted => hard.score[p] <= reference
    <3> HIDE DEF hard, reference
    <3> QED BY <1>1, <1>3, <2>1, <2>2 DEF ERROR_CER_CAP
  <2> HIDE DEF hard, bound, reference
  <2> QED BY <1>1, <2>1, <2>3
<1>6. \E q \in Bounded : next[r].score = bound.score[q]
  <2>1. next[r].score = OutliersCorrected(c, bound)[r]
    BY <1>4, CalibratedScores
  <2> HIDE DEF bound, next
  <2> QED BY <1>4, <2>1, CorrectedFromCluster
<1> HIDE DEF bound, next, reference
<1> QED BY <1>1, <1>5, <1>6

\* A run over a cohort whose bounded fits are in place takes down the failed rows, and
\* corrects outliers; it caps nothing under the reference fits.
LEMMA UnderThenPlain ==
    ASSUME NEW D, IsFiniteSet(D), NEW c \in [D -> Row], NEW d, \A r \in D : c[r].score <= MAX_VALID_SCORE,
           Explained(d, c), Under(d, c)
    PROVE  LET hard == HardCapped(d, c)
               bound == BoundedCapped(d, c, hard)
           IN  /\ bound.adjusted = OverCap(d, c)
               /\ \A r \in D : bound.score[r] = hard.score[r]
<1> DEFINE hard == HardCapped(d, c)
           bound == BoundedCapped(d, c, hard)
           Ref == Cluster(c, "reference_fit")
           reference == Median(hard.score, Ref)
<1>1. /\ hard.adjusted = OverCap(d, c)
      /\ \A p \in D : hard.score[p] = IF p \in OverCap(d, c) THEN ERROR_CER_CAP ELSE c[p].score
  BY CapsTakeFailed
<1>2. Outranking(d, c, hard) = {}
  <2> SUFFICES ASSUME NEW r \in Outranking(d, c, hard) PROVE FALSE
    OBVIOUS
  <2>1. /\ d = CER_DIMENSION /\ Ref # {} /\ r \in Cluster(c, "bounded_fit")
        /\ hard.score[r] > reference /\ r \notin hard.adjusted
    BY DEF Outranking
  <2>2. reference = Median(Scores(c), Ref)
    BY CapKeepsMedian
  <2>3. r \in D
    BY <2>1 DEF Cluster
  <2>4. hard.score[r] = c[r].score /\ c[r].score \in Nat
    BY <1>1, <2>1, <2>3 DEF Row
  <2>5. c[r].score <= reference
    BY <2>1, <2>2 DEF Under
  <2>6. reference \in Nat
    <3>1. reference \in Nat
      BY <2>1, CalibratedReference
    <3> QED BY <3>1
  <2> HIDE DEF hard, reference
  <2> QED BY <2>1, <2>4, <2>5, <2>6
<1>3. \A r \in D : bound.score[r] = hard.score[r]
  BY <1>2 DEF BoundedCapped
<1>4. bound.adjusted = hard.adjusted
  BY <1>2 DEF BoundedCapped
<1> QED BY <1>1, <1>3, <1>4

\* Two scores are no majority between others.
LEMMA TwoScoresUndivided ==
    ASSUME NEW S, NEW score, NEW u \in Nat, NEW v \in Nat, \A r \in S : score[r] = u \/ score[r] = v
    PROVE  ~ Divided(score, S)
<1> SUFFICES ASSUME NEW q \in S, Homogeneous(score, S, score[q]) PROVE FALSE
  BY DEF Divided
<1>1. PICK below \in S : score[below] < score[q]
  BY DEF Homogeneous
<1>2. PICK above \in S : score[above] > score[q]
  BY DEF Homogeneous
<1> QED BY <1>1, <1>2

\* Where the scores are the same a cluster is divided or not.
LEMMA DividedSame ==
    ASSUME NEW S, NEW score, NEW after, \A r \in S : after[r] = score[r]
    PROVE  Divided(after, S) <=> Divided(score, S)
<1>1. \A mode : {r \in S : after[r] = mode} = {r \in S : score[r] = mode}
  OBVIOUS
<1>2. \A mode : Homogeneous(after, S, mode) <=> Homogeneous(score, S, mode)
  BY <1>1 DEF Homogeneous
<1> QED BY <1>2 DEF Divided

\* The third run corrects what can be corrected of the clusters.
LEMMA ThreeUndivided ==
    ASSUME NEW D, IsFiniteSet(D), NEW c \in [D -> Row], NEW d, \A r \in D : c[r].score <= MAX_VALID_SCORE,
           Explained(d, c), Under(d, c)
    PROVE  Undivided(d, Calibrated(d, c))
<1> DEFINE hard == HardCapped(d, c)
           bound == BoundedCapped(d, c, hard)
           next == Calibrated(d, c)
           then == HardCapped(d, next)
<1>1. /\ next \in [D -> Row]
      /\ \A r \in D : next[r].outcome = c[r].outcome /\ next[r].score <= MAX_VALID_SCORE
  BY CalibratedScores
<1>2. \A r \in D : then.score[r] = IF r \in OverCap(d, next) THEN ERROR_CER_CAP ELSE next[r].score
  <2> HIDE DEF next
  <2> QED BY <1>1, CapsTakeFailed
<1>3. \A r \in D : Scores(next)[r] = next[r].score
  BY <1>1 DEF Scores
<1>4. \A r \in D : hard.score[r] = IF r \in OverCap(d, c) THEN ERROR_CER_CAP ELSE c[r].score
  BY CapsTakeFailed
<1>5. bound.adjusted = OverCap(d, c) /\ \A r \in D : bound.score[r] = hard.score[r]
  BY UnderThenPlain
<1> SUFFICES ASSUME NEW k
             PROVE  ~ Divided(Scores(next), Cluster(next, k)) /\ ~ Divided(then.score, Cluster(next, k))
  BY DEF Undivided
<1> DEFINE S == Cluster(c, k)
<1>6. /\ S \in SUBSET D /\ IsFiniteSet(S) /\ Cluster(next, k) = S /\ Valid(bound.score, S)
      /\ \A r \in S : next[r].score = IF r \in Outliers(bound, S) THEN Median(bound.score, S) ELSE bound.score[r]
  BY CalibratedCluster
<1>7. CASE Divided(bound.score, S)
  <2>1. PICK q \in S : Homogeneous(bound.score, S, bound.score[q])
    BY <1>7 DEF Divided
  <2>2. /\ Median(bound.score, S) = bound.score[q]
        /\ Outliers(bound, S) = {r \in S \ bound.adjusted : bound.score[r] # bound.score[q]}
    <3> HIDE DEF bound, S
    <3> QED BY <1>6, <2>1, OutliersOfMode
  <2>3. \A r \in S : next[r].score = bound.score[q] \/ next[r].score = ERROR_CER_CAP
    <3> SUFFICES ASSUME NEW r \in S PROVE next[r].score = bound.score[q] \/ next[r].score = ERROR_CER_CAP
      OBVIOUS
    <3>1. r \in OverCap(d, c) => bound.score[r] = ERROR_CER_CAP
      BY <1>4, <1>5, <1>6
    <3> HIDE DEF bound, next, S
    <3> QED BY <1>5, <1>6, <2>2, <3>1
  <2>4. \A r \in S : /\ Scores(next)[r] = bound.score[q] \/ Scores(next)[r] = ERROR_CER_CAP
                     /\ then.score[r] = bound.score[q] \/ then.score[r] = ERROR_CER_CAP
    BY <1>2, <1>3, <1>6, <2>3
  <2>5. bound.score[q] \in Nat /\ ERROR_CER_CAP \in Nat
    BY <1>6 DEF Valid, ERROR_CER_CAP
  <2> HIDE DEF bound, next, S, then
  <2>6. ~ Divided(Scores(next), S) /\ ~ Divided(then.score, S)
    BY <2>4, <2>5, TwoScoresUndivided
  <2> QED BY <1>6, <2>6
<1>8. CASE ~ Divided(bound.score, S)
  <2>1. Outliers(bound, S) = {}
    BY <1>8 DEF Outliers, Divided
  <2>2. \A r \in S : next[r].score = bound.score[r]
    <3> HIDE DEF bound, next, S
    <3> QED BY <1>6, <2>1
  <2>3. \A r \in S : r \notin OverCap(d, next)
    <3> SUFFICES ASSUME NEW r \in S, r \in OverCap(d, next) PROVE FALSE
      OBVIOUS
    <3>1. /\ r \in D /\ d = CER_DIMENSION /\ c[r].outcome.hadError
          /\ bound.score[r] > ERROR_CER_CAP
      BY <1>1, <1>6, <2>2 DEF OverCap
    <3>2. bound.score[r] = IF r \in OverCap(d, c) THEN ERROR_CER_CAP ELSE c[r].score
      BY <1>4, <1>5, <3>1
    <3>3. r \in OverCap(d, c) <=> c[r].score > ERROR_CER_CAP
      BY <3>1 DEF OverCap
    <3> HIDE DEF bound
    <3> QED BY <3>1, <3>2, <3>3 DEF ERROR_CER_CAP
  <2>4. \A r \in S : Scores(next)[r] = bound.score[r] /\ then.score[r] = bound.score[r]
    <3> HIDE DEF bound, next, S, then
    <3> QED BY <1>2, <1>3, <1>6, <2>2, <2>3
  <2> HIDE DEF bound, next, S, then
  <2>5. ~ Divided(Scores(next), S) /\ ~ Divided(then.score, S)
    BY <1>8, <2>4, DividedSame
  <2> QED BY <1>6, <2>5
<1> QED BY <1>7, <1>8

\* The next one only takes the failed rows down that have been corrected past their cap.
LEMMA FourPlain ==
    ASSUME NEW D, IsFiniteSet(D), NEW c \in [D -> Row], NEW d, \A r \in D : c[r].score <= MAX_VALID_SCORE,
           Explained(d, c), Under(d, c), Undivided(d, c)
    PROVE  /\ \A r \in D : Calibrated(d, c)[r].score = IF r \in OverCap(d, c) THEN ERROR_CER_CAP ELSE c[r].score
           /\ OverCap(d, Calibrated(d, c)) = {}
           /\ OverCap(d, c) = {} => Calibrated(d, c) = c
<1> DEFINE hard == HardCapped(d, c)
           bound == BoundedCapped(d, c, hard)
           next == Calibrated(d, c)
<1>1. \A r \in D : hard.score[r] = IF r \in OverCap(d, c) THEN ERROR_CER_CAP ELSE c[r].score
  BY CapsTakeFailed
<1>2. \A r \in D : bound.score[r] = hard.score[r]
  BY UnderThenPlain
<1>3. ASSUME NEW r \in D
      PROVE  next[r].score = IF r \in OverCap(d, c) THEN ERROR_CER_CAP ELSE c[r].score
  <2> DEFINE k == ExecutionCluster(c[r].outcome)
             S == Cluster(c, k)
  <2>1. r \in S
    BY DEF Cluster
  <2>2. /\ S \in SUBSET D
        /\ \A p \in S : next[p].score = IF p \in Outliers(bound, S) THEN Median(bound.score, S) ELSE bound.score[p]
    <3> HIDE DEF k
    <3> QED BY CalibratedCluster
  <2>3. ~ Divided(hard.score, S)
    BY DEF Undivided
  <2>4. \A p \in S : bound.score[p] = hard.score[p]
    BY <1>2, <2>2
  <2> HIDE DEF k, S, bound, hard, next
  <2>5. ~ Divided(bound.score, S)
    BY <2>3, <2>4, DividedSame
  <2>6. Outliers(bound, S) = {}
    BY <2>5 DEF Outliers, Divided
  <2>7. next[r].score = bound.score[r]
    BY <2>1, <2>2, <2>6
  <2> QED BY <1>1, <1>2, <2>7
<1>4. next \in [D -> Row] /\ \A r \in D : next[r].outcome = c[r].outcome
  BY CalibratedScores
<1>5. OverCap(d, next) = {}
  <2> SUFFICES ASSUME NEW r \in OverCap(d, next) PROVE FALSE
    OBVIOUS
  <2>1. r \in D /\ d = CER_DIMENSION /\ c[r].outcome.hadError /\ next[r].score > ERROR_CER_CAP
    BY <1>4 DEF OverCap
  <2>2. r \in OverCap(d, c) <=> c[r].score > ERROR_CER_CAP
    BY <2>1 DEF OverCap
  <2> HIDE DEF next
  <2> QED BY <1>3, <2>1, <2>2 DEF ERROR_CER_CAP
<1>6. ASSUME OverCap(d, c) = {} PROVE next = c
  <2>1. \A r \in D : next[r] = [c[r] EXCEPT !.score = OutliersCorrected(c, bound)[r]]
    BY DEF Calibrated
  <2>2. \A r \in D : next[r].score = c[r].score
    BY <1>3, <1>6
  <2>3. \A r \in D : next[r] = c[r]
    <3> SUFFICES ASSUME NEW r \in D PROVE next[r] = c[r]
      OBVIOUS
    <3>1. PICK x : next[r] = [c[r] EXCEPT !.score = x]
      BY <2>1
    <3>2. c[r] \in Row /\ next[r] \in Row
      BY <1>4
    <3>3. next[r].score = c[r].score /\ next[r].outcome = c[r].outcome
      BY <1>4, <2>2
    <3> HIDE DEF next
    <3>4. next[r].kind = c[r].kind
      BY <3>1, <3>2 DEF Row
    <3> QED BY <3>2, <3>3, <3>4 DEF Row
  <2> HIDE DEF next
  <2> QED BY <1>4, <2>3
<1> QED BY <1>3, <1>5, <1>6

\* What holds of a cohort after so many calibrations in a row.
SettlingInv ==
    /\ CohortInv
    /\ calibrations >= 1 => Explained(dimension, cohort)
    /\ calibrations >= 2 => Under(dimension, cohort)
    /\ calibrations >= 3 \/ (calibrations >= 2 /\ dimension # CER_DIMENSION) => Undivided(dimension, cohort)
    /\ calibrations >= 4 => OverCap(dimension, cohort) = {}

\* Each calibration adds its part.
LEMMA SettlingKeeps ==
    ASSUME SettlingInv, RunCohortCalibration
    PROVE  SettlingInv'
<1>1. IsFiniteSet(DOMAIN cohort) /\ cohort \in [DOMAIN cohort -> Row]
  BY CohortIsFunction DEF SettlingInv, CohortInv
<1>2. /\ calibrations \in Nat /\ calibrations' = calibrations + 1
      /\ dimension' = dimension /\ cohort' = Calibrated(dimension, cohort)
  BY DEF SettlingInv, CohortInv, RunCohortCalibration
<1>3. CohortInv'
  BY CalibrationKeeps DEF SettlingInv
<1>4. calibrations >= 1 => \A r \in DOMAIN cohort : cohort[r].score <= MAX_VALID_SCORE
  BY <1>2 DEF SettlingInv, CohortInv, NeverSix
<1>5. Explained(dimension', cohort')
  BY <1>1, <1>2, OneExplains
<1>6. calibrations >= 1 => Under(dimension', cohort')
  BY <1>1, <1>2, <1>4, TwoUnder DEF SettlingInv
<1>7. dimension # CER_DIMENSION => Under(dimension, cohort)
  BY DEF Under
<1>8. calibrations >= 2 \/ (calibrations >= 1 /\ dimension # CER_DIMENSION) => Undivided(dimension', cohort')
  <2> HAVE calibrations >= 2 \/ (calibrations >= 1 /\ dimension # CER_DIMENSION)
  <2>1. calibrations >= 1 /\ Under(dimension, cohort)
    BY <1>2, <1>7 DEF SettlingInv
  <2>2. Explained(dimension, cohort)
    BY <2>1 DEF SettlingInv
  <2> QED BY <1>1, <1>2, <1>4, <2>1, <2>2, ThreeUndivided
<1>9. calibrations >= 3 => OverCap(dimension', cohort') = {}
  <2> HAVE calibrations >= 3
  <2>1. calibrations >= 1 /\ calibrations >= 2
    BY <1>2
  <2>2. Explained(dimension, cohort) /\ Under(dimension, cohort) /\ Undivided(dimension, cohort)
    BY <2>1 DEF SettlingInv
  <2> QED BY <1>1, <1>2, <1>4, <2>1, <2>2, FourPlain
<1>10. /\ calibrations' >= 2 => calibrations >= 1
       /\ calibrations' >= 3 \/ (calibrations' >= 2 /\ dimension' # CER_DIMENSION)
              => calibrations >= 2 \/ (calibrations >= 1 /\ dimension # CER_DIMENSION)
       /\ calibrations' >= 4 => calibrations >= 3
  BY <1>2
<1> QED BY <1>3, <1>5, <1>6, <1>8, <1>9, <1>10 DEF SettlingInv

\* The stages, in every behaviour.
LEMMA SettlingInvariant == CalibrationSpec => []SettlingInv
<1>1. CalibrationInit => SettlingInv
  BY DEF CalibrationInit, SettlingInv, CohortInv, NeverSix
<1>2. SettlingInv /\ CohortInv' /\ [CalibrationNext]_calibrationVars => SettlingInv'
  <2> SUFFICES ASSUME SettlingInv, CohortInv', [CalibrationNext]_calibrationVars PROVE SettlingInv'
    OBVIOUS
  <2>1. ASSUME calibrations' = 0 PROVE SettlingInv'
    BY <2>1 DEF SettlingInv
  <2>2. ASSUME NEW o \in DOMAIN Outcomes, NEW v \in RawScores, RowEvaluated(o, v) PROVE SettlingInv'
    BY <2>1, <2>2 DEF RowEvaluated
  <2>3. ASSUME NEW r \in DOMAIN cohort, NEW v \in RawScores, RowEvaluatedAgain(r, v) PROVE SettlingInv'
    BY <2>1, <2>3 DEF RowEvaluatedAgain
  <2>4. CASE RunCohortCalibration
    BY <2>4, SettlingKeeps
  <2>5. CASE UNCHANGED calibrationVars
    BY <2>5 DEF calibrationVars, SettlingInv
  <2> QED BY <2>2, <2>3, <2>4, <2>5 DEF CalibrationNext
<1> QED BY <1>1, <1>2, CohortInvariant, PTL DEF CalibrationSpec

\* CalibrationSettles for every cohort, whatever its scores, outcomes and consensus:
\* calibrating a cohort again and again, as every batch does, comes to an end.  After two
\* runs no bounded fit is over the reference fits and the other dimensions stay as they
\* are; after four the scores of the execution do.
THEOREM CalibrationSettlesHolds == CalibrationSpec => []CalibrationSettles
<1>1. SettlingInv => CalibrationSettles
  <2> SUFFICES ASSUME SettlingInv, calibrations >= 2 PROVE CalibrationSettles
    BY DEF CalibrationSettles, SettlingInv, CohortInv
  <2>1. IsFiniteSet(DOMAIN cohort) /\ cohort \in [DOMAIN cohort -> Row]
    BY CohortIsFunction DEF SettlingInv, CohortInv
  <2>2. /\ calibrations \in Nat /\ calibrations >= 1
        /\ \A r \in DOMAIN cohort : cohort[r].score <= MAX_VALID_SCORE
        /\ Explained(dimension, cohort) /\ Under(dimension, cohort)
    BY DEF SettlingInv, CohortInv, NeverSix
  <2>3. UnderReference
    <3>1. Stored = Scores(cohort)
      BY DEF Stored, Scores
    <3>2. \A r \in Cluster(cohort, "bounded_fit") : Stored[r] = cohort[r].score
      BY DEF Stored, Cluster
    <3> QED BY <2>2, <3>1, <3>2 DEF Under, UnderReference
  <2>4. Undivided(dimension, cohort) /\ OverCap(dimension, cohort) = {} => Stable
    BY <2>1, <2>2, FourPlain DEF Stable
  <2>5. dimension # CER_DIMENSION => Stable
    <3> HAVE dimension # CER_DIMENSION
    <3>1. OverCap(dimension, cohort) = {}
      BY DEF OverCap
    <3> QED BY <2>2, <2>4, <3>1 DEF SettlingInv
  <2>6. calibrations >= 4 => Stable
    BY <2>2, <2>4 DEF SettlingInv
  <2> QED BY <2>3, <2>5, <2>6 DEF CalibrationSettles
<1> QED BY <1>1, SettlingInvariant, PTL

----------------------------------------------------------------------------
(***************************************************************************)
(* The pre-evaluation, for any rubric, notebooks, sections and scores.     *)
(***************************************************************************)

LibrariesOption == <<"following_instructions", "noDisallowed">>

\* What the last pass makes of a selection.
Grounded(sel, f) ==
    /\ <<"code_formatting", IF f.alphabetized THEN "notAlphabetized" ELSE "alphabetized">> \notin sel
    /\ f.names > 0 => <<"code_formatting", "namingGood">> \notin sel
    /\ f.unused => <<"coding_concept", "importsNotUsed">> \in sel
    /\ f.markdown /\ ~f.interpretation => <<"general_feedback", "noInterpretation">> \in sel
    /\ f.markdown /\ ~f.citations => <<"academic_scholarship", "noCitations">> \in sel

PostShape(s) == DOMAIN s = {"sel", "notes", "fixes"} /\ DOMAIN s.notes = Categories

\* What holds of an envelope before its n-th pass.
CorrectedBefore(s, f, n) ==
    /\ PostShape(s)
    /\ n > 3 => (f.foreign <=> LibrariesOption \notin s.sel)
    /\ n > 4 => \A c \in Categories : s.notes[c] \cap PlagiarismKinds = {}
    /\ n > 5 => \A c \in Categories : s.notes[c] \cap FillerKinds = {}
    /\ n > 6 => \A c \in Categories : s.notes[c] # {}
    /\ n > 7 => Grounded(s.sel, f)

EvalFields == {"pc", "facts", "injected", "chunk", "scoring", "cat", "retry", "sel", "notes", "flagged",
               "sections", "post", "pass", "confidence"}

EvalShape ==
    /\ DOMAIN eval = EvalFields
    /\ eval.facts \in Facts
    /\ eval.scoring \in [key : {"exact", "cased", "unknown", "none"}, points : 0 .. 8]
    /\ DOMAIN eval.notes = Categories

\* The order of the rubric's turns.
TurnsInOrder ==
    /\ eval.pc \in {"called", "screen", "screenFixed", "markers", "score", "critique"} => eval.cat = 1
    /\ eval.pc = "turn" => eval.cat \in 1 .. Len(RubricKeys)

FlagLeavesMark == eval.flagged => Marked(eval.notes)

PassesApplied ==
    /\ eval.pc = "correct" => eval.pass \in 1 .. 7 /\ CorrectedBefore(eval.post, eval.facts, eval.pass)
    /\ eval.pc \in {"confidence", "done"} => CorrectedBefore(eval.post, eval.facts, 8)
    /\ eval.pc \in {"correct", "confidence", "done"} =>
          (eval.scoring.key = "exact" => eval.scoring.points <= QualityCap(eval.facts))
    /\ eval.pc \notin {"correct", "confidence", "done"} => eval.pass = 1

EvaluationInv == EvalShape /\ TurnsInOrder /\ FlagLeavesMark /\ PassesApplied /\ FlaggedNeedsReview

\* Checking boxes adds pairs of that category and leaves the notes.
LEMMA CheckAdds ==
    ASSUME NEW s, PostShape(s), NEW c, NEW options
    PROVE  LET t == Check(s, c, options) IN
           /\ PostShape(t) /\ t.notes = s.notes
           /\ t.sel = s.sel \cup {<<c, o>> : o \in options}
<1> DEFINE new == {<<c, o>> : o \in options} \ s.sel
           n == s.fixes + Cardinality(new)
<1>1. Check(s, c, options) = [s EXCEPT !.sel = s.sel \cup new, !.fixes = n]
  BY DEF Check, PostShape
<1> HIDE DEF n
<1>2. /\ PostShape(Check(s, c, options)) /\ Check(s, c, options).notes = s.notes
      /\ Check(s, c, options).sel = s.sel \cup new
  <2> HIDE DEF new
  <2> QED
    BY <1>1 DEF PostShape
<1>3. s.sel \cup new = s.sel \cup {<<c, o>> : o \in options}
  OBVIOUS
<1> QED
  BY <1>2, <1>3

\* Unchecking a box removes that pair and leaves the notes.
LEMMA UncheckRemoves ==
    ASSUME NEW s, PostShape(s), NEW c, NEW o
    PROVE  LET t == Uncheck(s, c, o) IN
           /\ PostShape(t) /\ t.notes = s.notes
           /\ t.sel = s.sel \ {<<c, o>>}
<1> DEFINE n == s.fixes + 1
           rest == s.sel \ {<<c, o>>}
<1>1. CASE <<c, o>> \in s.sel
  <2>1. Uncheck(s, c, o) = [s EXCEPT !.sel = rest, !.fixes = n]
    BY <1>1 DEF Uncheck, PostShape
  <2> HIDE DEF n, rest
  <2>2. PostShape(Uncheck(s, c, o)) /\ Uncheck(s, c, o).notes = s.notes /\ Uncheck(s, c, o).sel = rest
    BY <2>1 DEF PostShape
  <2> QED
    BY <2>2 DEF rest
<1>2. CASE <<c, o>> \notin s.sel
  <2>1. Uncheck(s, c, o) = s
    BY <1>2 DEF Uncheck
  <2>2. s.sel \ {<<c, o>>} = s.sel
    BY <1>2
  <2> QED
    BY <2>1, <2>2
<1> QED
  BY <1>1, <1>2

\* Replacing notes leaves the selection.
LEMMA SetNotesSets ==
    ASSUME NEW s, PostShape(s), NEW cs, NEW note
    PROVE  LET t == SetNotes(s, cs, note) IN
           /\ PostShape(t) /\ t.sel = s.sel
           /\ \A c \in Categories : t.notes[c] = IF c \in cs THEN note[c] ELSE s.notes[c]
<1> DEFINE notes == [c \in Categories |-> IF c \in cs THEN note[c] ELSE s.notes[c]]
           n == s.fixes + Cardinality(cs)
<1>1. SetNotes(s, cs, note) = [s EXCEPT !.notes = notes, !.fixes = n]
  BY DEF SetNotes, PostShape
<1>2. DOMAIN notes = Categories /\ \A c \in Categories : notes[c] = IF c \in cs THEN note[c] ELSE s.notes[c]
  OBVIOUS
<1> HIDE DEF n, notes
<1>3. PostShape(SetNotes(s, cs, note)) /\ SetNotes(s, cs, note).sel = s.sel /\ SetNotes(s, cs, note).notes = notes
  BY <1>1, <1>2 DEF PostShape
<1> QED
  BY <1>2, <1>3

\* The first two passes only add boxes and notes.
LEMMA FirstPasses ==
    ASSUME NEW s, PostShape(s), NEW rating
    PROVE  PostShape(FillEmpty(s, rating)) /\ PostShape(SyncTextareas(s))
<1>1. PostShape(SyncTextareas(s))
  BY CheckAdds DEF SyncTextareas
<1> DEFINE Empty(c) == Chosen(s, c) = {} /\ s.notes[c] = {}
           noted == SetNotes(s, {c \in {"genai", "function_calling"} : Empty(c)}, [c \in Categories |-> {"generated"}])
           called == IF Empty("function_calling")
                     THEN Check(noted, "function_calling", {"keywordArgs", "multiline"}) ELSE noted
           rated == IF Empty("general_feedback") THEN Check(called, "general_feedback", {rating}) ELSE called
           filled == IF Empty("following_instructions")
                     THEN Check(rated, "following_instructions", {"noDisallowed"}) ELSE rated
<1>2. FillEmpty(s, rating) = filled
  BY DEF FillEmpty
<1> HIDE DEF Empty
<1>3. PostShape(noted)
  BY SetNotesSets
<1> HIDE DEF noted
<1>4. PostShape(called)
  BY <1>3, CheckAdds
<1> HIDE DEF called
<1>5. PostShape(rated)
  BY <1>4, CheckAdds
<1> HIDE DEF rated
<1>6. PostShape(filled)
  BY <1>5, CheckAdds
<1> QED
  BY <1>1, <1>2, <1>6

\* The third pass settles what is said of the libraries.
LEMMA LibrariesPass ==
    ASSUME NEW s, PostShape(s), NEW f
    PROVE  LET t == ScanLibraries(s, f) IN
           PostShape(t) /\ (f.foreign <=> LibrariesOption \notin t.sel)
<1>1. CASE f.foreign
  <2>1. ScanLibraries(s, f) = Uncheck(s, "following_instructions", "noDisallowed")
    BY <1>1 DEF ScanLibraries
  <2> QED
    BY <1>1, <2>1, UncheckRemoves DEF LibrariesOption
<1>2. CASE ~f.foreign
  <2>1. ScanLibraries(s, f) = Check(s, "following_instructions", {"noDisallowed"})
    BY <1>2 DEF ScanLibraries
  <2>2. LibrariesOption \in {<<"following_instructions", o>> : o \in {"noDisallowed"}}
    BY DEF LibrariesOption
  <2> QED
    BY <1>2, <2>1, <2>2, CheckAdds
<1> QED
  BY <1>1, <1>2

\* The next three passes only replace notes: what they strip is gone, and the
\* last of them leaves no note empty.
LEMMA NotesPasses ==
    ASSUME NEW s, PostShape(s)
    PROVE  /\ LET t == StripPlagiarism(s) IN
              /\ PostShape(t) /\ t.sel = s.sel
              /\ \A c \in Categories : t.notes[c] \cap PlagiarismKinds = {}
           /\ LET t == StripFiller(s) IN
              /\ PostShape(t) /\ t.sel = s.sel
              /\ \A c \in Categories : /\ t.notes[c] \cap FillerKinds = {}
                                       /\ s.notes[c] \cap PlagiarismKinds = {} => t.notes[c] \cap PlagiarismKinds = {}
           /\ LET t == FillTextareas(s) IN
              /\ PostShape(t) /\ t.sel = s.sel
              /\ \A c \in Categories : t.notes[c] # {} /\ (t.notes[c] = s.notes[c] \/ t.notes[c] = {"generated"})
<1>1. LET t == StripPlagiarism(s) IN
      /\ PostShape(t) /\ t.sel = s.sel
      /\ \A c \in Categories : t.notes[c] \cap PlagiarismKinds = {}
  <2> DEFINE cs == {c \in Categories : s.notes[c] \cap PlagiarismKinds # {}}
             note == [c \in Categories |-> s.notes[c] \ PlagiarismKinds]
             t == SetNotes(s, cs, note)
  <2>1. StripPlagiarism(s) = t
    BY DEF StripPlagiarism
  <2>2. /\ PostShape(t) /\ t.sel = s.sel
        /\ \A c \in Categories : t.notes[c] = IF c \in cs THEN note[c] ELSE s.notes[c]
    <3> HIDE DEF cs, note
    <3> QED
      BY SetNotesSets
  <2> HIDE DEF t
  <2> QED
    BY <2>1, <2>2
<1>2. LET t == StripFiller(s) IN
      /\ PostShape(t) /\ t.sel = s.sel
      /\ \A c \in Categories : /\ t.notes[c] \cap FillerKinds = {}
                               /\ s.notes[c] \cap PlagiarismKinds = {} => t.notes[c] \cap PlagiarismKinds = {}
  <2> DEFINE cs == {c \in Categories : s.notes[c] \cap FillerKinds # {}}
             note == [c \in Categories |->
                        IF s.notes[c] \subseteq FillerKinds THEN {"default"} ELSE s.notes[c] \ FillerKinds]
             t == SetNotes(s, cs, note)
  <2>1. StripFiller(s) = t
    BY DEF StripFiller
  <2>2. /\ PostShape(t) /\ t.sel = s.sel
        /\ \A c \in Categories : t.notes[c] = IF c \in cs THEN note[c] ELSE s.notes[c]
    <3> HIDE DEF cs, note
    <3> QED
      BY SetNotesSets
  <2>3. {"default"} \cap FillerKinds = {} /\ {"default"} \cap PlagiarismKinds = {}
    BY DEF FillerKinds, PlagiarismKinds
  <2> HIDE DEF t
  <2> QED
    BY <2>1, <2>2, <2>3
<1>3. LET t == FillTextareas(s) IN
      /\ PostShape(t) /\ t.sel = s.sel
      /\ \A c \in Categories : t.notes[c] # {} /\ (t.notes[c] = s.notes[c] \/ t.notes[c] = {"generated"})
  <2> DEFINE cs == {c \in Categories : s.notes[c] \subseteq {"short"}}
             note == [c \in Categories |-> {"generated"}]
             t == SetNotes(s, cs, note)
  <2>1. FillTextareas(s) = t
    BY DEF FillTextareas
  <2>2. /\ PostShape(t) /\ t.sel = s.sel
        /\ \A c \in Categories : t.notes[c] = IF c \in cs THEN note[c] ELSE s.notes[c]
    <3> HIDE DEF cs, note
    <3> QED
      BY SetNotesSets
  <2> HIDE DEF t
  <2> QED
    BY <2>1, <2>2
<1> QED
  BY <1>1, <1>2, <1>3

\* The last pass leaves the notes, touches nothing the libraries say, and makes
\* the selection agree with the evidence.
LEMMA GroundPass ==
    ASSUME NEW s, PostShape(s), NEW f \in Facts
    PROVE  LET t == Ground(s, f) IN
           /\ PostShape(t) /\ t.notes = s.notes
           /\ LibrariesOption \in t.sel <=> LibrariesOption \in s.sel
           /\ Grounded(t.sel, f)
<1> DEFINE cf == "code_formatting"
           Flip(from, to) == IF <<cf, from>> \in s.sel
                             THEN [s EXCEPT !.sel = (@ \ {<<cf, from>>}) \cup {<<cf, to>>}, !.fixes = @ + 2]
                             ELSE s
           ordered == IF f.alphabetized THEN Flip("notAlphabetized", "alphabetized")
                      ELSE Flip("alphabetized", "notAlphabetized")
           named == IF f.names > 0 THEN Uncheck(ordered, cf, "namingGood") ELSE ordered
           used == IF f.unused THEN Check(named, "coding_concept", {"importsNotUsed"}) ELSE named
           read == IF f.markdown /\ ~f.interpretation
                   THEN Check(used, "general_feedback", {"noInterpretation"}) ELSE used
           cited == IF f.markdown /\ ~f.citations THEN Check(read, "academic_scholarship", {"noCitations"}) ELSE read
           Wrong == <<"code_formatting", IF f.alphabetized THEN "notAlphabetized" ELSE "alphabetized">>
           Unused == <<"coding_concept", "importsNotUsed">>
           Unread == <<"general_feedback", "noInterpretation">>
           Uncited == <<"academic_scholarship", "noCitations">>
           Naming == <<"code_formatting", "namingGood">>
<1>0. Ground(s, f) = cited
  BY DEF Ground
<1>1. ASSUME NEW from, NEW to, from # to, from # "noDisallowed"
      PROVE  /\ PostShape(Flip(from, to)) /\ Flip(from, to).notes = s.notes
             /\ <<cf, from>> \notin Flip(from, to).sel
             /\ LibrariesOption \in Flip(from, to).sel <=> LibrariesOption \in s.sel
  <2>1. CASE <<cf, from>> \notin s.sel
    BY <2>1
  <2>2. CASE <<cf, from>> \in s.sel
    <3> DEFINE sel == (s.sel \ {<<cf, from>>}) \cup {<<cf, to>>}
               n == s.fixes + 2
    <3>1. Flip(from, to) = [s EXCEPT !.sel = sel, !.fixes = n]
      BY <2>2 DEF PostShape
    <3>2. <<cf, from>> \notin sel /\ (LibrariesOption \in sel <=> LibrariesOption \in s.sel)
      BY <1>1 DEF LibrariesOption
    <3> HIDE DEF sel, n, Flip
    <3> QED
      BY <3>1, <3>2 DEF PostShape
  <2> QED
    BY <2>1, <2>2
<1>2. PostShape(ordered) /\ ordered.notes = s.notes /\ Wrong \notin ordered.sel
      /\ (LibrariesOption \in ordered.sel <=> LibrariesOption \in s.sel)
  <2>1. CASE f.alphabetized
    <3> HIDE DEF Flip
    <3> QED
      BY <1>1, <2>1
  <2>2. CASE ~f.alphabetized
    <3> HIDE DEF Flip
    <3> QED
      BY <1>1, <2>2
  <2> QED
    BY <2>1, <2>2
<1> HIDE DEF ordered, Flip
<1>3. /\ PostShape(named) /\ named.notes = s.notes /\ Wrong \notin named.sel
      /\ (LibrariesOption \in named.sel <=> LibrariesOption \in s.sel)
      /\ f.names > 0 => Naming \notin named.sel
  <2>1. CASE f.names > 0
    <3>1. named = Uncheck(ordered, cf, "namingGood")
      BY <2>1
    <3>2. PostShape(named) /\ named.notes = s.notes /\ named.sel = ordered.sel \ {Naming}
      BY <1>2, <3>1, UncheckRemoves
    <3> HIDE DEF named
    <3> QED
      BY <1>2, <3>2 DEF LibrariesOption
  <2>2. CASE ~(f.names > 0)
    BY <1>2, <2>2
  <2> QED
    BY <2>1, <2>2
<1> HIDE DEF named
<1>4. ASSUME NEW r, NEW t, NEW c, NEW o, PostShape(r), t = Check(r, c, {o}), c \notin {"code_formatting", "following_instructions"}
      PROVE  /\ PostShape(t) /\ t.notes = r.notes /\ <<c, o>> \in t.sel
             /\ Wrong \notin r.sel => Wrong \notin t.sel
             /\ Naming \notin r.sel => Naming \notin t.sel
             /\ (LibrariesOption \in t.sel <=> LibrariesOption \in r.sel)
             /\ r.sel \subseteq t.sel
  <2>1. PostShape(t) /\ t.notes = r.notes /\ t.sel = r.sel \cup {<<c, p>> : p \in {o}}
    BY <1>4, CheckAdds
  <2>2. t.sel = r.sel \cup {<<c, o>>}
    BY <2>1
  <2>3. <<c, o>> # Wrong /\ <<c, o>> # Naming /\ <<c, o>> # LibrariesOption
    BY <1>4 DEF LibrariesOption
  <2> QED
    BY <2>1, <2>2, <2>3
<1>5. /\ PostShape(used) /\ used.notes = s.notes /\ Wrong \notin used.sel
      /\ (LibrariesOption \in used.sel <=> LibrariesOption \in s.sel)
      /\ f.names > 0 => Naming \notin used.sel
      /\ f.unused => Unused \in used.sel
  <2>1. CASE f.unused
    BY <1>3, <1>4, <2>1
  <2>2. CASE ~f.unused
    BY <1>3, <2>2
  <2> QED
    BY <2>1, <2>2
<1> HIDE DEF used
<1>6. /\ PostShape(read) /\ read.notes = s.notes /\ Wrong \notin read.sel
      /\ (LibrariesOption \in read.sel <=> LibrariesOption \in s.sel)
      /\ f.names > 0 => Naming \notin read.sel
      /\ f.unused => Unused \in read.sel
      /\ f.markdown /\ ~f.interpretation => Unread \in read.sel
  <2>1. CASE f.markdown /\ ~f.interpretation
    BY <1>4, <1>5, <2>1
  <2>2. CASE ~(f.markdown /\ ~f.interpretation)
    BY <1>5, <2>2
  <2> QED
    BY <2>1, <2>2
<1> HIDE DEF read
<1>7. /\ PostShape(cited) /\ cited.notes = s.notes /\ Wrong \notin cited.sel
      /\ (LibrariesOption \in cited.sel <=> LibrariesOption \in s.sel)
      /\ f.names > 0 => Naming \notin cited.sel
      /\ f.unused => Unused \in cited.sel
      /\ f.markdown /\ ~f.interpretation => Unread \in cited.sel
      /\ f.markdown /\ ~f.citations => Uncited \in cited.sel
  <2>1. CASE f.markdown /\ ~f.citations
    BY <1>4, <1>6, <2>1
  <2>2. CASE ~(f.markdown /\ ~f.citations)
    BY <1>6, <2>2
  <2> QED
    BY <2>1, <2>2
<1> HIDE DEF cited
<1>8. Grounded(cited.sel, f)
  BY <1>7 DEF Grounded
<1> QED
  BY <1>0, <1>7, <1>8

\* One pass after the other: what the earlier ones have settled stays.
LEMMA PassApplies ==
    ASSUME NEW s, NEW f \in Facts, NEW n \in 1 .. 7, NEW rating, CorrectedBefore(s, f, n)
    PROVE  CorrectedBefore(Pass(PassOrder[n], s, f, rating), f, n + 1)
<1> DEFINE t == Pass(PassOrder[n], s, f, rating)
<1>0. PostShape(s)
  BY DEF CorrectedBefore
<1>1. ASSUME n = 1 PROVE CorrectedBefore(t, f, 2)
  <2>1. t = FillEmpty(s, rating)
    BY <1>1 DEF PassOrder, Pass
  <2>2. PostShape(t)
    BY <1>0, <2>1, FirstPasses
  <2> HIDE DEF t
  <2> QED
    BY <1>1, <2>2 DEF CorrectedBefore
<1>2. ASSUME n = 2 PROVE CorrectedBefore(t, f, 3)
  <2>1. t = SyncTextareas(s)
    BY <1>2 DEF PassOrder, Pass
  <2>2. PostShape(t)
    BY <1>0, <2>1, FirstPasses
  <2> HIDE DEF t
  <2> QED
    BY <1>2, <2>2 DEF CorrectedBefore
<1>3. ASSUME n = 3 PROVE CorrectedBefore(t, f, 4)
  <2>1. t = ScanLibraries(s, f)
    BY <1>3 DEF PassOrder, Pass
  <2>2. PostShape(t) /\ (f.foreign <=> LibrariesOption \notin t.sel)
    BY <1>0, <2>1, LibrariesPass
  <2> HIDE DEF t
  <2> QED
    BY <1>3, <2>2 DEF CorrectedBefore
<1>4. ASSUME n = 4 PROVE CorrectedBefore(t, f, 5)
  <2>1. t = StripPlagiarism(s)
    BY <1>4 DEF PassOrder, Pass
  <2>2. PostShape(t) /\ t.sel = s.sel /\ \A c \in Categories : t.notes[c] \cap PlagiarismKinds = {}
    BY <1>0, <2>1, NotesPasses
  <2>3. f.foreign <=> LibrariesOption \notin s.sel
    BY <1>4 DEF CorrectedBefore
  <2> HIDE DEF t
  <2> QED
    BY <1>4, <2>2, <2>3 DEF CorrectedBefore
<1>5. ASSUME n = 5 PROVE CorrectedBefore(t, f, 6)
  <2>1. t = StripFiller(s)
    BY <1>5 DEF PassOrder, Pass
  <2>2. /\ PostShape(t) /\ t.sel = s.sel
        /\ \A c \in Categories : /\ t.notes[c] \cap FillerKinds = {}
                                 /\ s.notes[c] \cap PlagiarismKinds = {} => t.notes[c] \cap PlagiarismKinds = {}
    BY <1>0, <2>1, NotesPasses
  <2>3. (f.foreign <=> LibrariesOption \notin s.sel) /\ \A c \in Categories : s.notes[c] \cap PlagiarismKinds = {}
    BY <1>5 DEF CorrectedBefore
  <2> HIDE DEF t
  <2> QED
    BY <1>5, <2>2, <2>3 DEF CorrectedBefore
<1>6. ASSUME n = 6 PROVE CorrectedBefore(t, f, 7)
  <2>1. t = FillTextareas(s)
    BY <1>6 DEF PassOrder, Pass
  <2>2. /\ PostShape(t) /\ t.sel = s.sel
        /\ \A c \in Categories : t.notes[c] # {} /\ (t.notes[c] = s.notes[c] \/ t.notes[c] = {"generated"})
    BY <1>0, <2>1, NotesPasses
  <2>3. /\ f.foreign <=> LibrariesOption \notin s.sel
        /\ \A c \in Categories : s.notes[c] \cap PlagiarismKinds = {} /\ s.notes[c] \cap FillerKinds = {}
    BY <1>6 DEF CorrectedBefore
  <2>4. {"generated"} \cap FillerKinds = {} /\ {"generated"} \cap PlagiarismKinds = {}
    BY DEF FillerKinds, PlagiarismKinds
  <2> HIDE DEF t
  <2>5. \A c \in Categories : t.notes[c] \cap PlagiarismKinds = {} /\ t.notes[c] \cap FillerKinds = {}
    BY <2>2, <2>3, <2>4
  <2> QED
    BY <1>6, <2>2, <2>3, <2>5 DEF CorrectedBefore
<1>7. ASSUME n = 7 PROVE CorrectedBefore(t, f, 8)
  <2>1. t = Ground(s, f)
    BY <1>7 DEF PassOrder, Pass
  <2>2. /\ PostShape(t) /\ t.notes = s.notes
        /\ LibrariesOption \in t.sel <=> LibrariesOption \in s.sel
        /\ Grounded(t.sel, f)
    BY <1>0, <2>1, GroundPass
  <2>3. /\ f.foreign <=> LibrariesOption \notin s.sel
        /\ \A c \in Categories : s.notes[c] \cap PlagiarismKinds = {} /\ s.notes[c] \cap FillerKinds = {} /\ s.notes[c] # {}
    BY <1>7 DEF CorrectedBefore
  <2> HIDE DEF t
  <2> QED
    BY <1>7, <2>2, <2>3 DEF CorrectedBefore
<1> HIDE DEF t
<1>8. CorrectedBefore(t, f, n + 1)
  BY <1>1, <1>2, <1>3, <1>4, <1>5, <1>6, <1>7
<1> QED
  BY <1>8 DEF t

\* A step that only moves on keeps the invariant, as far as the turns have come.
LEMMA GotoKeeps ==
    ASSUME EvaluationInv, NEW pc, Goto(pc), eval.pc \notin {"correct", "confidence"},
           pc \in {"screen", "screenFixed", "markers", "feedback", "assemble", "failed"} \/ (pc = "turn" /\ RubricKeys # <<>>),
           pc \notin {"feedback", "assemble", "failed"} =>
              eval.pc \in {"called", "screen", "screenFixed", "markers", "score", "critique"},
           eval.pc # "done"
    PROVE  EvaluationInv'
<1>1. eval' = [eval EXCEPT !.pc = pc]
  BY DEF Goto
<1>2. /\ DOMAIN eval' = EvalFields /\ eval'.pc = pc /\ eval'.facts = eval.facts /\ eval'.injected = eval.injected
      /\ eval'.scoring = eval.scoring /\ eval'.cat = eval.cat /\ eval'.notes = eval.notes
      /\ eval'.flagged = eval.flagged /\ eval'.post = eval.post /\ eval'.pass = eval.pass
  BY <1>1 DEF EvaluationInv, EvalShape, EvalFields
<1>3. EvalShape'
  BY <1>2 DEF EvaluationInv, EvalShape
<1>4. TurnsInOrder'
  <2>1. RubricKeys # <<>> => 1 \in 1 .. Len(RubricKeys)
    BY PipelineBounds
  <2> QED
    BY <1>2, <2>1 DEF EvaluationInv, TurnsInOrder
<1>5. FlagLeavesMark'
  BY <1>2 DEF EvaluationInv, FlagLeavesMark, Marked
<1>6. PassesApplied'
  BY <1>2 DEF EvaluationInv, PassesApplied
<1> QED
  BY <1>2, <1>3, <1>4, <1>5, <1>6 DEF EvaluationInv, FlaggedNeedsReview

\* A hit of the screening.
LEMMA ScreenKeeps ==
    ASSUME EvaluationInv, ScreenAnswered
    PROVE  EvaluationInv'
<1>1. PICK pc \in {"screen", "screenFixed"}, hit \in BOOLEAN :
         eval.pc = pc /\ eval' = [eval EXCEPT !.pc = AfterScreen, !.injected = @ \/ hit]
  BY DEF ScreenAnswered, Answered
<1> DEFINE injected == eval.injected \/ hit
<1>2. AfterScreen \in {"screenFixed", "markers"}
  BY DEF AfterScreen
<1>3. eval' = [eval EXCEPT !.pc = AfterScreen, !.injected = injected]
  BY <1>1 DEF EvaluationInv, EvalShape, EvalFields
<1> HIDE DEF injected
<1>4. /\ DOMAIN eval' = EvalFields /\ eval'.pc = AfterScreen /\ eval'.facts = eval.facts
      /\ eval'.scoring = eval.scoring /\ eval'.cat = eval.cat /\ eval'.notes = eval.notes
      /\ eval'.flagged = eval.flagged /\ eval'.pass = eval.pass
  BY <1>3 DEF EvaluationInv, EvalShape, EvalFields
<1>5. EvalShape'
  BY <1>4 DEF EvaluationInv, EvalShape
<1>6. TurnsInOrder'
  BY <1>1, <1>2, <1>4 DEF EvaluationInv, TurnsInOrder
<1>7. FlagLeavesMark'
  BY <1>4 DEF EvaluationInv, FlagLeavesMark, Marked
<1>8. PassesApplied'
  BY <1>1, <1>2, <1>4 DEF EvaluationInv, PassesApplied
<1> QED
  BY <1>2, <1>4, <1>5, <1>6, <1>7, <1>8 DEF EvaluationInv, FlaggedNeedsReview

\* The markers, chunk by chunk.
LEMMA MarkersKeep ==
    ASSUME EvaluationInv, MarkersAnswered
    PROVE  EvaluationInv'
<1> DEFINE chunk == eval.chunk + 1
           pc == IF eval.chunk + 1 = Chunks THEN "score" ELSE eval.pc
<1>1. eval.pc = "markers" /\ eval' = [eval EXCEPT !.chunk = chunk, !.pc = pc]
  BY DEF MarkersAnswered, Answered, EvaluationInv, EvalShape, EvalFields
<1>2. pc \in {"markers", "score"}
  BY <1>1
<1> HIDE DEF chunk, pc
<1>4. /\ DOMAIN eval' = EvalFields /\ eval'.pc = pc /\ eval'.facts = eval.facts
      /\ eval'.scoring = eval.scoring /\ eval'.cat = eval.cat /\ eval'.notes = eval.notes
      /\ eval'.flagged = eval.flagged /\ eval'.pass = eval.pass
  BY <1>1 DEF EvaluationInv, EvalShape, EvalFields
<1>5. EvalShape'
  BY <1>4 DEF EvaluationInv, EvalShape
<1>6. TurnsInOrder'
  BY <1>1, <1>2, <1>4 DEF EvaluationInv, TurnsInOrder
<1>7. FlagLeavesMark'
  BY <1>4 DEF EvaluationInv, FlagLeavesMark, Marked
<1>8. PassesApplied'
  BY <1>1, <1>2, <1>4 DEF EvaluationInv, PassesApplied
<1> QED
  BY <1>2, <1>4, <1>5, <1>6, <1>7, <1>8 DEF EvaluationInv, FlaggedNeedsReview

\* The scores, and their critique.
LEMMA ScoresKeep ==
    ASSUME EvaluationInv, NEW d \in Dimensions, ScoreAnswered(d) \/ CritiqueAnswered(d)
    PROVE  EvaluationInv'
<1>1. /\ eval.pc \in {"score", "critique"} /\ eval'.scoring \in Dimensions \cup {eval.scoring}
      /\ eval'.pc \in {"critique", "feedback"} \/ (eval'.pc = "turn" /\ RubricKeys # <<>>)
      /\ DOMAIN eval' = EvalFields /\ eval'.facts = eval.facts /\ eval'.cat = eval.cat
      /\ eval'.notes = eval.notes /\ eval'.flagged = eval.flagged /\ eval'.pass = eval.pass
  <2>1. CASE ScoreAnswered(d)
    BY <2>1 DEF ScoreAnswered, Answered, EvaluationInv, EvalShape, EvalFields
  <2>2. CASE CritiqueAnswered(d)
    <3> DEFINE e == IF d.key = "none" THEN eval.scoring ELSE d
    <3>1. eval.pc = "critique" /\ eval' = [eval EXCEPT !.scoring = e, !.pc = FirstTurn]
      BY <2>2 DEF CritiqueAnswered, Answered, EvaluationInv, EvalShape, EvalFields
    <3>2. FirstTurn = "feedback" \/ (FirstTurn = "turn" /\ RubricKeys # <<>>)
      BY DEF FirstTurn
    <3>3. e \in Dimensions \cup {eval.scoring}
      OBVIOUS
    <3> HIDE DEF e
    <3> QED
      BY <3>1, <3>2, <3>3 DEF EvaluationInv, EvalShape, EvalFields
  <2> QED
    BY <2>1, <2>2
<1>2. eval'.scoring \in [key : {"exact", "cased", "unknown", "none"}, points : 0 .. 8]
  BY <1>1, PipelineBounds DEF EvaluationInv, EvalShape
<1>3. EvalShape'
  BY <1>1, <1>2 DEF EvaluationInv, EvalShape
<1>4. TurnsInOrder'
  <2>1. RubricKeys # <<>> => 1 \in 1 .. Len(RubricKeys)
    BY PipelineBounds
  <2> QED
    BY <1>1, <2>1 DEF EvaluationInv, TurnsInOrder
<1>5. FlagLeavesMark'
  BY <1>1 DEF EvaluationInv, FlagLeavesMark, Marked
<1>6. PassesApplied'
  BY <1>1 DEF EvaluationInv, PassesApplied
<1> QED
  BY <1>1, <1>3, <1>4, <1>5, <1>6 DEF EvaluationInv, FlaggedNeedsReview

\* The turn of a category: a category given up leaves a mark in its note, and
\* a later section does not replace a note.
LEMMA TurnKeeps ==
    ASSUME EvaluationInv, NEW section, TurnRejected(section) \/ TurnGivenUp(section) \/ TurnAccepted(section)
    PROVE  EvaluationInv'
<1>0. eval.pc = "turn" /\ eval.cat \in 1 .. Len(RubricKeys) /\ Category \in Categories /\ eval.pass = 1
  <2>1. eval.pc = "turn"
    BY DEF TurnRejected, TurnGivenUp, TurnAccepted, Answered
  <2>2. eval.cat \in 1 .. Len(RubricKeys) /\ eval.pass = 1
    BY <2>1 DEF EvaluationInv, TurnsInOrder, PassesApplied
  <2> QED
    BY <2>1, <2>2, PipelineBounds DEF Category
<1>1. CASE TurnRejected(section)
  <2> DEFINE retry == eval.retry + 1
  <2>1. eval' = [eval EXCEPT !.retry = retry]
    BY <1>1 DEF TurnRejected, EvaluationInv, EvalShape, EvalFields
  <2> HIDE DEF retry
  <2>4. /\ DOMAIN eval' = EvalFields /\ eval'.pc = eval.pc /\ eval'.facts = eval.facts
        /\ eval'.scoring = eval.scoring /\ eval'.cat = eval.cat /\ eval'.notes = eval.notes
        /\ eval'.flagged = eval.flagged /\ eval'.pass = eval.pass
    BY <2>1 DEF EvaluationInv, EvalShape, EvalFields
  <2>5. EvalShape'
    BY <2>4 DEF EvaluationInv, EvalShape
  <2>6. TurnsInOrder'
    BY <2>4 DEF EvaluationInv, TurnsInOrder
  <2>7. FlagLeavesMark'
    BY <2>4 DEF EvaluationInv, FlagLeavesMark, Marked
  <2>8. PassesApplied'
    BY <1>0, <2>4 DEF EvaluationInv, PassesApplied
  <2> QED
    BY <1>0, <2>4, <2>5, <2>6, <2>7, <2>8 DEF EvaluationInv, FlaggedNeedsReview
<1>2. NextTurn \in {"feedback", "turn"} /\ (NextTurn = "turn" => eval.cat + 1 \in 1 .. Len(RubricKeys))
  <2>1. Len(RubricKeys) \in Nat
    BY PipelineBounds
  <2> QED
    BY <1>0, <2>1 DEF NextTurn
<1>3. ASSUME NEW sel, NEW notes, NEW sections, NEW flagged, NEW retry,
             eval' = [eval EXCEPT !.sel = sel, !.notes = notes, !.flagged = flagged, !.sections = sections,
                                  !.cat = eval.cat + 1, !.retry = retry, !.pc = NextTurn],
             DOMAIN notes = Categories, flagged => Marked(notes)
      PROVE  EvaluationInv'
  <2> DEFINE cat == eval.cat + 1
  <2>1. eval' = [eval EXCEPT !.sel = sel, !.notes = notes, !.flagged = flagged, !.sections = sections,
                             !.cat = cat, !.retry = retry, !.pc = NextTurn]
    BY <1>3
  <2>2. NextTurn = "turn" => cat \in 1 .. Len(RubricKeys)
    BY <1>2
  <2> HIDE DEF cat
  <2>4. /\ DOMAIN eval' = EvalFields /\ eval'.pc = NextTurn /\ eval'.facts = eval.facts
        /\ eval'.scoring = eval.scoring /\ eval'.cat = cat /\ eval'.notes = notes
        /\ eval'.flagged = flagged /\ eval'.pass = eval.pass
    BY <2>1 DEF EvaluationInv, EvalShape, EvalFields
  <2>5. EvalShape'
    BY <1>3, <2>4 DEF EvaluationInv, EvalShape
  <2>6. TurnsInOrder'
    BY <1>2, <2>2, <2>4 DEF TurnsInOrder
  <2>7. FlagLeavesMark'
    BY <1>3, <2>4 DEF FlagLeavesMark, Marked
  <2>8. PassesApplied'
    BY <1>0, <1>2, <2>4 DEF PassesApplied
  <2> QED
    BY <1>2, <2>4, <2>5, <2>6, <2>7, <2>8 DEF EvaluationInv, FlaggedNeedsReview
<1>4. CASE TurnGivenUp(section)
  <2>1. PICK kind \in ReviewKinds :
           eval' = [eval EXCEPT !.notes[Category] = {kind}, !.flagged = TRUE,
                                !.sel = @ \cup Selections(Category, section),
                                !.cat = @ + 1, !.retry = 0, !.pc = NextTurn]
    BY <1>4 DEF TurnGivenUp, ReviewKinds
  <2> DEFINE notes == [eval.notes EXCEPT ![Category] = {kind}]
             sel == eval.sel \cup Selections(Category, section)
  <2>2. eval' = [eval EXCEPT !.sel = sel, !.notes = notes, !.flagged = TRUE, !.sections = eval.sections,
                             !.cat = eval.cat + 1, !.retry = 0, !.pc = NextTurn]
    BY <2>1 DEF EvaluationInv, EvalShape, EvalFields
  <2>3. DOMAIN notes = Categories /\ Marked(notes)
    BY <1>0, <2>1 DEF EvaluationInv, EvalShape, Marked
  <2> HIDE DEF notes, sel
  <2> QED
    BY <1>3, <2>2, <2>3
<1>5. CASE TurnAccepted(section)
  <2> DEFINE kept == Accepted(Category, section, eval.facts)
             notes == [eval.notes EXCEPT ![Category] = IF eval.notes[Category] = {} THEN kept.notes ELSE eval.notes[Category]]
             sel == eval.sel \cup Selections(Category, kept)
             sections == eval.sections \cup {<<Category, kept.checked>>}
  <2>1. eval' = [eval EXCEPT !.sel = @ \cup Selections(Category, kept),
                             !.notes[Category] = IF @ = {} THEN kept.notes ELSE @,
                             !.sections = @ \cup {<<Category, kept.checked>>},
                             !.cat = @ + 1, !.retry = 0, !.pc = NextTurn]
    BY <1>5 DEF TurnAccepted
  <2> HIDE DEF kept
  <2>2. eval' = [eval EXCEPT !.sel = sel, !.notes = notes, !.flagged = eval.flagged, !.sections = sections,
                             !.cat = eval.cat + 1, !.retry = 0, !.pc = NextTurn]
    BY <1>0, <2>1 DEF EvaluationInv, EvalShape, EvalFields
  <2>3. DOMAIN notes = Categories /\ (eval.flagged => Marked(notes))
    <3>1. ASSUME NEW c \in Categories, eval.notes[c] \cap ReviewKinds # {}
          PROVE  notes[c] \cap ReviewKinds # {}
      BY <3>1 DEF EvaluationInv, EvalShape
    <3> QED
      BY <3>1 DEF EvaluationInv, EvalShape, FlagLeavesMark, Marked
  <2> HIDE DEF notes, sel, sections
  <2> QED
    BY <1>3, <2>2, <2>3
<1> QED
  BY <1>1, <1>4, <1>5

\* The capped score is within the cap, and the passes begin.
LEMMA AssembleKeeps ==
    ASSUME EvaluationInv, Assemble
    PROVE  EvaluationInv'
<1> DEFINE d == Capped(eval.scoring, eval.facts)
           post == [NoPost EXCEPT !.sel = eval.sel, !.notes = eval.notes]
<1>1. eval.pc = "assemble"
  BY DEF Assemble
<1>2. CASE ~ValidScores(d)
  <2>1. Goto("failed")
    BY <1>2 DEF Assemble, Fail
  <2> QED
    BY <1>1, <2>1, GotoKeeps
<1>3. CASE ValidScores(d)
  <2>1. eval' = [eval EXCEPT !.pc = "correct", !.scoring = d, !.post = post]
    BY <1>3 DEF Assemble
  <2>2. /\ d \in [key : {"exact", "cased", "unknown", "none"}, points : 0 .. 8]
        /\ d.key = "exact" => d.points <= QualityCap(eval.facts)
    <3>1. QualityCap(eval.facts) \in {4, 5, 7}
      BY DEF QualityCap
    <3>2. eval.scoring \in [key : {"exact", "cased", "unknown", "none"}, points : 0 .. 8]
      BY DEF EvaluationInv, EvalShape
    <3> QED
      BY <3>1, <3>2 DEF Capped
  <2>3. PostShape(post)
    BY DEF NoPost, PostShape, EvaluationInv, EvalShape
  <2> HIDE DEF d, post
  <2>4. /\ DOMAIN eval' = EvalFields /\ eval'.pc = "correct" /\ eval'.facts = eval.facts
        /\ eval'.scoring = d /\ eval'.cat = eval.cat /\ eval'.notes = eval.notes
        /\ eval'.flagged = eval.flagged /\ eval'.pass = eval.pass /\ eval'.post = post
    BY <2>1 DEF EvaluationInv, EvalShape, EvalFields
  <2>5. EvalShape'
    BY <2>2, <2>4 DEF EvaluationInv, EvalShape
  <2>6. TurnsInOrder'
    BY <2>4 DEF TurnsInOrder
  <2>7. FlagLeavesMark'
    BY <2>4 DEF EvaluationInv, FlagLeavesMark, Marked
  <2>8. PassesApplied'
    BY <1>1, <2>2, <2>3, <2>4 DEF EvaluationInv, PassesApplied, CorrectedBefore
  <2> QED
    BY <2>4, <2>5, <2>6, <2>7, <2>8 DEF EvaluationInv, FlaggedNeedsReview
<1> QED
  BY <1>2, <1>3

\* One correction pass.
LEMMA CorrectKeeps ==
    ASSUME EvaluationInv, Correct
    PROVE  EvaluationInv'
<1> DEFINE post == Pass(PassOrder[eval.pass], eval.post, eval.facts, RatingOf(eval.scoring))
           pass == eval.pass + 1
           pc == IF eval.pass = Len(PassOrder) THEN "confidence" ELSE eval.pc
<1>1. eval.pc = "correct" /\ eval' = [eval EXCEPT !.post = post, !.pass = pass, !.pc = pc]
  BY DEF Correct, EvaluationInv, EvalShape, EvalFields
<1>2. eval.pass \in 1 .. 7 /\ CorrectedBefore(eval.post, eval.facts, eval.pass)
  BY <1>1 DEF EvaluationInv, PassesApplied
<1>3. CorrectedBefore(post, eval.facts, pass)
  BY <1>2, PassApplies DEF EvaluationInv, EvalShape
<1>4. /\ pc = "correct" => pass \in 1 .. 7
      /\ pc = "confidence" => pass = 8
      /\ pc \in {"correct", "confidence"}
  <2>1. Len(PassOrder) = 7
    BY DEF PassOrder
  <2> QED
    BY <1>1, <1>2, <2>1
<1> HIDE DEF post, pass, pc
<1>5. /\ DOMAIN eval' = EvalFields /\ eval'.pc = pc /\ eval'.facts = eval.facts
      /\ eval'.scoring = eval.scoring /\ eval'.cat = eval.cat /\ eval'.notes = eval.notes
      /\ eval'.flagged = eval.flagged /\ eval'.pass = pass /\ eval'.post = post
  BY <1>1 DEF EvaluationInv, EvalShape, EvalFields
<1>6. EvalShape'
  BY <1>5 DEF EvaluationInv, EvalShape
<1>7. TurnsInOrder'
  BY <1>4, <1>5 DEF TurnsInOrder
<1>8. FlagLeavesMark'
  BY <1>5 DEF EvaluationInv, FlagLeavesMark, Marked
<1>9. PassesApplied'
  BY <1>1, <1>3, <1>4, <1>5 DEF EvaluationInv, PassesApplied
<1> QED
  BY <1>4, <1>5, <1>6, <1>7, <1>8, <1>9 DEF EvaluationInv, FlaggedNeedsReview

\* The confidence: a hit of the screening, or the mark in the raw notes.
LEMMA ConcludeKeeps ==
    ASSUME EvaluationInv, Conclude
    PROVE  EvaluationInv'
<1> DEFINE confidence == IF eval.injected THEN "needs_review"
                         ELSE DerivedConfidence(eval.notes, eval.post, eval.facts)
<1>1. eval.pc = "confidence" /\ eval' = [eval EXCEPT !.pc = "done", !.confidence = confidence]
  BY DEF Conclude
<1>2. eval.flagged \/ eval.injected => confidence = "needs_review"
  <2>1. Marked(eval.notes) => DerivedConfidence(eval.notes, eval.post, eval.facts) = "needs_review"
    BY DEF DerivedConfidence
  <2> QED
    BY <2>1 DEF EvaluationInv, FlagLeavesMark
<1> HIDE DEF confidence
<1>3. /\ DOMAIN eval' = EvalFields /\ eval'.pc = "done" /\ eval'.facts = eval.facts
      /\ eval'.scoring = eval.scoring /\ eval'.cat = eval.cat /\ eval'.notes = eval.notes
      /\ eval'.flagged = eval.flagged /\ eval'.injected = eval.injected
      /\ eval'.pass = eval.pass /\ eval'.post = eval.post /\ eval'.confidence = confidence
  BY <1>1 DEF EvaluationInv, EvalShape, EvalFields
<1>4. EvalShape'
  BY <1>3 DEF EvaluationInv, EvalShape
<1>5. TurnsInOrder'
  BY <1>3 DEF TurnsInOrder
<1>6. FlagLeavesMark'
  BY <1>3 DEF EvaluationInv, FlagLeavesMark, Marked
<1>7. PassesApplied'
  BY <1>1, <1>3 DEF EvaluationInv, PassesApplied
<1>8. FlaggedNeedsReview'
  BY <1>2, <1>3 DEF FlaggedNeedsReview
<1> QED
  BY <1>4, <1>5, <1>6, <1>7, <1>8 DEF EvaluationInv

\* The invariant of a pre-evaluation.
LEMMA EvaluationInvAlways == PipelineSpec => []EvaluationInv
<1>1. PipelineInit => EvaluationInv
  <2> SUFFICES ASSUME PipelineInit PROVE EvaluationInv
    OBVIOUS
  <2>1. PICK f \in Notebooks :
          eval = [pc |-> "called", facts |-> f, injected |-> FALSE, chunk |-> 0,
                  scoring |-> [key |-> "none", points |-> 0], cat |-> 1, retry |-> 0,
                  sel |-> {}, notes |-> [c \in Categories |-> {}], flagged |-> FALSE,
                  sections |-> {}, post |-> NoPost, pass |-> 1, confidence |-> "none"]
    BY DEF PipelineInit
  <2>2. f \in Facts
    BY PipelineBounds
  <2>3. /\ DOMAIN eval = EvalFields /\ eval.pc = "called" /\ eval.facts = f /\ eval.cat = 1
        /\ eval.scoring = [key |-> "none", points |-> 0] /\ DOMAIN eval.notes = Categories /\ eval.pass = 1
    BY <2>1 DEF EvalFields
  <2>4. ~eval.flagged
    BY <2>1
  <2> QED
    BY <2>2, <2>3, <2>4
    DEF EvaluationInv, EvalShape, TurnsInOrder, FlagLeavesMark, PassesApplied, FlaggedNeedsReview
<1>2. EvaluationInv /\ [PipelineNext]_pipelineVars => EvaluationInv'
  <2> SUFFICES ASSUME EvaluationInv, [PipelineNext]_pipelineVars PROVE EvaluationInv'
    OBVIOUS
  <2>1. ASSUME UNCHANGED eval PROVE EvaluationInv'
    BY <2>1 DEF EvaluationInv, EvalShape, TurnsInOrder, FlagLeavesMark, Marked, PassesApplied, FlaggedNeedsReview
  <2>2. CASE StartEvaluation
    BY <2>2, GotoKeeps DEF StartEvaluation
  <2>3. CASE RequestRetried \/ AnswerRepaired \/ CallAskedAgain
    BY <2>1, <2>3 DEF RequestRetried, AnswerRepaired, CallAskedAgain
  <2>4. CASE CallFails
    <3>1. CASE eval.pc \in {"screen", "screenFixed"}
      <4>1. Goto(AfterScreen) /\ AfterScreen \in {"screenFixed", "markers"}
        BY <2>4, <3>1 DEF CallFails, AfterScreen
      <4> QED
        BY <3>1, <4>1, GotoKeeps
    <3>2. CASE eval.pc = "critique"
      <4>1. Goto(FirstTurn) /\ (FirstTurn = "feedback" \/ (FirstTurn = "turn" /\ RubricKeys # <<>>))
        BY <2>4, <3>2 DEF CallFails, FirstTurn
      <4> QED
        BY <3>2, <4>1, GotoKeeps
    <3>3. CASE eval.pc \notin {"screen", "screenFixed", "critique"}
      <4>1. Goto("failed") /\ eval.pc \in Calling
        BY <2>4, <3>3 DEF CallFails, Fail
      <4> QED
        BY <4>1, GotoKeeps DEF Calling
    <3> QED
      BY <3>1, <3>2, <3>3
  <2>5. CASE ScreenAnswered
    BY <2>5, ScreenKeeps
  <2>6. CASE MarkersAnswered
    BY <2>6, MarkersKeep
  <2>7. CASE Turn
    BY <2>7, TurnKeeps DEF Turn
  <2>8. CASE FeedbackAnswered
    BY <2>8, GotoKeeps DEF FeedbackAnswered, Answered
  <2>9. CASE \E d \in Dimensions : ScoreAnswered(d) \/ CritiqueAnswered(d)
    BY <2>9, ScoresKeep
  <2>10. CASE WorksheetThrows \/ FeedbackThrows
    BY <2>10, GotoKeeps DEF WorksheetThrows, FeedbackThrows, Fail
  <2>11. CASE Assemble
    BY <2>11, AssembleKeeps
  <2>12. CASE Correct
    BY <2>12, CorrectKeeps
  <2>13. CASE Conclude
    BY <2>13, ConcludeKeeps
  <2>14. CASE UNCHANGED pipelineVars
    BY <2>1, <2>14 DEF pipelineVars
  <2> QED
    BY <2>2, <2>3, <2>4, <2>5, <2>6, <2>7, <2>8, <2>9, <2>10, <2>11, <2>12, <2>13, <2>14
    DEF PipelineNext, Evaluate, Request, Answer
<1> QED
  BY <1>1, <1>2, PTL DEF PipelineSpec

\* A category the retries gave up on, or a hit of the screening, always ends as
\* needs_review, whatever the corrections make of the note that says so, for
\* any rubric, sections, retries and notebooks.
THEOREM FlaggedNeedsReviewAlways == PipelineSpec => []FlaggedNeedsReview
<1>1. EvaluationInv => FlaggedNeedsReview
  BY DEF EvaluationInv
<1> QED
  BY <1>1, EvaluationInvAlways, PTL

\* Whatever the model has checked, written and scored, the envelope agrees with
\* the evidence of the notebook.
THEOREM EvidenceWinsAlways == PipelineSpec => []EvidenceWins
<1>1. EvaluationInv => EvidenceWins
  <2> SUFFICES ASSUME EvaluationInv, eval.pc = "done" PROVE EvidenceWins
    BY DEF EvidenceWins
  <2>1. CorrectedBefore(eval.post, eval.facts, 8)
        /\ (eval.scoring.key = "exact" => eval.scoring.points <= QualityCap(eval.facts))
    BY DEF EvaluationInv, PassesApplied
  <2>2. Grounded(eval.post.sel, eval.facts) /\ (eval.facts.foreign <=> LibrariesOption \notin eval.post.sel)
    BY <2>1 DEF CorrectedBefore
  <2> QED
    BY <2>1, <2>2 DEF EvidenceWins, Grounded, LibrariesOption
<1> QED
  BY <1>1, EvaluationInvAlways, PTL

\* Every category ends with a note that speaks of no plagiarism and holds no
\* filler, whatever the model wrote.
THEOREM NotesCleanAlways == PipelineSpec => []NotesClean
<1>1. EvaluationInv => NotesClean
  <2> SUFFICES ASSUME EvaluationInv, eval.pc = "done", NEW c \in Categories
      PROVE  eval.post.notes[c] # {} /\ eval.post.notes[c] \cap (PlagiarismKinds \cup FillerKinds) = {}
    BY DEF NotesClean
  <2>1. CorrectedBefore(eval.post, eval.facts, 8)
    BY DEF EvaluationInv, PassesApplied
  <2>2. eval.post.notes[c] # {} /\ eval.post.notes[c] \cap PlagiarismKinds = {} /\ eval.post.notes[c] \cap FillerKinds = {}
    BY <2>1 DEF CorrectedBefore
  <2> QED
    BY <2>2
<1> QED
  BY <1>1, EvaluationInvAlways, PTL
=============================================================================
