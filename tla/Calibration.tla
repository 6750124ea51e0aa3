----------------------------- MODULE Calibration -----------------------------
(***************************************************************************)
(* The calibration of a cohort (cohort-calibration.ts) as the batches run  *)
(* it over results.json: hard caps, the bounded fits under the median of   *)
(* the reference fits, and the outliers of a homogeneous cluster.  It      *)
(* overwrites the scores it read, so the next run calibrates what the last *)
(* one made.  Dimensions do not meet; this is one of them.  A row without  *)
(* it, or without an envelope, takes no part and is not in the cohort.     *)
(* Scores are in hundredths of a point.  The write that may be lost is in  *)
(* BatchPreEvaluate.                                                       *)
(***************************************************************************)
EXTENDS Integers, FiniteSets, FiniteSetsExt, Sequences

CONSTANTS
    Outcomes,         \* what an execution may show: metrics, bounded, hadError
    RawScores,        \* what the model may give
    Measured,         \* the dimensions looked at
    Consensus,        \* MIN_OUTLIER_CONSENSUS
    CohortSize,       \* bound: rows
    MaxCalibrations,  \* bound: calibrations in a row
    SmallCohort       \* bound: rows of a cohort one of which is evaluated again

ASSUME CalibrationAssumption ==
    /\ RawScores \subseteq Nat
    /\ Consensus \in Nat \ {0} /\ CohortSize \in Nat /\ SmallCohort \in Nat
    /\ MaxCalibrations \in Nat

VARIABLES
    dimension,     \* the one this is about
    cohort,        \* row -> its outcome and its stored score
    calibrations,  \* how many since a row was last evaluated
    again          \* a row has been evaluated after a calibration

calibrationVars == <<dimension, cohort, calibrations, again>>

CER_DIMENSION == "code_execution_results"
MAX_VALID_SCORE == 550
ERROR_CER_CAP == 500

\* Metrics in the band of the reference, outside of it, or not both printed.
ExecutionCluster(outcome) ==
    IF outcome.metrics = "band" THEN "reference_fit"
    ELSE IF outcome.bounded THEN "bounded_fit" ELSE "no_metrics"

Cluster(c, name) == {r \in DOMAIN c : ExecutionCluster(c[r].outcome) = name}

----------------------------------------------------------------------------
\* One calibration: score is the effective score of each row, adjusted are the
\* rows that have been adjusted; each is adjusted once.

\* The values in the middle of those of S, one or two.
IsHalf(T, S) == 2 * Cardinality(T) >= Cardinality(S)
Middle(score, S) ==
    {score[r] : r \in {q \in S : /\ IsHalf({p \in S : score[p] <= score[q]}, S)
                                 /\ IsHalf({p \in S : score[p] >= score[q]}, S)}}
Median(score, S) == (Min(Middle(score, S)) + Max(Middle(score, S))) \div 2

CapScore(d, row) ==
    IF d = CER_DIMENSION /\ row.outcome.hadError /\ row.score > ERROR_CER_CAP THEN ERROR_CER_CAP
    ELSE IF row.score > MAX_VALID_SCORE THEN MAX_VALID_SCORE
    ELSE row.score

HardCapped(d, c) ==
    LET score == [r \in DOMAIN c |-> CapScore(d, c[r])]
    IN  [score |-> score, adjusted |-> {r \in DOMAIN c : score[r] # c[r].score}]

\* The bounded fits over the median of the reference fits, but for those that
\* have just been capped.
Outranking(d, c, done) ==
    {r \in Cluster(c, "bounded_fit") :
        /\ d = CER_DIMENSION /\ Cluster(c, "reference_fit") # {}
        /\ done.score[r] > Median(done.score, Cluster(c, "reference_fit"))
        /\ r \notin done.adjusted}

BoundedCapped(d, c, done) ==
    LET over == Outranking(d, c, done) IN
    [score |-> [r \in DOMAIN c |-> IF r \in over THEN Median(done.score, Cluster(c, "reference_fit"))
                                   ELSE done.score[r]],
     adjusted |-> done.adjusted \cup over]

\* Mutant: dissenters on one side are enough.
HomogeneousOneSided(score, S, mode) ==
    LET sharing == {r \in S : score[r] = mode} IN
    /\ Cardinality(sharing) >= Consensus /\ 2 * Cardinality(sharing) > Cardinality(S)
    /\ \E r \in S : score[r] # mode

\* The value most rows of S share, when enough do and some are on either side.
Homogeneous(score, S, mode) ==
    LET sharing == {r \in S : score[r] = mode} IN
    /\ Cardinality(sharing) >= Consensus /\ 2 * Cardinality(sharing) > Cardinality(S)
    /\ \E r \in S : score[r] < mode
    /\ \E r \in S : score[r] > mode

Outliers(done, S) ==
    {r \in S \ done.adjusted : \E q \in S : Homogeneous(done.score, S, done.score[q]) /\ done.score[r] # done.score[q]}

OutliersCorrected(c, done) ==
    [r \in DOMAIN c |->
        LET S == Cluster(c, ExecutionCluster(c[r].outcome))
        IN  IF r \in Outliers(done, S) THEN Median(done.score, S) ELSE done.score[r]]

Calibrated(d, c) ==
    LET score == OutliersCorrected(c, BoundedCapped(d, c, HardCapped(d, c)))
    IN  [r \in DOMAIN c |-> [c[r] EXCEPT !.score = score[r]]]

----------------------------------------------------------------------------
\* The runs.

\* A row is pre-evaluated; its envelope replaces the calibrated one.  The order
\* of the rows says nothing, so they come ordered by what is stored of them.
RowEvaluated(o, v) ==
    /\ Len(cohort) < CohortSize /\ calibrations = 0 /\ ~again
    /\ \A r \in DOMAIN cohort : cohort[r].kind < o \/ (cohort[r].kind = o /\ cohort[r].score <= v)
    /\ cohort' = Append(cohort, [kind |-> o, outcome |-> Outcomes[o], score |-> v])
    /\ UNCHANGED <<dimension, calibrations, again>>

RowEvaluatedAgain(r, v) ==
    /\ calibrations > 0 /\ ~again /\ Len(cohort) <= SmallCohort
    /\ again' = TRUE
    /\ cohort' = [cohort EXCEPT ![r].score = v]
    /\ calibrations' = 0
    /\ UNCHANGED dimension

\* The rows of a run have settled.  A run whose rows all fail, as when the model
\* is not reachable, is calibrated by the tool pre-evaluate-all all the same.
RunCohortCalibration ==
    /\ cohort # <<>> /\ calibrations < MaxCalibrations
    /\ cohort' = Calibrated(dimension, cohort)
    /\ calibrations' = calibrations + 1
    /\ UNCHANGED <<dimension, again>>

CalibrationInit == dimension \in Measured /\ cohort = <<>> /\ calibrations = 0 /\ again = FALSE

CalibrationNext ==
    \/ \E o \in DOMAIN Outcomes, v \in RawScores : RowEvaluated(o, v)
    \/ \E r \in DOMAIN cohort, v \in RawScores : RowEvaluatedAgain(r, v)
    \/ RunCohortCalibration

CalibrationSpec == CalibrationInit /\ [][CalibrationNext]_calibrationVars
----------------------------------------------------------------------------
CalibrationTypeOK ==
    /\ \A r \in DOMAIN cohort : cohort[r].score \in Nat
    /\ calibrations \in 0 .. MaxCalibrations /\ again \in BOOLEAN

Stored == [r \in DOMAIN cohort |-> cohort[r].score]

\* The bounded fits sit at or below the median of the reference fits.
UnderReference ==
    dimension = CER_DIMENSION /\ Cluster(cohort, "reference_fit") # {} =>
        \A r \in Cluster(cohort, "bounded_fit") : Stored[r] <= Median(Stored, Cluster(cohort, "reference_fit"))

\* The next calibration would change nothing.
Stable == Calibrated(dimension, cohort) = cohort

\* A calibration leaves rows the next one corrects, as it adjusts each once and takes
\* a row it has capped out of the later rules.  Calibrated again and again a cohort
\* settles all the same.  After two in a row no bounded fit is over the reference
\* fits, and every other dimension is settled; after four this one is: a failed row
\* that was set to what its cluster shares is capped, set to it once more when a row
\* above it has been capped too, and capped for good.
CalibrationSettles ==
    /\ calibrations >= 2 => UnderReference /\ (dimension # CER_DIMENSION => Stable)
    /\ calibrations >= 4 => Stable

\* (Does not hold.)  Two calibrations in a row settle every dimension.
TwoSettle == calibrations >= 2 => Stable

\* No score above 5.5 is left by a calibration, whatever the cohort.
NeverSix == calibrations > 0 => \A r \in DOMAIN cohort : cohort[r].score <= MAX_VALID_SCORE

\* A calibration that caps no row leaves no bounded fit over the reference fits:
\* neither what it caps to nor the reference fits move by the outliers it corrects.
UncappedUnderReference ==
    [][RunCohortCalibration /\ HardCapped(dimension, cohort).adjusted = {} => UnderReference']_calibrationVars

\* (Does not hold.)  The same after one calibration: "a bounded-fit submission's
\* CER must sit at or below the reference-fit cluster's CER median".
OneCalibrationSettles == calibrations >= 1 => UnderReference

\* (Does not hold.)  "a submission that failed execution is capped at CER 5.0":
\* a row at 5.0 is an outlier among bounded fits that sit at a median above it.
FailedStaysCapped ==
    calibrations >= 1 /\ dimension = CER_DIMENSION =>
        \A r \in DOMAIN cohort : cohort[r].outcome.hadError => cohort[r].score <= ERROR_CER_CAP
=============================================================================
