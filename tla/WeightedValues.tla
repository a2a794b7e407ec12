--------------------------- MODULE WeightedValues ---------------------------
(***************************************************************************)
(* The choice among weighted values.  The fraction that a hash or a random *)
(* number gives is bucket/Buckets; weights are added up as int32, and the  *)
(* comparison of floats is done exactly.                                   *)
(***************************************************************************)
EXTENDS Integers, Sequences, FiniteSetsExt

CONSTANTS
    Buckets,        \* the fractions 0, 1/Buckets, ..., 1
    MaxInt32        \* 2^31 - 1 in the code

ASSUME WeightsAssumption == Buckets \in Nat \ {0} /\ MaxInt32 \in Nat

\* Two's complement.
Wrap(n) == ((n + MaxInt32 + 1) % (2 * (MaxInt32 + 1))) - (MaxInt32 + 1)

SumTo(weights, n) ==
    LET sum[i \in 0 .. Len(weights)] == IF i = 0 THEN 0 ELSE sum[i - 1] + weights[i]
    IN  sum[n]

RunningSum(weights, n) == Wrap(SumTo(weights, n))

ReachedStrictlyMistake(weights, bucket, i) ==
    RunningSum(weights, i) * Buckets > bucket * RunningSum(weights, Len(weights))

\* float64(runningSum) >= fraction * float64(sum)
Reached(weights, bucket, i) ==
    RunningSum(weights, i) * Buckets >= bucket * RunningSum(weights, Len(weights))

\* The first index at which the running sum reaches the threshold, else the
\* first of all.
Resolve(weights, bucket) ==
    LET Reaching == { i \in DOMAIN weights : Reached(weights, bucket, i) }
    IN  IF Reaching = {} THEN 1 ELSE Min(Reaching)
=============================================================================
