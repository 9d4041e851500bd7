------------------------- MODULE BucketDistribution -------------------------
(***************************************************************************)
(* crates/pari-index: BucketDistribution::from_sizes, the exact summary of *)
(* bucket sizes that stats returns, with nearest-rank percentiles.  The    *)
(* sizes arrive in any order and are sorted, so they are a bag: how many   *)
(* buckets have each size.  A run grows the bag one bucket at a time.      *)
(***************************************************************************)
EXTENDS Naturals, FiniteSets, FiniteSetsExt, Functions

CONSTANTS
  MaxSize,    \* sizes are 0 .. MaxSize
  MaxBuckets  \* bound: buckets of each size

DistributionAssumption == MaxSize \in Nat /\ MaxBuckets \in Nat

VARIABLE sizes

Init == sizes = [n \in 0..MaxSize |-> 0]

Add(n) ==
  /\ sizes[n] < (IF n = 0 THEN 1 ELSE MaxBuckets)
  /\ sizes' = [sizes EXCEPT ![n] = @ + 1]

Next == \E n \in 0..MaxSize : Add(n)

Spec == Init /\ [][Next]_sizes

-----------------------------------------------------------------------------
(* Empty buckets are filtered out. *)
Positive == 1..MaxSize

UpTo(n) == LET total[i \in 0..n] == IF i = 0 THEN 0 ELSE total[i - 1] + sizes[i] IN total[n]

Buckets == UpTo(MaxSize)

(* Entry r of the sorted sizes. *)
Sorted(r) == Min({n \in Positive : UpTo(n) >= r})

(* ceil(n * percentile / 100), split so that the product does not overflow. *)
DivCeil(x, y) == (x + y - 1) \div y
Truncated(n, p) == (n \div 100) * p + ((n % 100) * p) \div 100
Rank(n, p) == (n \div 100) * p + DivCeil((n % 100) * p, 100)

NearestRank(p) == Sorted(Rank(Buckets, p))

Summary ==
  IF Buckets = 0
  THEN [buckets |-> 0, memberships |-> 0, minimum |-> 0, p50 |-> 0, p95 |-> 0, p99 |-> 0, maximum |-> 0]
  ELSE [buckets |-> Buckets,
        memberships |-> SumFunction([n \in Positive |-> n * sizes[n]]),
        minimum |-> Sorted(1),
        p50 |-> NearestRank(50), p95 |-> NearestRank(95), p99 |-> NearestRank(99),
        maximum |-> Sorted(Buckets)]

-----------------------------------------------------------------------------
(* A percentile is the smallest size that at least that share of the       *)
(* non-empty buckets do not exceed; the rank is never 0 and never beyond   *)
(* the last bucket, also around multiples of 100 buckets.                  *)
IsPercentile(value, p) ==
  /\ 100 * UpTo(value) >= p * Buckets
  /\ value > 1 => 100 * UpTo(value - 1) < p * Buckets
  /\ sizes[value] > 0

PercentilesExact ==
  Buckets > 0 =>
    /\ \A p \in {50, 95, 99} : Rank(Buckets, p) \in 1..Buckets
    /\ IsPercentile(Summary.p50, 50)
    /\ IsPercentile(Summary.p95, 95)
    /\ IsPercentile(Summary.p99, 99)

=============================================================================
