---------------------------- MODULE FeederMedian ----------------------------
(***************************************************************************)
(* The cross-source median of the feeder sidecar: feeder/aggregate.go.     *)
(* The quotes of a pair are a function price from the set S of sources     *)
(* that answered to decimals, see Aggregation.                             *)
(***************************************************************************)
EXTENDS Aggregation

\* LegacyDec.Mul, and LegacyDec.QuoInt64(2), which truncates towards zero.
Mul(x, y) == ChopPrecisionAndRound(x * y)
HalfOf(x) == IF x < 0 THEN -((-x) \div 2) ELSE x \div 2

\* sorted[k-1]: the least price that k quotes do not exceed.
Sorted(S, price, k) ==
    Min({price[v] : v \in {u \in S : Cardinality(UpTo(price, S, price[u])) >= k}})

\* Median of at least one quote; an even count averages the middle two.
Median(S, price) ==
    LET n == Cardinality(S)
    IN  IF n % 2 = 1
        THEN Sorted(S, price, n \div 2 + 1)
        ELSE HalfOf(Sorted(S, price, n \div 2) + Sorted(S, price, n \div 2 + 1))

\* Mutant: a quote on the edge of the band is dropped.
DropDeviatingEdge(S, price, maxDeviation) ==
    LET mid == Median(S, price)
    IN  {v \in S : Abs(price[v] - mid) < Mul(mid, maxDeviation)}

\* The quotes that are within the band around the median of all of them; all
\* quotes, when that median is not positive.
DropDeviating(S, price, maxDeviation) ==
    LET mid == Median(S, price)
    IN  IF S = {} \/ mid <= 0 THEN S
        ELSE {v \in S : Abs(price[v] - mid) <= Mul(mid, maxDeviation)}

\* The median of the quotes that are left, or none for ErrInsufficientSources.
CrossSourceMedian(S, price, maxDeviation, minProviders) ==
    LET filtered == DropDeviating(S, price, maxDeviation)
    IN  IF Cardinality(S) < minProviders \/ Cardinality(filtered) < minProviders
        THEN {} ELSE {Median(filtered, price)}

\* Sources that are a majority and lie within the band of the lowest of them
\* decide: the feeder has a price, and it is between their lowest and their
\* highest quote whatever the other sources answer.  With the outlier check
\* of the chain in mind: a bad source cannot get the validator slashed.
MajorityOfSourcesDecides(S, price, maxDeviation, minProviders) ==
    \A H \in SUBSET S :
       LET lo == Min({price[v] : v \in H})
           hi == Max({price[v] : v \in H})
       IN  /\ 2 * Cardinality(H) > Cardinality(S)
           /\ Cardinality(H) >= minProviders
           /\ lo > 0 /\ hi - lo <= Mul(lo, maxDeviation)
           => LET median == CrossSourceMedian(S, price, maxDeviation, minProviders)
              IN  median # {} /\ \A m \in median : lo <= m /\ m <= hi
=============================================================================
