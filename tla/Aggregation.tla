---------------------------- MODULE Aggregation ----------------------------
(***************************************************************************)
(* The arithmetic of oracle aggregation: keeper/aggregate.go and the       *)
(* fixed-point division of cosmossdk.io/math that it and the EndBlocker    *)
(* use.                                                                    *)
(*                                                                         *)
(* A LegacyDec is the integer number of its smallest units: Prec of them   *)
(* make 1 (10^18 in the code).                                             *)
(***************************************************************************)
EXTENDS Sums, FiniteSetsExt

CONSTANT Prec   \* units of a LegacyDec in 1

ASSUME PrecAssumption == Prec \in Nat \ {0}

Abs(x) == IF x < 0 THEN -x ELSE x

\* chopPrecisionAndRound: drop the last log10(Prec) digits, half to even.
ChopPrecisionAndRound(x) ==
    LET quo == x \div Prec
        rem == x % Prec
    IN  IF \/ 2 * rem < Prec
           \/ 2 * rem = Prec /\ quo % 2 = 0
        THEN quo ELSE quo + 1

\* LegacyDec.Quo on non-negative operands: the quotient is truncated at
\* twice the precision and then rounded.  The common scale of x and y
\* cancels, so integers (LegacyNewDec) and decimals are divided alike.
Quo(x, y) == ChopPrecisionAndRound((x * Prec * Prec) \div y)

----------------------------------------------------------------------------
\* The entries of S priced at p or below: a prefix of S sorted by price.
UpTo(price, S, p) == {v \in S : price[v] <= p}

\* Mutant: the two middle prices are averaged.
WeightedMedianMean(S, price, w) ==
    LET all == Weight(w, S)
        lower == {v \in S : 2 * Weight(w, UpTo(price, S, price[v])) >= all}
        upper == {v \in S : 2 * Weight(w, UpTo(price, S, price[v])) > all}
    IN  IF S = {} THEN 0
        ELSE (Min({price[v] : v \in lower}) + Min({price[v] : v \in upper})) \div 2

\* The price of the first entry, in price order, at which the cumulative
\* weight reaches half (integer division) of the total.  Entries of one price
\* are adjacent after the sort, so the tie-break on the operator address does
\* not show in the result.  Zero when no entry reaches it.
WeightedMedian(S, price, w) ==
    LET half == Weight(w, S) \div 2
        reached == {v \in S : Weight(w, UpTo(price, S, price[v])) >= half}
    IN  IF reached = {} THEN 0 ELSE Min({price[v] : v \in reached})

\* prices[(n-1)/2] of the sorted prices: the least price that (n-1)/2 + 1
\* entries do not exceed.  Zero when there is no entry.
UnweightedMedian(S, price) ==
    LET n == Cardinality(S)
        reached == {v \in S : Cardinality(UpTo(price, S, price[v])) >= (n - 1) \div 2 + 1}
    IN  IF reached = {} THEN 0 ELSE Min({price[v] : v \in reached})

\* Mutant: the quorum must be exceeded.
QuorumMetStrict(submittedPower, totalPower, quorumFraction) ==
    /\ totalPower # 0
    /\ Quo(submittedPower, totalPower) > quorumFraction

\* Whether submittedPower / totalPower reaches the quorum fraction.
QuorumMet(submittedPower, totalPower, quorumFraction) ==
    /\ totalPower # 0
    /\ Quo(submittedPower, totalPower) >= quorumFraction

============================================================================
