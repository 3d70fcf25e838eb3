-------------------------- MODULE AggregationScan --------------------------
(***************************************************************************)
(* The two median loops of keeper/aggregate.go as they are written: sort   *)
(* the entries, sum the weights, then scan for the entry at which the      *)
(* running sum reaches half.  Shows that they compute the medians of       *)
(* Aggregation, which the Oracle specification uses, and how far from the  *)
(* exact ratio the rounded quorum test can be.  The same prices serve as   *)
(* quotes to the feeder's median.                                          *)
(***************************************************************************)
EXTENDS FeederMedian, SequencesExt

CONSTANTS
    MaxEntries,   \* bound: feeds of one pair in a window
    ScanPrices,   \* prices they report
    Fractions,    \* quorum fractions
    Deviations    \* cfg.Quality.MaxDeviation of a feeder

ASSUME ScanAssumption ==
    /\ MaxEntries \in Nat /\ ScanPrices \subseteq Nat \ {0}
    /\ Fractions \subseteq 1 .. Prec /\ Deviations \subseteq 1 .. Prec

VARIABLES
    price, weight,  \* the feeds, by the rank of the operator address
    at,             \* the statement reached: "sort", "sum", "scan" or "done"
    sorted,         \* the entries in scan order
    i, total, cum,  \* the loops: next entry, sum of the weights, running sum
    result          \* the price returned

vars == <<price, weight, at, sorted, i, total, cum, result>>

Entries == DOMAIN price

\* The comparison function given to sort.Slice.
PriceThenValoper(u, v) ==
    \/ price[u] < price[v]
    \/ price[u] = price[v] /\ u < v

Init ==
    /\ \E n \in 0 .. MaxEntries :
          /\ price \in [1 .. n -> ScanPrices]
          /\ weight \in [1 .. n -> 1 .. MaxUnits]
    /\ at = "sort"
    /\ sorted = << >>
    /\ i = 0 /\ total = 0 /\ cum = 0 /\ result = 0

\* sort.Slice leaves the entries in an order of the comparison function.
Sort ==
    /\ at = "sort"
    /\ sorted' \in {s \in SetToSeqs(Entries) :
                      \A j, k \in DOMAIN s : j < k => PriceThenValoper(s[j], s[k])}
    /\ i' = 1
    /\ at' = "sum"
    /\ UNCHANGED <<price, weight, total, cum, result>>

\* The loop that sums the weights.
Sum ==
    /\ at = "sum"
    /\ IF i \in DOMAIN sorted
       THEN /\ total' = total + weight[sorted[i]]
            /\ i' = i + 1
            /\ UNCHANGED at
       ELSE /\ i' = 1
            /\ at' = "scan"
            /\ UNCHANGED total
    /\ UNCHANGED <<price, weight, sorted, cum, result>>

\* Mutant: half is rounded up.
HalfUp == (total + 1) \div 2

\* half := total / 2
Half == total \div 2

\* One iteration of the loop that returns the median.
Scan ==
    /\ at = "scan" /\ i \in DOMAIN sorted
    /\ cum' = cum + weight[sorted[i]]
    /\ IF cum' >= Half
       THEN result' = price[sorted[i]] /\ at' = "done" /\ UNCHANGED i
       ELSE i' = i + 1 /\ UNCHANGED <<at, result>>
    /\ UNCHANGED <<price, weight, sorted, total>>

\* The fall-through return of a zero decimal.
ReturnZero ==
    /\ at = "scan" /\ i \notin DOMAIN sorted
    /\ result' = 0
    /\ at' = "done"
    /\ UNCHANGED <<price, weight, sorted, i, total, cum>>

Done == at = "done" /\ UNCHANGED vars

Next == Sort \/ Sum \/ Scan \/ ReturnZero \/ Done

Spec == Init /\ [][Next]_vars

\* Mutant: the upper median.
ScanUpper ==
    IF sorted = << >> THEN 0 ELSE price[sorted[Len(sorted) \div 2 + 1]]

\* UnweightedMedian: the entry at (n-1)/2, counting from zero.
ScanUnweighted ==
    IF sorted = << >> THEN 0 ELSE price[sorted[(Len(sorted) - 1) \div 2 + 1]]

----------------------------------------------------------------------------
\* What the scan of WeightedMedian returns is the least price whose cumulative
\* weight reaches half of the total: ties on price and the order of operator
\* addresses never show, and only an empty window returns zero.
ScanIsWeightedMedian ==
    at = "done" =>
       /\ result = WeightedMedian(Entries, price, weight)
       /\ result = 0 <=> Entries = {}

\* The reference price picked by index after the sort is the lower median by
\* count.
ScanIsUnweightedMedian ==
    at # "sort" => ScanUnweighted = UnweightedMedian(Entries, price)

\* The quorum test on the rounded ratio never admits a window that is short of
\* the exact fraction by more than half a unit of precision, and never turns
\* away one that reaches it.
QuorumWithinHalfUnit ==
    \A S \in SUBSET Entries, q \in Fractions :
       LET submitted == Weight(weight, S)
           all == Weight(weight, Entries)
           met == QuorumMet(submitted, all, q)
       IN  /\ met => 2 * submitted * Prec + all >= 2 * q * all
           /\ all > 0 /\ submitted * Prec >= q * all => met

\* However the sources of a pair disagree, for every deviation and minimum a
\* feeder may be configured with, a coherent majority of them decides what
\* CrossSourceMedian caches.
SourcesDecide ==
    \A dev \in Deviations, min \in 1 .. MaxEntries :
       Entries # {} => MajorityOfSourcesDecides(Entries, price, dev, min)
=============================================================================
