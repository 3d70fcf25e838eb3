----------------------- MODULE AggregationScanProofs -----------------------
(***************************************************************************)
(* Proofs that the loops of keeper/aggregate.go compute the medians, how   *)
(* far the quorum test is from exact, and that a coherent majority of its  *)
(* sources decides what a feeder reports: for any number of entries.       *)
(***************************************************************************)
EXTENDS AggregationScan, AggregationProofs

----------------------------------------------------------------------------
(* The quorum test.                                                        *)

\* The rounded ratio against the exact one.
LEMMA QuorumExact ==
  ASSUME NEW submitted \in Nat, NEW all \in Nat, NEW q \in Nat
  PROVE  /\ QuorumMet(submitted, all, q) => 2 * submitted * Prec + all >= 2 * q * all
         /\ all > 0 /\ submitted * Prec >= q * all => QuorumMet(submitted, all, q)
<1>p. Prec \in Nat \ {0}
  BY PrecAssumption
<1>1. ASSUME QuorumMet(submitted, all, q)
      PROVE  2 * submitted * Prec + all >= 2 * q * all
  <2> DEFINE R == Quo(submitted, all)
  <2>1. all \in Nat \ {0} /\ R >= q
    BY <1>1 DEF QuorumMet
  <2>2. R \in Nat
    BY <2>1, QuoBetween
  <2>3. 2 * (R * all) <= 2 * (submitted * Prec) + all
    BY <2>1, QuoError
  <2> HIDE DEF R
  <2>4. q * all <= R * all /\ q * all \in Nat /\ R * all \in Nat
    BY <2>1, <2>2, TimesMonotone
  <2>5. /\ 2 * submitted * Prec = 2 * (submitted * Prec)
        /\ 2 * q * all = 2 * (q * all)
        /\ submitted * Prec \in Nat
    BY <1>p
  <2> QED BY <2>3, <2>4, <2>5
<1>2. ASSUME all > 0, submitted * Prec >= q * all
      PROVE  QuorumMet(submitted, all, q)
  <2>1. all \in Nat \ {0} /\ q * all \in Nat /\ submitted * Prec \in Nat
    BY <1>p, <1>2
  <2>2. q * all <= submitted * Prec
    BY <1>2, <2>1
  <2>3. q <= Quo(submitted, all) /\ Quo(submitted, all) \in Nat
    BY <2>1, <2>2, QuoBetween
  <2> QED BY <2>1, <2>3 DEF QuorumMet
<1> QED BY <1>1, <1>2

----------------------------------------------------------------------------
(* The median of a feeder's sources.                                       *)

\* The k-th lowest of the quotes lies between the bounds of a set of sources
\* that has k members and leaves out fewer than k.
LEMMA SortedBetween ==
  ASSUME NEW S, IsFiniteSet(S), NEW p, \A v \in S : p[v] \in Nat,
         NEW H \in SUBSET S, NEW lo \in Nat, NEW hi \in Nat,
         \A v \in H : lo <= p[v] /\ p[v] <= hi,
         NEW k \in Nat, k <= Cardinality(H), Cardinality(S) - Cardinality(H) < k
  PROVE  Sorted(S, p, k) \in Nat /\ lo <= Sorted(S, p, k) /\ Sorted(S, p, k) <= hi
<1> DEFINE reached == {u \in S : Cardinality(UpTo(p, S, p[u])) >= k}
           C == {p[v] : v \in reached}
<1>1. IsFiniteSet(H) /\ Cardinality(H) \in Nat /\ Cardinality(S) \in Nat
      /\ Cardinality(H) <= Cardinality(S)
  BY FS_Subset, FS_CardinalityType
<1>2. H # {}
  BY <1>1, FS_EmptySet
<1>3. PICK h \in H : \A u \in H : p[u] <= p[h]
  <2>1. [v \in H |-> p[v]] \in [H -> Nat]
    OBVIOUS
  <2>2. \E h \in H : \A u \in H : [v \in H |-> p[v]][u] <= [v \in H |-> p[v]][h]
    BY <1>1, <1>2, <2>1, HighestEntry
  <2> QED BY <2>2
<1>4. h \in reached
  <2> DEFINE B == UpTo(p, S, p[h])
  <2>1. H \in SUBSET B /\ B \in SUBSET S
    BY <1>3 DEF UpTo
  <2>2. IsFiniteSet(B) /\ Cardinality(B) \in Nat
    BY <2>1, FS_Subset, FS_CardinalityType
  <2>3. Cardinality(H) <= Cardinality(B)
    BY <2>1, <2>2, FS_Subset
  <2> QED BY <1>1, <2>2, <2>3
<1>5. C \in SUBSET Nat /\ p[h] \in C
  BY <1>4
<1>6. Min(C) \in C /\ Min(C) <= p[h]
  BY <1>5, MinIsLeast
<1>7. PICK u \in reached : Min(C) = p[u]
  BY <1>6
<1>8. p[u] >= lo
  <2> SUFFICES ASSUME p[u] < lo PROVE FALSE
    BY <1>7
  <2> DEFINE B == UpTo(p, S, p[u])
  <2>1. B \in SUBSET S /\ B \cap H = {}
    BY <1>7 DEF UpTo
  <2>2. IsFiniteSet(B) /\ Cardinality(B) \in Nat
    BY <2>1, FS_Subset, FS_CardinalityType
  <2>3. Cardinality(B \cap H) = 0
    BY <2>1, FS_EmptySet
  <2>4. Cardinality(B \cup H) = Cardinality(B) + Cardinality(H) - Cardinality(B \cap H)
    BY <1>1, <2>2, FS_Union, Zenon
  <2>5. B \cup H \in SUBSET S
    BY <2>1
  <2>6. Cardinality(B \cup H) <= Cardinality(S)
    BY <2>5, FS_Subset
  <2>7. Cardinality(B) >= k
    BY <1>7
  <2> QED BY <1>1, <2>2, <2>3, <2>4, <2>6, <2>7
<1>9. Sorted(S, p, k) = Min(C)
  BY DEF Sorted
<1>10. p[h] \in Nat /\ p[h] <= hi /\ p[u] \in Nat
  BY <1>3, <1>7
<1> QED BY <1>6, <1>7, <1>8, <1>9, <1>10

\* The median lies between the bounds of any majority.
LEMMA MedianBetween ==
  ASSUME NEW S, IsFiniteSet(S), NEW p, \A v \in S : p[v] \in Nat,
         NEW H \in SUBSET S, NEW lo \in Nat, NEW hi \in Nat,
         \A v \in H : lo <= p[v] /\ p[v] <= hi,
         2 * Cardinality(H) > Cardinality(S)
  PROVE  Median(S, p) \in Nat /\ lo <= Median(S, p) /\ Median(S, p) <= hi
<1> DEFINE n == Cardinality(S)
           h == Cardinality(H)
           a == Sorted(S, p, n \div 2)
           b == Sorted(S, p, n \div 2 + 1)
<1>1. h \in Nat /\ n \in Nat /\ h <= n
  BY FS_Subset, FS_CardinalityType
<1>2. b \in Nat /\ lo <= b /\ b <= hi
  <2>1. n \div 2 + 1 \in Nat /\ n \div 2 + 1 <= h /\ n - h < n \div 2 + 1
    BY <1>1
  <2> QED BY <2>1, SortedBetween
<1>3. ASSUME n % 2 # 1 PROVE a \in Nat /\ lo <= a /\ a <= hi
  <2>1. n \div 2 \in Nat /\ n \div 2 <= h /\ n - h < n \div 2
    BY <1>1, <1>3
  <2> QED BY <2>1, SortedBetween
<1>4. Median(S, p) = IF n % 2 = 1 THEN b ELSE HalfOf(a + b)
  BY DEF Median
<1> HIDE DEF a, b, n
<1>5. CASE n % 2 = 1
  BY <1>2, <1>4, <1>5
<1>6. CASE n % 2 # 1
  <2>1. HalfOf(a + b) = (a + b) \div 2
    BY <1>2, <1>3, <1>6 DEF HalfOf
  <2> QED BY <1>2, <1>3, <1>4, <1>6, <2>1
<1> QED BY <1>5, <1>6

\* A coherent majority survives the deviation filter and is a majority of what
\* is left.
LEMMA MajorityDecidesMedian ==
  ASSUME NEW S, IsFiniteSet(S), NEW p, \A v \in S : p[v] \in Nat,
         NEW dev \in Nat, NEW min \in Nat
  PROVE  MajorityOfSourcesDecides(S, p, dev, min)
<1> SUFFICES ASSUME NEW H \in SUBSET S,
                    2 * Cardinality(H) > Cardinality(S),
                    Cardinality(H) >= min,
                    Min({p[v] : v \in H}) > 0,
                    Max({p[v] : v \in H}) - Min({p[v] : v \in H})
                      <= Mul(Min({p[v] : v \in H}), dev)
             PROVE  /\ CrossSourceMedian(S, p, dev, min) # {}
                    /\ \A m \in CrossSourceMedian(S, p, dev, min) :
                          /\ Min({p[v] : v \in H}) <= m
                          /\ m <= Max({p[v] : v \in H})
  BY DEF MajorityOfSourcesDecides
<1> DEFINE C == {p[v] : v \in H}
           lo == Min(C)
           hi == Max(C)
           mid == Median(S, p)
           F == DropDeviating(S, p, dev)
<1>1. IsFiniteSet(H) /\ Cardinality(H) \in Nat /\ Cardinality(S) \in Nat
      /\ Cardinality(H) <= Cardinality(S)
  BY FS_Subset, FS_CardinalityType
<1>2. H # {} /\ S # {}
  BY <1>1, FS_EmptySet
<1>3. PICK h \in H : \A u \in H : p[u] <= p[h]
  <2>1. [v \in H |-> p[v]] \in [H -> Nat]
    OBVIOUS
  <2>2. \E h \in H : \A u \in H : [v \in H |-> p[v]][u] <= [v \in H |-> p[v]][h]
    BY <1>1, <1>2, <2>1, HighestEntry
  <2> QED BY <2>2
<1>4. C \in SUBSET Nat /\ C # {} /\ p[h] \in C
  BY <1>2
<1>5. lo \in C /\ \A c \in C : lo <= c
  BY <1>4, MinIsLeast
<1>6. hi = p[h]
  <2>1. C \in SUBSET Int /\ \A c \in C : c <= p[h]
    BY <1>3
  <2> QED BY <1>4, <2>1, MaxIs
<1>7. lo \in Nat /\ hi \in Nat /\ \A v \in H : lo <= p[v] /\ p[v] <= hi
  BY <1>3, <1>5, <1>6
<1>8. lo > 0 /\ hi - lo <= Mul(lo, dev)
  OBVIOUS
<1> HIDE DEF C, lo, hi
<1>9. mid \in Nat /\ lo <= mid /\ mid <= hi
  BY <1>7, MedianBetween
<1>10. Mul(lo, dev) <= Mul(mid, dev) /\ Mul(lo, dev) \in Nat /\ Mul(mid, dev) \in Nat
  <2>1. lo * dev <= mid * dev /\ lo * dev \in Nat /\ mid * dev \in Nat
    BY <1>7, <1>9, TimesMonotone
  <2> QED BY <2>1, ChopMonotone, ChopBounds DEF Mul
<1> HIDE DEF mid
<1>11. F = {v \in S : Abs(p[v] - mid) <= Mul(mid, dev)}
  BY <1>2, <1>7, <1>8, <1>9 DEF DropDeviating, mid
<1>12. H \in SUBSET F /\ F \in SUBSET S
  <2>1. ASSUME NEW v \in H PROVE Abs(p[v] - mid) <= Mul(mid, dev)
    <3>1. Abs(p[v] - mid) <= hi - lo
      BY <1>7, <1>9 DEF Abs
    <3>2. Abs(p[v] - mid) \in Int
      BY <1>9 DEF Abs
    <3> QED BY <1>7, <1>8, <1>10, <3>1, <3>2
  <2> QED BY <1>11, <2>1
<1> HIDE DEF F
<1>13. IsFiniteSet(F) /\ Cardinality(F) \in Nat /\ Cardinality(F) <= Cardinality(S)
  BY <1>12, FS_Subset, FS_CardinalityType
<1>14. Cardinality(H) <= Cardinality(F)
  BY <1>12, <1>13, FS_Subset
<1>15. Median(F, p) \in Nat /\ lo <= Median(F, p) /\ Median(F, p) <= hi
  <2>1. 2 * Cardinality(H) > Cardinality(F)
    BY <1>1, <1>13
  <2>2. \A v \in F : p[v] \in Nat
    BY <1>12
  <2> QED BY <1>7, <1>12, <1>13, <2>1, <2>2, MedianBetween
<1>16. CrossSourceMedian(S, p, dev, min) = {Median(F, p)}
  <2>1. ~ (Cardinality(S) < min \/ Cardinality(F) < min)
    BY <1>1, <1>13, <1>14
  <2> QED BY <2>1 DEF CrossSourceMedian, F
<1> QED BY <1>15, <1>16 DEF lo, hi, C
----------------------------------------------------------------------------
(* Entries 1 .. n in an order s of their prices p, and its first k.        *)

Order(n, p, s) ==
    /\ p \in [1 .. n -> Nat \ {0}]
    /\ s \in [1 .. n -> 1 .. n]
    /\ \A j, k \in 1 .. n : s[j] = s[k] => j = k
    /\ \A j, k \in 1 .. n : j < k => p[s[j]] <= p[s[k]]

Prefix(s, k) == {s[j] : j \in 1 .. k}

\* The entry at a place of the order and its price.
LEMMA OrderAt ==
  ASSUME NEW n \in Nat, NEW p, NEW s, Order(n, p, s), NEW j \in 1 .. n
  PROVE  s[j] \in 1 .. n /\ p[s[j]] \in Nat \ {0} /\ p \in [1 .. n -> Nat \ {0}]
<1>1. s[j] \in 1 .. n /\ p \in [1 .. n -> Nat \ {0}]
  BY DEF Order
<1> QED BY <1>1

\* The first k entries are k entries, and the first n are all of them.
LEMMA PrefixCardinality ==
  ASSUME NEW n \in Nat, NEW p, NEW s, Order(n, p, s), NEW k \in 0 .. n
  PROVE  /\ Prefix(s, k) \in SUBSET (1 .. n)
         /\ IsFiniteSet(Prefix(s, k)) /\ Cardinality(Prefix(s, k)) = k
         /\ k = n => Prefix(s, k) = 1 .. n
<1> DEFINE P == Prefix(s, k)
           f == [j \in 1 .. k |-> s[j]]
<1>1. P \in SUBSET (1 .. n)
  BY DEF Prefix, Order
<1>2. IsFiniteSet(1 .. n) /\ Cardinality(1 .. n) = n
  <2>1. n \in Int /\ 1 \in Int /\ (IF 1 > n THEN 0 ELSE n - 1 + 1) = n
    OBVIOUS
  <2> QED BY <2>1, FS_Interval, Zenon
<1>3. IsFiniteSet(1 .. k) /\ Cardinality(1 .. k) = k
  <2>1. k \in Int /\ 1 \in Int /\ (IF 1 > k THEN 0 ELSE k - 1 + 1) = k
    OBVIOUS
  <2> QED BY <2>1, FS_Interval, Zenon
<1>4. IsFiniteSet(P)
  BY <1>1, <1>2, FS_Subset
<1>5. f \in Injection(1 .. k, P) /\ f \in Surjection(1 .. k, P)
  <2>1. f \in [1 .. k -> P] /\ \A e \in P : \E j \in 1 .. k : f[j] = e
    BY DEF Prefix
  <2>2. \A a, b \in 1 .. k : f[a] = f[b] => a = b
    <3>1. ASSUME NEW a \in 1 .. k, NEW b \in 1 .. k, f[a] = f[b] PROVE a = b
      <4>1. a \in 1 .. n /\ b \in 1 .. n /\ s[a] = s[b]
        BY <3>1
      <4> QED BY <4>1 DEF Order
    <3> QED BY <3>1
  <2> HIDE DEF f, P
  <2> QED BY <2>1, <2>2 DEF Injection, IsInjective, Surjection
<1>6. Cardinality(1 .. k) = Cardinality(P)
  BY <1>4, <1>5, FS_Injection
<1>7. k = n => P = 1 .. n
  BY <1>1, <1>2, <1>3, <1>6, FS_Subset
<1> QED BY <1>1, <1>3, <1>4, <1>6, <1>7

\* The k-th entry adds its weight to the running sum.
LEMMA PrefixWeight ==
  ASSUME NEW n \in Nat, NEW p, NEW s, Order(n, p, s), NEW k \in 1 .. n,
         NEW w \in [1 .. n -> 1 .. MaxUnits]
  PROVE  Weight(w, Prefix(s, k)) = Weight(w, Prefix(s, k - 1)) + w[s[k]]
<1>1. k - 1 \in 0 .. n /\ s[k] \in 1 .. n
  BY DEF Order
<1>2. Prefix(s, k) = Prefix(s, k - 1) \cup {s[k]} /\ Prefix(s, k - 1) \cap {s[k]} = {}
  <2>1. 1 .. k = (1 .. k - 1) \cup {k}
    OBVIOUS
  <2>2. Prefix(s, k) = Prefix(s, k - 1) \cup {s[k]}
    BY <2>1 DEF Prefix
  <2>3. ASSUME NEW j \in 1 .. k - 1 PROVE s[j] # s[k]
    <3>1. j \in 1 .. n /\ j # k
      OBVIOUS
    <3> QED BY <3>1 DEF Order
  <2>4. \A e \in Prefix(s, k - 1) : e # s[k]
    BY <2>3 DEF Prefix
  <2> QED BY <2>2, <2>4
<1>3. IsFiniteSet(Prefix(s, k - 1)) /\ IsFiniteSet({s[k]})
  BY <1>1, PrefixCardinality, FS_Singleton
<1>4. w[s[k]] \in 0 .. MaxUnits
  BY <1>1, MaxUnitsAssumption
<1>5. Weight(w, {s[k]}) = w[s[k]]
  BY <1>4, WeightSingle
<1> QED BY <1>2, <1>3, <1>5, WeightUnion

\* What is priced at the k-th entry's price or below, and what is below it.
LEMMA PrefixUpTo ==
  ASSUME NEW n \in Nat, NEW p, NEW s, Order(n, p, s), NEW k \in 1 .. n
  PROVE  /\ Prefix(s, k) \in SUBSET UpTo(p, 1 .. n, p[s[k]])
         /\ \A v \in 1 .. n : p[v] < p[s[k]] =>
               UpTo(p, 1 .. n, p[v]) \in SUBSET Prefix(s, k - 1)
<1>1. Prefix(s, k) \in SUBSET UpTo(p, 1 .. n, p[s[k]])
  <2> SUFFICES ASSUME NEW j \in 1 .. k PROVE s[j] \in 1 .. n /\ p[s[j]] <= p[s[k]]
    BY DEF Prefix, UpTo
  <2>1. j \in 1 .. n /\ (j < k \/ j = k)
    OBVIOUS
  <2>2. s[j] \in 1 .. n /\ s[k] \in 1 .. n /\ p[s[k]] \in Nat
    BY <2>1, OrderAt
  <2>3. j < k => p[s[j]] <= p[s[k]]
    BY <2>1 DEF Order
  <2> QED BY <2>1, <2>2, <2>3
<1>2. ASSUME NEW v \in 1 .. n, p[v] < p[s[k]], NEW u \in UpTo(p, 1 .. n, p[v])
      PROVE  u \in Prefix(s, k - 1)
  <2>1. u \in 1 .. n /\ p[u] < p[s[k]]
    <3>1. u \in 1 .. n /\ p[u] <= p[v]
      BY <1>2 DEF UpTo
    <3>2. p[u] \in Nat /\ p[v] \in Nat /\ p[s[k]] \in Nat
      BY <3>1, OrderAt
    <3> QED BY <1>2, <3>1, <3>2
  <2>2. Prefix(s, n) = 1 .. n
    BY PrefixCardinality
  <2>3. PICK j \in 1 .. n : u = s[j]
    BY <2>1, <2>2 DEF Prefix
  <2>4. ~ (k < j) /\ k # j
    <3>1. p[s[j]] \in Nat /\ p[s[k]] \in Nat
      BY OrderAt
    <3>2. k < j => p[s[k]] <= p[s[j]]
      BY DEF Order
    <3> QED BY <2>1, <2>3, <3>1, <3>2
  <2>5. j \in 1 .. k - 1
    BY <2>3, <2>4
  <2> QED BY <2>3, <2>5 DEF Prefix
<1> QED BY <1>1, <1>2

\* The least of the prices in a set of entries that has v and nothing below it.
LEMMA LeastPrice ==
  ASSUME NEW n \in Nat, NEW p \in [1 .. n -> Nat \ {0}], NEW R \in SUBSET (1 .. n),
         NEW v \in R, \A u \in R : ~ (p[u] < p[v])
  PROVE  Min({p[u] : u \in R}) = p[v]
<1> DEFINE C == {p[u] : u \in R}
<1>1. C \in SUBSET Nat /\ p[v] \in C
  OBVIOUS
<1>2. Min(C) \in C /\ Min(C) <= p[v]
  BY <1>1, MinIsLeast
<1>3. PICK u \in R : Min(C) = p[u]
  BY <1>2
<1> HIDE DEF C
<1>4. p[u] \in Nat /\ p[v] \in Nat /\ ~ (p[u] < p[v])
  BY <1>3
<1> QED BY <1>2, <1>3, <1>4 DEF C

\* The entry at which the running sum first reaches half has the weighted
\* median as its price.
LEMMA FirstReachedIsMedian ==
  ASSUME NEW n \in Nat, NEW p, NEW s, Order(n, p, s), NEW k \in 1 .. n,
         NEW w \in [1 .. n -> 1 .. MaxUnits],
         Weight(w, Prefix(s, k)) >= Weight(w, 1 .. n) \div 2,
         k > 1 => Weight(w, Prefix(s, k - 1)) < Weight(w, 1 .. n) \div 2
  PROVE  WeightedMedian(1 .. n, p, w) = p[s[k]]
<1> DEFINE half == Weight(w, 1 .. n) \div 2
           below(v) == UpTo(p, 1 .. n, p[v])
           reached == {v \in 1 .. n : Weight(w, below(v)) >= half}
<1>1. IsFiniteSet(1 .. n) /\ Weight(w, 1 .. n) \in Nat
  BY FS_Interval, WeightType
<1>2. half \in Nat
  BY <1>1
<1>3. /\ s[k] \in 1 .. n /\ p \in [1 .. n -> Nat \ {0}]
      /\ k \in 0 .. n /\ k - 1 \in 0 .. n
  BY OrderAt
<1>4. \A v \in 1 .. n : /\ below(v) \in SUBSET (1 .. n)
                        /\ IsFiniteSet(below(v)) /\ Weight(w, below(v)) \in Nat
  <2> SUFFICES ASSUME NEW v \in 1 .. n
               PROVE  /\ below(v) \in SUBSET (1 .. n)
                      /\ IsFiniteSet(below(v)) /\ Weight(w, below(v)) \in Nat
    OBVIOUS
  <2>1. below(v) \in SUBSET (1 .. n)
    BY DEF UpTo
  <2> QED BY <1>1, <2>1, FS_Subset, WeightType
<1>5. s[k] \in reached
  <2>1. Prefix(s, k) \in SUBSET below(s[k])
    BY PrefixUpTo
  <2>2. Weight(w, Prefix(s, k)) <= Weight(w, below(s[k]))
    BY <1>3, <1>4, <2>1, WeightMonotone
  <2>3. Weight(w, Prefix(s, k)) \in Nat
    <3>1. IsFiniteSet(Prefix(s, k))
      BY <1>3, PrefixCardinality
    <3> QED BY <3>1, WeightType
  <2> QED BY <1>2, <1>3, <1>4, <2>2, <2>3
<1>6. ASSUME NEW v \in reached, p[v] < p[s[k]] PROVE FALSE
  <2>1. below(v) \in SUBSET Prefix(s, k - 1) /\ v \in below(v)
    <3>1. v \in 1 .. n /\ p[v] \in Nat
      BY <1>3
    <3>2. below(v) \in SUBSET Prefix(s, k - 1)
      BY <1>6, <3>1, PrefixUpTo
    <3> QED BY <3>1, <3>2 DEF UpTo
  <2>2. k > 1
    BY <2>1 DEF Prefix
  <2>3. IsFiniteSet(Prefix(s, k - 1)) /\ Weight(w, Prefix(s, k - 1)) \in Nat
    BY <1>3, PrefixCardinality, WeightType
  <2>4. Weight(w, below(v)) <= Weight(w, Prefix(s, k - 1))
    BY <2>1, <2>3, WeightMonotone
  <2> QED BY <1>2, <1>4, <2>2, <2>3, <2>4
<1>7. Min({p[v] : v \in reached}) = p[s[k]]
  <2>1. reached \in SUBSET (1 .. n)
    OBVIOUS
  <2> HIDE DEF reached
  <2> QED BY <1>3, <1>5, <1>6, <2>1, LeastPrice
<1> QED BY <1>5, <1>7 DEF WeightedMedian

\* The entry at (n-1)/2, counting from zero, has the median by count.
LEMMA MiddleIsMedian ==
  ASSUME NEW n \in Nat \ {0}, NEW p, NEW s, Order(n, p, s)
  PROVE  UnweightedMedian(1 .. n, p) = p[s[(n - 1) \div 2 + 1]]
<1> DEFINE k == (n - 1) \div 2 + 1
           below(v) == UpTo(p, 1 .. n, p[v])
           reached == {v \in 1 .. n : Cardinality(below(v)) >= k}
<1>1. IsFiniteSet(1 .. n) /\ Cardinality(1 .. n) = n
  <2>1. n \in Int /\ 1 \in Int /\ (IF 1 > n THEN 0 ELSE n - 1 + 1) = n
    OBVIOUS
  <2> QED BY <2>1, FS_Interval, Zenon
<1>2. k \in 1 .. n /\ k \in 0 .. n /\ k - 1 \in 0 .. n
  OBVIOUS
<1>3. UnweightedMedian(1 .. n, p)
        = IF reached = {} THEN 0 ELSE Min({p[v] : v \in reached})
  BY <1>1 DEF UnweightedMedian
<1> HIDE DEF k
<1>4. s[k] \in 1 .. n /\ p \in [1 .. n -> Nat \ {0}]
  BY <1>2 DEF Order
<1>5. \A v \in 1 .. n : IsFiniteSet(below(v)) /\ Cardinality(below(v)) \in Nat
  <2> SUFFICES ASSUME NEW v \in 1 .. n
               PROVE  IsFiniteSet(below(v)) /\ Cardinality(below(v)) \in Nat
    OBVIOUS
  <2>1. below(v) \in SUBSET (1 .. n)
    BY DEF UpTo
  <2> QED BY <1>1, <2>1, FS_Subset, FS_CardinalityType
<1>6. s[k] \in reached
  <2>1. Prefix(s, k) \in SUBSET below(s[k])
    BY <1>2, PrefixUpTo
  <2>2. Cardinality(Prefix(s, k)) <= Cardinality(below(s[k]))
    BY <1>4, <1>5, <2>1, FS_Subset
  <2>3. Cardinality(Prefix(s, k)) = k
    BY <1>2, PrefixCardinality
  <2> QED BY <1>2, <1>4, <1>5, <2>2, <2>3
<1>7. ASSUME NEW v \in reached, p[v] < p[s[k]] PROVE FALSE
  <2>1. below(v) \in SUBSET Prefix(s, k - 1)
    BY <1>2, <1>7, PrefixUpTo
  <2>2. IsFiniteSet(Prefix(s, k - 1)) /\ Cardinality(Prefix(s, k - 1)) = k - 1
    BY <1>2, PrefixCardinality
  <2>3. Cardinality(below(v)) <= k - 1
    BY <2>1, <2>2, FS_Subset
  <2> QED BY <1>2, <1>5, <2>3
<1>8. Min({p[v] : v \in reached}) = p[s[k]]
  <2>1. reached \in SUBSET (1 .. n)
    OBVIOUS
  <2> HIDE DEF reached
  <2> QED BY <1>4, <1>6, <1>7, <2>1, LeastPrice
<1> QED BY <1>3, <1>6, <1>8 DEF k

----------------------------------------------------------------------------
(* The loops.                                                              *)

\* The feeds of a window; their order after the sort; what the two loops have
\* added up and passed over.
LoopInv ==
    \E n \in Nat :
       /\ price \in [1 .. n -> Nat \ {0}] /\ weight \in [1 .. n -> 1 .. MaxUnits]
       /\ at \in {"sort", "sum", "scan", "done"}
       /\ at = "sort" => total = 0 /\ cum = 0
       /\ at # "sort" => Order(n, price, sorted)
       /\ at = "sum" => /\ i \in 1 .. n + 1 /\ cum = 0
                        /\ total = Weight(weight, Prefix(sorted, i - 1))
       /\ at = "scan" => /\ i \in 1 .. n + 1
                         /\ total = Weight(weight, 1 .. n)
                         /\ cum = Weight(weight, Prefix(sorted, i - 1))
                         /\ i > 1 => cum < total \div 2
       /\ at = "done" => /\ result = WeightedMedian(1 .. n, price, weight)
                         /\ result = 0 <=> 1 .. n = {}

\* Before the sort nothing is summed.
LEMMA LoopInit == Init => LoopInv
<1> SUFFICES ASSUME Init PROVE LoopInv
  OBVIOUS
<1>1. PICK n \in 0 .. MaxEntries :
         price \in [1 .. n -> ScanPrices] /\ weight \in [1 .. n -> 1 .. MaxUnits]
  BY DEF Init
<1>2. n \in Nat /\ price \in [1 .. n -> Nat \ {0}]
  <2>1. n \in Nat
    BY ScanAssumption
  <2>2. ScanPrices \subseteq Nat \ {0}
    BY ScanAssumption
  <2> QED BY <1>1, <2>1, <2>2
<1> QED BY <1>1, <1>2 DEF Init, LoopInv

\* An empty sum.
LEMMA PrefixZero ==
  ASSUME NEW s, NEW w
  PROVE  Weight(w, Prefix(s, 1 - 1)) = 0
<1>1. Prefix(s, 1 - 1) = {}
  BY DEF Prefix
<1> QED BY <1>1, WeightEmpty

\* An iteration extends the prefix by one entry; the exits find the median.
LEMMA LoopStep == LoopInv /\ [Next]_vars => LoopInv'
<1> SUFFICES ASSUME LoopInv, [Next]_vars PROVE LoopInv'
  OBVIOUS
<1>1. PICK n \in Nat :
       /\ price \in [1 .. n -> Nat \ {0}] /\ weight \in [1 .. n -> 1 .. MaxUnits]
       /\ at \in {"sort", "sum", "scan", "done"}
       /\ at = "sort" => total = 0 /\ cum = 0
       /\ at # "sort" => Order(n, price, sorted)
       /\ at = "sum" => /\ i \in 1 .. n + 1 /\ cum = 0
                        /\ total = Weight(weight, Prefix(sorted, i - 1))
       /\ at = "scan" => /\ i \in 1 .. n + 1
                         /\ total = Weight(weight, 1 .. n)
                         /\ cum = Weight(weight, Prefix(sorted, i - 1))
                         /\ i > 1 => cum < total \div 2
       /\ at = "done" => /\ result = WeightedMedian(1 .. n, price, weight)
                         /\ result = 0 <=> 1 .. n = {}
  BY DEF LoopInv
<1>n. /\ Entries = 1 .. n /\ IsFiniteSet(1 .. n) /\ Cardinality(1 .. n) = n
      /\ Weight(weight, 1 .. n) \in Nat
  <2>1. Entries = 1 .. n
    BY <1>1 DEF Entries
  <2>2. n \in Int /\ 1 \in Int /\ (IF 1 > n THEN 0 ELSE n - 1 + 1) = n
    OBVIOUS
  <2>3. IsFiniteSet(1 .. n) /\ Cardinality(1 .. n) = n
    BY <2>2, FS_Interval, Zenon
  <2> QED BY <2>1, <2>3, WeightType
<1>d. at # "sort" => DOMAIN sorted = 1 .. n
  BY <1>1 DEF Order
<1>2. CASE Sort
  <2>1. /\ sorted' \in SetToSeqs(Entries)
        /\ \A j, k \in DOMAIN sorted' : j < k => PriceThenValoper(sorted'[j], sorted'[k])
    BY <1>2 DEF Sort
  <2>2. /\ sorted' \in [1 .. n -> 1 .. n]
        /\ \A j, k \in 1 .. n : j # k => sorted'[j] # sorted'[k]
    BY <1>n, <2>1 DEF SetToSeqs
  <2>3. ASSUME NEW j \in 1 .. n, NEW k \in 1 .. n, j < k
        PROVE  price[sorted'[j]] <= price[sorted'[k]]
    <3>1. PriceThenValoper(sorted'[j], sorted'[k])
      BY <2>1, <2>2, <2>3
    <3>2. price[sorted'[j]] \in Nat /\ price[sorted'[k]] \in Nat
      BY <1>1, <2>2
    <3> QED BY <3>1, <3>2 DEF PriceThenValoper
  <2>4. Order(n, price, sorted')
    BY <1>1, <2>2, <2>3 DEF Order
  <2>5. Weight(weight, Prefix(sorted', 1 - 1)) = 0
    BY PrefixZero
  <2>6. /\ at' = "sum" /\ i' = 1 /\ cum' = 0 /\ total' = 0
        /\ price' = price /\ weight' = weight
    BY <1>1, <1>2 DEF Sort
  <2>7. 1 \in 1 .. n + 1
    OBVIOUS
  <2> QED BY <1>1, <2>4, <2>5, <2>6, <2>7 DEF LoopInv
<1>3. CASE Sum
  <2>1. at = "sum" /\ Order(n, price, sorted) /\ i \in 1 .. n + 1
    BY <1>1, <1>3 DEF Sum
  <2>2. CASE i \in 1 .. n
    <3>1. Weight(weight, Prefix(sorted, i)) = total + weight[sorted[i]]
      BY <1>1, <2>1, <2>2, PrefixWeight
    <3>2. i + 1 \in 1 .. n + 1 /\ (i + 1) - 1 = i
      BY <2>2
    <3> QED BY <1>1, <1>3, <1>d, <2>1, <2>2, <3>1, <3>2 DEF Sum, LoopInv
  <2>3. CASE i = n + 1
    <3>1. i \notin 1 .. n /\ i - 1 = n /\ n \in 0 .. n /\ 1 \in 1 .. n + 1
      BY <2>3
    <3>2. Prefix(sorted, n) = 1 .. n
      BY <2>1, <3>1, PrefixCardinality
    <3>3. Weight(weight, Prefix(sorted, 1 - 1)) = 0
      BY PrefixZero
    <3> QED BY <1>1, <1>3, <1>d, <2>1, <3>1, <3>2, <3>3 DEF Sum, LoopInv
  <2> QED BY <2>1, <2>2, <2>3
<1>4. CASE Scan
  <2>1. at = "scan" /\ Order(n, price, sorted) /\ i \in 1 .. n
    BY <1>1, <1>4, <1>d DEF Scan
  <2>2. Weight(weight, Prefix(sorted, i)) = cum + weight[sorted[i]]
    BY <1>1, <2>1, PrefixWeight
  <2>3. cum' = Weight(weight, Prefix(sorted, i))
    BY <1>4, <2>2 DEF Scan
  <2>4. CASE cum' >= Half
    <3>1. /\ Weight(weight, Prefix(sorted, i)) >= Weight(weight, 1 .. n) \div 2
          /\ i > 1 => Weight(weight, Prefix(sorted, i - 1)) < Weight(weight, 1 .. n) \div 2
      BY <1>1, <2>1, <2>3, <2>4 DEF Half
    <3>2. WeightedMedian(1 .. n, price, weight) = price[sorted[i]]
      BY <1>1, <2>1, <3>1, FirstReachedIsMedian
    <3>3. price[sorted[i]] # 0 /\ 1 .. n # {}
      BY <1>1, <2>1 DEF Order
    <3> QED BY <1>1, <1>4, <2>1, <2>4, <3>2, <3>3 DEF Scan, LoopInv
  <2>5. CASE ~ (cum' >= Half)
    <3>1. Weight(weight, Prefix(sorted, i)) \in Nat
      <4>1. i \in 0 .. n
        BY <2>1
      <4>2. IsFiniteSet(Prefix(sorted, i))
        BY <2>1, <4>1, PrefixCardinality
      <4> QED BY <4>2, WeightType
    <3>2. total \div 2 \in Nat
      BY <1>1, <1>n, <2>1
    <3>3. cum' < total \div 2
      BY <2>3, <2>5, <3>1, <3>2 DEF Half
    <3>4. i + 1 \in 1 .. n + 1 /\ (i + 1) - 1 = i
      BY <2>1
    <3>5. cum' = Weight(weight, Prefix(sorted, (i + 1) - 1))
      BY <2>3, <3>4
    <3> QED BY <1>1, <1>4, <2>1, <2>5, <3>3, <3>4, <3>5 DEF Scan, LoopInv
  <2> QED BY <2>4, <2>5
<1>5. CASE ReturnZero
  <2>1. at = "scan" /\ Order(n, price, sorted) /\ i = n + 1
    BY <1>1, <1>5, <1>d DEF ReturnZero
  <2>2. n = 0
    <3> SUFFICES ASSUME n # 0 PROVE FALSE
      OBVIOUS
    <3>1. Prefix(sorted, n) = 1 .. n
      BY <2>1, PrefixCardinality
    <3>2. i > 1 /\ i - 1 = n
      BY <2>1
    <3>3. cum = Weight(weight, 1 .. n) /\ cum < total \div 2 /\ total = Weight(weight, 1 .. n)
      BY <1>1, <2>1, <3>1, <3>2
    <3> QED BY <1>n, <3>3
  <2>3. 1 .. n = {} /\ WeightedMedian(1 .. n, price, weight) = 0
    BY <2>2 DEF WeightedMedian
  <2> QED BY <1>1, <1>5, <2>1, <2>3 DEF ReturnZero, LoopInv
<1>6. CASE Done \/ UNCHANGED vars
  BY <1>1, <1>6 DEF Done, vars, LoopInv
<1> QED BY <1>2, <1>3, <1>4, <1>5, <1>6 DEF Next

\* The loop invariant holds throughout.
LEMMA LoopInvariant == Spec => []LoopInv
BY LoopInit, LoopStep, PTL DEF Spec

\* The loops of WeightedMedian return the weighted median.
THEOREM ScanCorrect == Spec => []ScanIsWeightedMedian
<1>1. LoopInv => ScanIsWeightedMedian
  BY DEF LoopInv, ScanIsWeightedMedian, Entries
<1> QED BY <1>1, LoopInvariant, PTL

\* The entry UnweightedMedian picks has the lower median by count.
THEOREM ScanUnweightedCorrect == Spec => []ScanIsUnweightedMedian
<1>1. LoopInv => ScanIsUnweightedMedian
  <2> SUFFICES ASSUME LoopInv, at # "sort"
               PROVE  ScanUnweighted = UnweightedMedian(Entries, price)
    BY DEF ScanIsUnweightedMedian
  <2>1. PICK n \in Nat : Entries = 1 .. n /\ Order(n, price, sorted)
    BY DEF LoopInv, Entries
  <2>2. sorted \in Seq(1 .. n) /\ Len(sorted) = n
    BY <2>1 DEF Order
  <2>3. CASE n = 0
    <3>1. sorted = << >>
      BY <2>2, <2>3
    <3>2. Entries = {}
      BY <2>1, <2>3
    <3> QED BY <3>1, <3>2 DEF ScanUnweighted, UnweightedMedian
  <2>4. CASE n # 0
    <3>1. sorted # << >>
      BY <2>2, <2>4
    <3> QED BY <2>1, <2>2, <2>4, <3>1, MiddleIsMedian DEF ScanUnweighted
  <2> QED BY <2>3, <2>4
<1> QED BY <1>1, LoopInvariant, PTL

\* The quorum test is exact up to half a unit, whatever the powers.
THEOREM QuorumCorrect == Spec => []QuorumWithinHalfUnit
<1>1. LoopInv => QuorumWithinHalfUnit
  <2> SUFFICES ASSUME LoopInv, NEW S \in SUBSET Entries, NEW q \in Fractions
               PROVE  LET submitted == Weight(weight, S)
                          all == Weight(weight, Entries)
                          met == QuorumMet(submitted, all, q)
                      IN  /\ met => 2 * submitted * Prec + all >= 2 * q * all
                          /\ all > 0 /\ submitted * Prec >= q * all => met
    BY DEF QuorumWithinHalfUnit
  <2>1. PICK n \in Nat : Entries = 1 .. n
    BY DEF LoopInv, Entries
  <2>2. IsFiniteSet(Entries) /\ IsFiniteSet(S)
    <3>1. IsFiniteSet(1 .. n)
      BY FS_Interval
    <3> QED BY <2>1, <3>1, FS_Subset
  <2>3. Weight(weight, S) \in Nat /\ Weight(weight, Entries) \in Nat /\ q \in Nat
    BY <2>2, WeightType, ScanAssumption, PrecAssumption
  <2> QED BY <2>3, QuorumExact
<1> QED BY <1>1, LoopInvariant, PTL

\* A coherent majority of a feeder's sources decides, for any number of sources.
THEOREM SourcesDecideCorrect == Spec => []SourcesDecide
<1>1. LoopInv => SourcesDecide
  <2> SUFFICES ASSUME LoopInv, NEW dev \in Deviations, NEW min \in 1 .. MaxEntries
               PROVE  MajorityOfSourcesDecides(Entries, price, dev, min)
    BY DEF SourcesDecide
  <2>1. PICK n \in Nat : Entries = 1 .. n /\ price \in [1 .. n -> Nat \ {0}]
    BY DEF LoopInv, Entries
  <2>2. IsFiniteSet(Entries) /\ \A v \in Entries : price[v] \in Nat
    <3>1. IsFiniteSet(1 .. n)
      BY FS_Interval
    <3> QED BY <2>1, <3>1
  <2>3. dev \in Nat /\ min \in Nat
    BY ScanAssumption, PrecAssumption
  <2> QED BY <2>2, <2>3, MajorityDecidesMedian
<1> QED BY <1>1, LoopInvariant, PTL

----------------------------------------------------------------------------
(* The order of sort.Slice exists.                                         *)

\* Price, then operator address.
Before(p, u, v) == p[u] < p[v] \/ (p[u] = p[v] /\ u < v)

\* Some entry comes after all others.
LEMMA LastEntry ==
  ASSUME NEW S \in SUBSET Nat, IsFiniteSet(S), S # {}, NEW p, \A v \in S : p[v] \in Nat
  PROVE  \E x \in S : \A u \in S : u # x => Before(p, u, x)
<1> DEFINE f == [v \in S |-> p[v]]
<1>1. f \in [S -> Nat] /\ \A v \in S : f[v] = p[v]
  OBVIOUS
<1> HIDE DEF f
<1>2. PICK v \in S : \A u \in S : f[u] <= f[v]
  BY <1>1, HighestEntry
<1> DEFINE M == {u \in S : p[u] = p[v]}
           g == [u \in M |-> u]
<1>3. IsFiniteSet(M) /\ M # {} /\ g \in [M -> Nat] /\ \A u \in M : g[u] = u
  <2>1. M \in SUBSET S /\ v \in M
    OBVIOUS
  <2> QED BY <2>1, FS_Subset
<1> HIDE DEF g
<1>4. PICK x \in M : \A u \in M : g[u] <= g[x]
  <2> HIDE DEF M
  <2> QED BY <1>3, HighestEntry
<1>5. x \in S /\ p[x] = p[v] /\ \A u \in S : p[u] = p[v] => u <= x
  BY <1>3, <1>4
<1>6. ASSUME NEW u \in S, u # x PROVE Before(p, u, x)
  <2>1. p[u] <= p[x] /\ p[u] \in Nat /\ p[x] \in Nat /\ u \in Nat /\ x \in Nat
    BY <1>1, <1>2, <1>5
  <2> QED BY <1>5, <1>6, <2>1 DEF Before
<1> QED BY <1>5, <1>6

\* However the prices tie, the entries can be put in the order of the comparison
\* function: the highest entry follows an order of the others.
LEMMA SortExists ==
  ASSUME NEW S \in SUBSET Nat, IsFiniteSet(S), NEW p, \A v \in S : p[v] \in Nat
  PROVE  \E s \in SetToSeqs(S) : \A j, k \in DOMAIN s : j < k => Before(p, s[j], s[k])
<1> DEFINE Sorts(T) == {s \in SetToSeqs(T) :
                          \A j, k \in DOMAIN s : j < k => Before(p, s[j], s[k])}
           G == {T \in SUBSET S : Sorts(T) # {}}
<1>1. {} \in G
  <2> DEFINE s == [j \in 1 .. 0 |-> 0]
  <2>1. Cardinality({}) = 0
    BY FS_EmptySet
  <2>2. s \in [1 .. 0 -> {}] /\ \A j \in 1 .. 0 : FALSE
    OBVIOUS
  <2>3. s \in SetToSeqs({})
    BY <2>1, <2>2 DEF SetToSeqs
  <2>4. s \in Sorts({})
    BY <2>2, <2>3
  <2> QED BY <2>4
<1>2. ASSUME NEW T \in SUBSET S, T # {}, \A x \in T : T \ {x} \in G
      PROVE  T \in G
  <2>1. IsFiniteSet(T) /\ T \in SUBSET Nat /\ \A v \in T : p[v] \in Nat
    BY FS_Subset
  <2>2. PICK x \in T : \A u \in T : u # x => Before(p, u, x)
    BY <1>2, <2>1, LastEntry
  <2> DEFINE n == Cardinality(T \ {x})
  <2>3. n \in Nat /\ Cardinality(T) = n + 1
    <3>1. IsFiniteSet(T \ {x})
      <4>1. T \ {x} \in SUBSET T
        OBVIOUS
      <4> QED BY <2>1, <4>1, FS_Subset
    <3>2. Cardinality(T \ {x}) = IF x \in T THEN Cardinality(T) - 1 ELSE Cardinality(T)
      BY <2>1, FS_RemoveElement
    <3>3. n \in Nat /\ Cardinality(T) \in Nat
      BY <2>1, <3>1, FS_CardinalityType
    <3> QED BY <2>2, <3>2, <3>3
  <2>4. PICK s \in Sorts(T \ {x}) : TRUE
    BY <1>2, <2>2
  <2>5. /\ s \in [1 .. n -> T \ {x}]
        /\ \A i1, j1 \in 1 .. n : i1 # j1 => s[i1] # s[j1]
        /\ \A j, k \in 1 .. n : j < k => Before(p, s[j], s[k])
    BY <2>4 DEF SetToSeqs
  <2> HIDE DEF n, Sorts, G
  <2> DEFINE r == [j \in 1 .. n + 1 |-> IF j = n + 1 THEN x ELSE s[j]]
  <2>6. /\ DOMAIN r = 1 .. n + 1 /\ r[n + 1] = x
        /\ \A j \in 1 .. n : r[j] = s[j] /\ s[j] \in T /\ s[j] # x /\ j \in 1 .. n + 1
        /\ \A j \in 1 .. n + 1 : j = n + 1 \/ j \in 1 .. n
    BY <2>3, <2>5
  <2>7. r \in [1 .. n + 1 -> T]
    BY <2>2, <2>3, <2>5
  <2> HIDE DEF r
  <2>8. \A j, k \in 1 .. n + 1 : j # k => r[j] # r[k]
    BY <2>5, <2>6
  <2>9. ASSUME NEW j \in 1 .. n + 1, NEW k \in 1 .. n + 1, j < k
        PROVE  Before(p, r[j], r[k])
    <3>1. j \in 1 .. n
      BY <2>3, <2>9
    <3>2. CASE k = n + 1
      <4>1. r[j] \in T /\ r[j] # x /\ r[k] = x
        BY <2>6, <3>1, <3>2
      <4> QED BY <2>2, <4>1
    <3>3. CASE k # n + 1
      <4>1. k \in 1 .. n
        BY <2>6, <3>3
      <4> QED BY <2>5, <2>6, <2>9, <3>1, <4>1
    <3> QED BY <3>2, <3>3
  <2>10. r \in SetToSeqs(T)
    BY <2>3, <2>7, <2>8 DEF SetToSeqs
  <2>11. r \in Sorts(T)
    BY <2>6, <2>9, <2>10 DEF Sorts
  <2> QED BY <2>11 DEF G
<1>3. S \in G
  <2> HIDE DEF G
  <2>1. G \in SUBSET (SUBSET S)
    BY DEF G
  <2> QED BY <1>1, <1>2, <2>1, SubsetInduction
<1> QED BY <1>3

\* Sort is never blocked.
Sortable ==
    at = "sort" =>
       \E s \in SetToSeqs(Entries) :
          \A j, k \in DOMAIN s : j < k => PriceThenValoper(s[j], s[k])

\* Whatever the feeds, sort.Slice has an order to leave them in: no claim about
\* the loops holds for want of a run.
THEOREM SortNeverBlocked == Spec => []Sortable
<1>1. LoopInv => Sortable
  <2> SUFFICES ASSUME LoopInv
               PROVE  \E s \in SetToSeqs(Entries) :
                         \A j, k \in DOMAIN s : j < k => PriceThenValoper(s[j], s[k])
    BY DEF Sortable
  <2>1. PICK n \in Nat : Entries = 1 .. n /\ price \in [1 .. n -> Nat \ {0}]
    BY DEF LoopInv, Entries
  <2>2. IsFiniteSet(Entries) /\ Entries \in SUBSET Nat /\ \A v \in Entries : price[v] \in Nat
    <3>1. IsFiniteSet(1 .. n)
      BY FS_Interval
    <3> QED BY <2>1, <3>1
  <2>3. PICK s \in SetToSeqs(Entries) :
           \A j, k \in DOMAIN s : j < k => Before(price, s[j], s[k])
    BY <2>2, SortExists
  <2> QED BY <2>3 DEF Before, PriceThenValoper
<1> QED BY <1>1, LoopInvariant, PTL
============================================================================
