------------------------- MODULE AggregationProofs -------------------------
(***************************************************************************)
(* Facts about the medians of Aggregation, for every set of validators,    *)
(* prices and powers.                                                      *)
(***************************************************************************)
EXTENDS Aggregation, LibraryProofs

\* Min of FiniteSetsExt picks that element.
LEMMA MinIsLeast ==
  ASSUME NEW C \in SUBSET Nat, C # {}
  PROVE  /\ Min(C) \in C
         /\ \A y \in C : Min(C) <= y
BY NatLeast DEF Min

\* Max picks the largest member of a set, when there is one.
LEMMA MaxIs ==
  ASSUME NEW S \in SUBSET Int, NEW m \in S, \A t \in S : t <= m
  PROVE  Max(S) = m
<1>1. \E x \in S : \A y \in S : x >= y
  OBVIOUS
<1>2. Max(S) \in S /\ \A y \in S : Max(S) >= y
  BY <1>1 DEF Max
<1>3. Max(S) >= m /\ Max(S) <= m /\ Max(S) \in Int /\ m \in Int
  BY <1>2
<1> QED BY <1>3

----------------------------------------------------------------------------
\* Multiplication by a natural number keeps the order.
LEMMA TimesMonotone ==
  ASSUME NEW a \in Nat, NEW b \in Nat, a <= b, NEW r \in Nat
  PROVE  a * r <= b * r /\ a * r \in Nat /\ b * r \in Nat
<1>1. PICK d \in Nat : b = a + d
  <2>1. b - a \in Nat /\ b = a + (b - a)
    OBVIOUS
  <2> QED BY <2>1
<1>2. b * r = a * r + d * r
  BY <1>1
<1>3. a * r \in Nat /\ d * r \in Nat
  OBVIOUS
<1> QED BY <1>2, <1>3

\* And a positive factor can be cancelled.
LEMMA TimesCancel ==
  ASSUME NEW a \in Int, NEW b \in Int, NEW r \in Nat \ {0}
  PROVE  /\ a * r <= b * r => a <= b
         /\ a * r < b * r => a < b
<1>1. ASSUME NEW c \in Int, NEW d \in Int, c > d
      PROVE  c * r >= d * r + r
  <2>1. PICK e \in Nat : c = d + 1 + e
    <3>1. c - d - 1 \in Nat /\ c = d + 1 + (c - d - 1)
      BY <1>1
    <3> QED BY <3>1
  <2>2. c * r = d * r + r + e * r
    BY <2>1
  <2>3. e * r \in Nat /\ d * r \in Int
    OBVIOUS
  <2> QED BY <2>2, <2>3
<1>2. a * r \in Int /\ b * r \in Int
  OBVIOUS
<1>3. a * r <= b * r => a <= b
  <2> SUFFICES ASSUME a > b PROVE a * r > b * r
    BY <1>2
  <2>1. a * r >= b * r + r
    BY <1>1
  <2> QED BY <1>2, <2>1
<1>4. a * r < b * r => a < b
  <2> SUFFICES ASSUME a >= b PROVE a * r >= b * r
    BY <1>2
  <2>1. CASE a = b
    BY <1>2, <2>1
  <2>2. CASE a > b
    <3>1. a * r >= b * r + r
      BY <1>1, <2>2
    <3> QED BY <1>2, <3>1
  <2> QED BY <2>1, <2>2
<1> QED BY <1>3, <1>4

\* Integer division.
LEMMA DivBounds ==
  ASSUME NEW x \in Nat, NEW y \in Nat \ {0}
  PROVE  /\ x \div y \in Nat
         /\ (x \div y) * y <= x
         /\ x < (x \div y) * y + y
<1>1. x \div y \in Nat /\ x % y \in 0 .. y - 1
  OBVIOUS
<1>2. x = y * (x \div y) + (x % y)
  OBVIOUS
<1>3. y * (x \div y) = (x \div y) * y /\ (x \div y) * y \in Nat
  BY <1>1
<1> QED BY <1>1, <1>2, <1>3

\* Rounding is off by half a unit at most.
LEMMA ChopBounds ==
  ASSUME NEW x \in Nat
  PROVE  /\ ChopPrecisionAndRound(x) \in Nat
         /\ 2 * (ChopPrecisionAndRound(x) * Prec) <= 2 * x + Prec
         /\ 2 * x <= 2 * (ChopPrecisionAndRound(x) * Prec) + Prec
<1> DEFINE quo == x \div Prec
           rem == x % Prec
           R == ChopPrecisionAndRound(x)
<1>1. Prec \in Nat \ {0}
  BY PrecAssumption
<1>2. quo \in Nat /\ rem \in 0 .. Prec - 1 /\ x = Prec * quo + rem
  BY <1>1
<1>3. \/ R = quo /\ 2 * rem <= Prec
      \/ R = quo + 1 /\ 2 * rem >= Prec
  BY <1>1, <1>2 DEF ChopPrecisionAndRound
<1> HIDE DEF quo, rem, R
<1>4. (quo + 1) * Prec = Prec * quo + Prec /\ quo * Prec = Prec * quo /\ Prec * quo \in Nat
  BY <1>1, <1>2
<1>5. \/ R * Prec = Prec * quo /\ 2 * rem <= Prec
      \/ R * Prec = Prec * quo + Prec /\ 2 * rem >= Prec
  BY <1>3, <1>4
<1>6. R \in Nat
  BY <1>2, <1>3
<1>7. 2 * (R * Prec) <= 2 * x + Prec /\ 2 * x <= 2 * (R * Prec) + Prec
  <2> DEFINE z == Prec * quo
             y == R * Prec
  <2>1. z \in Nat /\ x = z + rem /\ rem \in Nat /\ rem <= Prec
    BY <1>1, <1>2, <1>4
  <2>2. (y = z /\ 2 * rem <= Prec) \/ (y = z + Prec /\ 2 * rem >= Prec)
    BY <1>5
  <2> HIDE DEF y, z
  <2>3. 2 * y <= 2 * x + Prec /\ 2 * x <= 2 * y + Prec
    BY <1>1, <2>1, <2>2
  <2> QED BY <2>3 DEF y
<1> QED BY <1>6, <1>7 DEF R

\* Rounding keeps the order.
LEMMA ChopMonotone ==
  ASSUME NEW x \in Nat, NEW y \in Nat, x <= y
  PROVE  ChopPrecisionAndRound(x) <= ChopPrecisionAndRound(y)
<1> DEFINE R(z) == ChopPrecisionAndRound(z)
<1>1. CASE x = y
  <2>1. R(x) \in Nat
    BY ChopBounds
  <2> QED BY <1>1, <2>1
<1>2. CASE x < y
  <2>1. /\ R(x) \in Nat /\ 2 * (R(x) * Prec) <= 2 * x + Prec
        /\ R(y) \in Nat /\ 2 * y <= 2 * (R(y) * Prec) + Prec
    BY ChopBounds
  <2>2. Prec \in Nat \ {0}
    BY PrecAssumption
  <2> DEFINE a == R(x)
             b == R(y)
  <2> HIDE DEF a, b
  <2>3. a \in Nat /\ b \in Nat /\ 2 * (a * Prec) <= 2 * x + Prec /\ 2 * y <= 2 * (b * Prec) + Prec
    BY <2>1 DEF a, b
  <2>4. (b + 1) * Prec = b * Prec + Prec /\ a * Prec \in Nat /\ b * Prec \in Nat
    BY <2>2, <2>3
  <2> DEFINE ap == a * Prec
             bp == b * Prec
  <2>5. ap \in Nat /\ bp \in Nat /\ 2 * ap <= 2 * x + Prec /\ 2 * y <= 2 * bp + Prec
    BY <2>3, <2>4
  <2> HIDE DEF ap, bp
  <2>6. ap < bp + Prec
    BY <1>2, <2>2, <2>5
  <2>7. a * Prec < (b + 1) * Prec
    BY <2>4, <2>6 DEF ap, bp
  <2>8. a < b + 1
    BY <2>2, <2>3, <2>7, TimesCancel
  <2> QED BY <2>3, <2>8 DEF a, b
<1> QED BY <1>1, <1>2

\* A whole number of units is not rounded.
LEMMA ChopExact ==
  ASSUME NEW k \in Nat
  PROVE  k * Prec \in Nat /\ ChopPrecisionAndRound(k * Prec) = k
<1>1. Prec \in Nat \ {0}
  BY PrecAssumption
<1> DEFINE x == k * Prec
           R == ChopPrecisionAndRound(x)
<1>2. x \in Nat
  BY <1>1
<1> HIDE DEF x
<1>3. R \in Nat /\ 2 * (R * Prec) <= 2 * x + Prec /\ 2 * x <= 2 * (R * Prec) + Prec
  BY <1>2, ChopBounds
<1> HIDE DEF R
<1>4. R * Prec < x + Prec /\ x < R * Prec + Prec
  <2>1. R * Prec \in Nat
    BY <1>1, <1>3
  <2> QED BY <1>1, <1>2, <1>3, <2>1
<1>5. (k + 1) * Prec = x + Prec /\ (R + 1) * Prec = R * Prec + Prec
  BY <1>1, <1>3 DEF x
<1>6. R < k + 1
  BY <1>1, <1>3, <1>4, <1>5, TimesCancel
<1>7. k < R + 1
  BY <1>1, <1>3, <1>4, <1>5, TimesCancel DEF x
<1>8. R = k
  BY <1>3, <1>6, <1>7
<1> QED BY <1>2, <1>8 DEF R, x

\* A quotient is at least q when the exact ratio is, and q at most when the
\* exact ratio is.
LEMMA QuoBetween ==
  ASSUME NEW x \in Nat, NEW y \in Nat \ {0}, NEW q \in Nat
  PROVE  /\ Quo(x, y) \in Nat
         /\ q * y <= x * Prec => q <= Quo(x, y)
         /\ x * Prec <= q * y => Quo(x, y) <= q
<1>1. Prec \in Nat \ {0}
  BY PrecAssumption
<1> DEFINE n == x * Prec * Prec
           X == n \div y
<1>2. n \in Nat
  BY <1>1
<1> HIDE DEF n
<1>3. X \in Nat /\ X * y <= n /\ n < X * y + y
  BY <1>2, DivBounds
<1> HIDE DEF X
<1>4. Quo(x, y) = ChopPrecisionAndRound(X)
  BY DEF Quo, X, n
<1>5. q * Prec \in Nat /\ ChopPrecisionAndRound(q * Prec) = q
  BY ChopExact
<1>6. (q * Prec) * y = (q * y) * Prec /\ n = (x * Prec) * Prec /\ x * Prec \in Nat /\ q * y \in Nat
  BY <1>1 DEF n
<1>7. ASSUME q * y <= x * Prec PROVE q <= Quo(x, y)
  <2>1. (q * y) * Prec <= (x * Prec) * Prec
    BY <1>1, <1>6, <1>7, TimesMonotone
  <2>2. (q * Prec) * y < (X + 1) * y
    <3>1. (X + 1) * y = X * y + y
      BY <1>3
    <3>2. (q * Prec) * y <= n
      BY <1>6, <2>1
    <3>3. (q * Prec) * y \in Nat /\ X * y \in Nat
      BY <1>3, <1>5
    <3> QED BY <1>2, <1>3, <3>1, <3>2, <3>3
  <2>3. q * Prec < X + 1
    BY <1>3, <1>5, <2>2, TimesCancel
  <2>4. q * Prec <= X
    BY <1>3, <1>5, <2>3
  <2> QED BY <1>3, <1>4, <1>5, <2>4, ChopMonotone
<1>8. ASSUME x * Prec <= q * y PROVE Quo(x, y) <= q
  <2>1. (x * Prec) * Prec <= (q * y) * Prec
    BY <1>1, <1>6, <1>8, TimesMonotone
  <2>2. X * y <= (q * Prec) * y
    <3>1. X * y \in Nat
      BY <1>3
    <3>2. n <= (q * Prec) * y
      BY <1>6, <2>1
    <3>3. (q * Prec) * y \in Nat
      BY <1>5
    <3> HIDE DEF n
    <3> QED BY <1>2, <1>3, <3>1, <3>2, <3>3
  <2>3. X <= q * Prec
    BY <1>3, <1>5, <2>2, TimesCancel
  <2> QED BY <1>3, <1>4, <1>5, <2>3, ChopMonotone
<1>9. Quo(x, y) \in Nat
  BY <1>3, <1>4, ChopBounds
<1> QED BY <1>7, <1>8, <1>9

\* The quotient times the divisor is off the dividend by less than one unit per
\* unit of the divisor, and never above it by more than half of that.
LEMMA QuoError ==
  ASSUME NEW x \in Nat, NEW y \in Nat \ {0}
  PROVE  /\ 2 * (Quo(x, y) * y) <= 2 * (x * Prec) + y
         /\ x * Prec < Quo(x, y) * y + y
<1>1. Prec \in Nat \ {0}
  BY PrecAssumption
<1> DEFINE n == x * Prec * Prec
           X == n \div y
           R == ChopPrecisionAndRound(X)
<1>2. n \in Nat
  BY <1>1
<1> HIDE DEF n
<1>3. X \in Nat /\ X * y <= n /\ n < X * y + y
  BY <1>2, DivBounds
<1> HIDE DEF X
<1>4. R \in Nat /\ 2 * (R * Prec) <= 2 * X + Prec /\ 2 * X <= 2 * (R * Prec) + Prec
  BY <1>3, ChopBounds
<1>5. Quo(x, y) = R
  BY DEF Quo, X, n, R
<1>6. Prec = 1 => R = X
  <2>1. X * 1 = X
    BY <1>3
  <2> QED BY <1>3, <2>1, ChopExact DEF R
<1> HIDE DEF R
<1> DEFINE Ry == R * y
           xp == x * Prec
<1>7. Ry \in Nat /\ xp \in Nat /\ X * y \in Nat
  BY <1>1, <1>3, <1>4
<1>8. 2 * (Ry * Prec) <= 2 * (X * y) + Prec * y /\ 2 * (X * y) <= 2 * (Ry * Prec) + Prec * y
  <2>1. (2 * (R * Prec)) * y <= (2 * X + Prec) * y
    BY <1>1, <1>3, <1>4, TimesMonotone
  <2>2. (2 * X) * y <= (2 * (R * Prec) + Prec) * y
    BY <1>1, <1>3, <1>4, TimesMonotone
  <2>3. /\ (2 * (R * Prec)) * y = 2 * ((R * y) * Prec)
        /\ (2 * X + Prec) * y = 2 * (X * y) + Prec * y
        /\ (2 * X) * y = 2 * (X * y)
        /\ (2 * (R * Prec) + Prec) * y = 2 * ((R * y) * Prec) + Prec * y
    BY <1>1, <1>3, <1>4
  <2> QED BY <2>1, <2>2, <2>3
<1>9. n = xp * Prec
  BY <1>1 DEF n
<1>10. /\ Ry * Prec \in Nat /\ Prec * y \in Nat /\ xp * Prec \in Nat
       /\ (2 * Ry) * Prec = 2 * (Ry * Prec)
       /\ (2 * xp + y) * Prec = 2 * (xp * Prec) + Prec * y
       /\ (Ry + y) * Prec = Ry * Prec + Prec * y
  BY <1>1, <1>7
<1> HIDE DEF Ry, xp
<1>11. 2 * Ry <= 2 * xp + y
  <2>1. (2 * Ry) * Prec <= (2 * xp + y) * Prec
    BY <1>2, <1>3, <1>7, <1>8, <1>9, <1>10
  <2> QED BY <1>1, <1>7, <2>1, TimesCancel
<1>12. xp < Ry + y
  <2>1. CASE Prec = 1
    <3>1. xp * 1 = xp
      BY <1>7
    <3>2. R = X /\ n = xp
      BY <1>6, <1>9, <2>1, <3>1
    <3> QED BY <1>3, <3>2 DEF Ry
  <2>2. CASE Prec >= 2
    <3>1. 2 * y <= Prec * y
      BY <1>1, <2>2, TimesMonotone
    <3>2. xp * Prec < Ry * Prec + Prec * y
      BY <1>2, <1>3, <1>7, <1>8, <1>9, <1>10, <3>1
    <3>3. xp * Prec < (Ry + y) * Prec
      BY <1>10, <3>2
    <3> QED BY <1>1, <1>7, <3>3, TimesCancel
  <2> QED BY <1>1, <2>1, <2>2
<1> QED BY <1>5, <1>11, <1>12 DEF Ry, xp

----------------------------------------------------------------------------
\* Among finitely many entries one has the highest price.
LEMMA HighestEntry ==
  ASSUME NEW S, IsFiniteSet(S), S # {}, NEW price \in [S -> Nat]
  PROVE  \E v \in S : \A u \in S : price[u] <= price[v]
<1> DEFINE Below(v) == UpTo(price, S, price[v])
<1> DEFINE C == {k \in Nat : \E v \in S : k = Cardinality(S) - Cardinality(Below(v))}
<1>1. \A v \in S : /\ IsFiniteSet(Below(v))
                   /\ Cardinality(Below(v)) \in Nat
                   /\ Cardinality(Below(v)) <= Cardinality(S)
  <2> SUFFICES ASSUME NEW v \in S
               PROVE  /\ IsFiniteSet(Below(v))
                      /\ Cardinality(Below(v)) \in Nat
                      /\ Cardinality(Below(v)) <= Cardinality(S)
    OBVIOUS
  <2>1. Below(v) \in SUBSET S
    BY DEF UpTo
  <2> QED BY <2>1, FS_Subset, FS_CardinalityType
<1>2. Cardinality(S) \in Nat
  BY FS_CardinalityType
<1>3. C # {}
  <2>1. PICK v \in S : TRUE
    OBVIOUS
  <2>2. Cardinality(S) - Cardinality(Below(v)) \in Nat
    BY <1>1, <1>2
  <2> QED BY <2>2
<1>4. PICK k \in C : \A j \in C : k <= j
  BY <1>3, NatLeast
<1>5. PICK v \in S : k = Cardinality(S) - Cardinality(Below(v))
  BY <1>4
<1>6. SUFFICES ASSUME NEW u \in S, price[u] > price[v]
               PROVE  FALSE
  BY <1>5
<1>7. Below(v) \subseteq Below(u) /\ u \in Below(u) /\ u \notin Below(v)
  BY <1>6 DEF UpTo
<1>8. Cardinality(Below(v)) < Cardinality(Below(u))
  BY <1>1, <1>7, FS_Subset
<1>9. Cardinality(S) - Cardinality(Below(u)) \in C
  BY <1>1, <1>2
<1> QED BY <1>1, <1>2, <1>4, <1>5, <1>8, <1>9

\* The published median is a price that was reported.
LEMMA WeightedMedianReported ==
  ASSUME NEW S, IsFiniteSet(S), S # {}, NEW price \in [S -> Nat], NEW w
  PROVE  LET half == Weight(w, S) \div 2
             reached == {v \in S : Weight(w, UpTo(price, S, price[v])) >= half}
             m == WeightedMedian(S, price, w)
         IN  /\ \E v \in reached : m = price[v]
             /\ \A v \in reached : m <= price[v]
<1> DEFINE half == Weight(w, S) \div 2
           reached == {v \in S : Weight(w, UpTo(price, S, price[v])) >= half}
           C == {price[v] : v \in reached}
<1>1. PICK t \in S : \A u \in S : price[u] <= price[t]
  BY HighestEntry
<1>2. UpTo(price, S, price[t]) = S
  BY <1>1 DEF UpTo
<1>3. Weight(w, S) >= half
  <2>1. Weight(w, S) \in Nat
    BY WeightType
  <2> QED BY <2>1
<1>4. t \in reached
  BY <1>2, <1>3
<1>5. C \in SUBSET Nat /\ C # {}
  BY <1>4
<1>6. Min(C) \in C /\ \A y \in C : Min(C) <= y
  BY <1>5, MinIsLeast
<1>7. WeightedMedian(S, price, w) = Min(C)
  BY <1>4 DEF WeightedMedian
<1> QED BY <1>6, <1>7

\* Validators that hold more than half of the power, and a unit more when the
\* total is odd, bound the weighted median by the prices they report.
LEMMA WeightedMedianMajority ==
  ASSUME NEW S, IsFiniteSet(S), NEW price \in [S -> Nat], NEW w,
         NEW H \in SUBSET S,
         2 * Weight(w, H) > Weight(w, S) + 1
  PROVE  /\ \E v \in H : price[v] <= WeightedMedian(S, price, w)
         /\ \E v \in H : WeightedMedian(S, price, w) <= price[v]
<1> DEFINE m == WeightedMedian(S, price, w)
           half == Weight(w, S) \div 2
<1>1. IsFiniteSet(H) /\ Weight(w, H) \in Nat /\ Weight(w, S) \in Nat
  BY FS_Subset, WeightType
<1>2. H # {}
  BY <1>1, WeightEmpty
<1>3. S # {}
  BY <1>2
<1>4. PICK x \in S : /\ Weight(w, UpTo(price, S, price[x])) >= half
                     /\ m = price[x]
  BY <1>3, WeightedMedianReported
<1>5. \A v \in S : Weight(w, UpTo(price, S, price[v])) >= half => m <= price[v]
  BY <1>3, WeightedMedianReported
<1>6. 2 * half >= Weight(w, S) - 1 /\ 2 * half <= Weight(w, S) /\ half \in Nat
  BY <1>1
<1>7. \E v \in H : price[v] <= m
  <2> SUFFICES ASSUME \A v \in H : price[v] > m
               PROVE  FALSE
    BY <1>4
  <2> DEFINE B == UpTo(price, S, price[x])
  <2>1. B \in SUBSET S /\ B \cap H = {}
    BY <1>4 DEF UpTo
  <2>2. Weight(w, B) + Weight(w, H) <= Weight(w, S)
    BY <2>1, WeightDisjoint
  <2>3. Weight(w, B) \in Nat
    BY <2>1, FS_Subset, WeightType
  <2> QED BY <1>1, <1>4, <1>6, <2>2, <2>3
<1>8. \E v \in H : m <= price[v]
  <2>1. PICK h \in H : \A u \in H : price[u] <= price[h]
    <3>1. [v \in H |-> price[v]] \in [H -> Nat]
      OBVIOUS
    <3>2. \E h \in H : \A u \in H : [v \in H |-> price[v]][u] <= [v \in H |-> price[v]][h]
      BY <1>1, <1>2, <3>1, HighestEntry
    <3> QED BY <3>2
  <2> DEFINE B == UpTo(price, S, price[h])
  <2>2. H \in SUBSET B /\ B \in SUBSET S
    BY <2>1 DEF UpTo
  <2>3. IsFiniteSet(B) /\ Weight(w, B) \in Nat
    BY <2>2, FS_Subset, WeightType
  <2>4. Weight(w, H) <= Weight(w, B)
    BY <2>2, <2>3, WeightMonotone
  <2>5. Weight(w, B) >= half
    BY <1>1, <1>6, <2>3, <2>4
  <2> QED BY <1>5, <2>5
<1> QED BY <1>7, <1>8

\* When more than half of the entries, by count, carry one price, that price is
\* the unweighted median.
LEMMA UnweightedMedianUnanimous ==
  ASSUME NEW S, IsFiniteSet(S), NEW price \in [S -> Nat],
         NEW H \in SUBSET S, NEW p \in Nat,
         \A v \in H : price[v] = p,
         2 * Cardinality(H) > Cardinality(S)
  PROVE  UnweightedMedian(S, price) = p
<1> DEFINE n == Cardinality(S)
           k == (n - 1) \div 2 + 1
           reached == {v \in S : Cardinality(UpTo(price, S, price[v])) >= k}
           C == {price[v] : v \in reached}
<1>1. IsFiniteSet(H) /\ Cardinality(H) \in Nat /\ n \in Nat /\ Cardinality(H) <= n
  BY FS_Subset, FS_CardinalityType
<1>2. PICK h \in H : TRUE
  BY <1>1, FS_EmptySet
<1>3. n > 0 /\ k \in Nat /\ 2 * k <= n + 1 /\ 2 * k >= n
  BY <1>1
<1>4. h \in reached
  <2> DEFINE B == UpTo(price, S, price[h])
  <2>1. H \in SUBSET B /\ B \in SUBSET S
    BY <1>2 DEF UpTo
  <2>2. IsFiniteSet(B) /\ Cardinality(B) \in Nat
    BY <2>1, FS_Subset, FS_CardinalityType
  <2>3. Cardinality(H) <= Cardinality(B)
    BY <2>1, <2>2, FS_Subset
  <2> QED BY <1>1, <1>3, <2>2, <2>3
<1>5. p \in C
  BY <1>4
<1>6. \A y \in C : p <= y
  <2> SUFFICES ASSUME NEW v \in reached, price[v] < p
               PROVE  FALSE
    OBVIOUS
  <2> DEFINE B == UpTo(price, S, price[v])
  <2>1. B \in SUBSET S /\ B \cap H = {}
    BY DEF UpTo
  <2>2. IsFiniteSet(B) /\ Cardinality(B) \in Nat
    BY <2>1, FS_Subset, FS_CardinalityType
  <2>3. Cardinality(B \cap H) = 0
    BY <2>1, FS_EmptySet
  <2>4. Cardinality(B \cup H) = Cardinality(B) + Cardinality(H) - Cardinality(B \cap H)
    BY <1>1, <2>2, FS_Union, Zenon
  <2>5. B \cup H \in SUBSET S
    BY <2>1
  <2>6. Cardinality(B \cup H) <= n
    BY <2>5, FS_Subset
  <2>7. Cardinality(B) >= k
    OBVIOUS
  <2> QED BY <1>1, <1>3, <2>2, <2>3, <2>4, <2>6, <2>7
<1>7. Min(C) \in C /\ \A y \in C : Min(C) <= y
  <2>1. C \in SUBSET Nat /\ C # {}
    BY <1>5
  <2> QED BY <2>1, MinIsLeast
<1>8. Min(C) = p
  <2>1. Min(C) \in Nat
    BY <1>7
  <2>2. Min(C) <= p
    BY <1>5, <1>7
  <2>3. p <= Min(C)
    BY <1>6, <1>7
  <2> HIDE DEF C
  <2> QED BY <2>1, <2>2, <2>3
<1> QED BY <1>4, <1>8 DEF UnweightedMedian

\* A feed at the reference price is no outlier.
LEMMA QuoZero ==
  ASSUME NEW y \in Nat \ {0}
  PROVE  Quo(0, y) = 0
<1>1. (0 * Prec * Prec) \div y = 0
  BY PrecAssumption
<1>2. ChopPrecisionAndRound(0) = 0
  BY PrecAssumption DEF ChopPrecisionAndRound
<1> QED BY <1>1, <1>2 DEF Quo

============================================================================
