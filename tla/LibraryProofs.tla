--------------------------- MODULE LibraryProofs ---------------------------
(***************************************************************************)
(* Facts about stores and sums, for every store, finite set and weights.   *)
(*                                                                         *)
(* An induction over finite sets takes the form of a least counterexample: *)
(* were there a subset for which a claim fails, there would be a smallest  *)
(* one (NatLeast), and the claim holds for it without one of its members.  *)
(***************************************************************************)
EXTENDS Sums, KVStore, FiniteSetTheorems, WellFoundedInduction, TLAPS

\* Set keeps the type of a store.
LEMMA PutType ==
  ASSUME NEW s, NEW K, NEW V, IsStore(s, K, V), NEW k \in K, NEW x \in V
  PROVE  IsStore(Put(s, k, x), K, V)
BY DEF IsStore, Put

\* A store just cleared has every type.
LEMMA EmptyStoreType ==
  ASSUME NEW K, NEW V
  PROVE  IsStore(EmptyStore, K, V)
BY DEF IsStore, EmptyStore

\* Overwriting a key that is present keeps the type of a store.
LEMMA UpdateType ==
  ASSUME NEW s, NEW K, NEW V, IsStore(s, K, V), NEW k \in DOMAIN s, NEW x \in V
  PROVE  IsStore([s EXCEPT ![k] = x], K, V)
BY DEF IsStore

----------------------------------------------------------------------------
\* Every non-empty set of naturals has a least element.
LEMMA NatLeast ==
  ASSUME NEW C \in SUBSET Nat, C # {}
  PROVE  \E x \in C : \A y \in C : x <= y
<1>1. IsWellFoundedOn(OpToRel(<, Nat), Nat)
  BY NatLessThanWellFounded, Zenon
<1>2. PICK x \in C : \A y \in C : ~ (<<y, x>> \in OpToRel(<, Nat))
  BY <1>1, WFMin, Zenon
<1>3. \A y \in C : ~ (y < x)
  BY <1>2 DEF OpToRel
<1> QED BY <1>3

----------------------------------------------------------------------------
\* Power is a natural number, summed over finitely many units.
LEMMA WeightType ==
  ASSUME NEW S, IsFiniteSet(S), NEW w
  PROVE  IsFiniteSet(Units(w, S)) /\ Weight(w, S) \in Nat
<1>1. IsFiniteSet(1 .. MaxUnits)
  BY FS_Interval, MaxUnitsAssumption
<1>2. IsFiniteSet(S \X (1 .. MaxUnits))
  BY <1>1, FS_Product
<1>3. IsFiniteSet(Units(w, S))
  BY <1>2, FS_Subset DEF Units
<1> QED BY <1>3, FS_CardinalityType DEF Weight

\* A set of validators owns no more power than a superset of it.
LEMMA WeightMonotone ==
  ASSUME NEW S, IsFiniteSet(S), NEW T \in SUBSET S, NEW w
  PROVE  Weight(w, T) <= Weight(w, S)
<1>1. Units(w, T) \subseteq Units(w, S)
  BY DEF Units
<1> QED BY <1>1, WeightType, FS_Subset DEF Weight

\* The power of two disjoint sets of validators adds up.
LEMMA WeightDisjoint ==
  ASSUME NEW S, IsFiniteSet(S), NEW T \in SUBSET S, NEW U \in SUBSET S,
         T \cap U = {}, NEW w
  PROVE  Weight(w, T) + Weight(w, U) <= Weight(w, S)
<1>1. IsFiniteSet(T) /\ IsFiniteSet(U)
  BY FS_Subset
<1>2. IsFiniteSet(Units(w, T)) /\ IsFiniteSet(Units(w, U))
  BY <1>1, WeightType
<1>3. Units(w, T) \cap Units(w, U) = {}
  BY DEF Units
<1>4. Cardinality(Units(w, T) \cap Units(w, U)) = 0
  BY <1>3, FS_EmptySet
<1>5. Cardinality(Units(w, T) \cup Units(w, U)) = Weight(w, T) + Weight(w, U)
  <2>1. Cardinality(Units(w, T) \cup Units(w, U))
          = Cardinality(Units(w, T)) + Cardinality(Units(w, U))
              - Cardinality(Units(w, T) \cap Units(w, U))
    BY <1>2, FS_Union, Zenon
  <2>2. Cardinality(Units(w, T)) \in Nat /\ Cardinality(Units(w, U)) \in Nat
    BY <1>2, FS_CardinalityType
  <2> QED BY <1>4, <2>1, <2>2 DEF Weight
<1>6. Units(w, T) \cup Units(w, U) \subseteq Units(w, S)
  BY DEF Units
<1>7. Cardinality(Units(w, T) \cup Units(w, U)) <= Weight(w, S)
  BY <1>6, WeightType, FS_Subset DEF Weight
<1> QED BY <1>5, <1>7

\* No validator, no power.
LEMMA WeightEmpty ==
  ASSUME NEW w
  PROVE  Weight(w, {}) = 0
<1>1. Units(w, {}) = {}
  BY DEF Units
<1> QED BY <1>1, FS_EmptySet DEF Weight

\* Nor has a set of validators that have none.
LEMMA WeightZero ==
  ASSUME NEW S, NEW w, \A s \in S : w[s] = 0
  PROVE  Weight(w, S) = 0
<1>1. Units(w, S) = {}
  BY MaxUnitsAssumption DEF Units
<1> QED BY <1>1, FS_EmptySet DEF Weight

\* A sum depends only on the weights of the set's members.
LEMMA WeightSame ==
  ASSUME NEW S, NEW w, NEW x, \A s \in S : w[s] = x[s]
  PROVE  Weight(w, S) = Weight(x, S)
<1>1. Units(w, S) = Units(x, S)
  BY DEF Units
<1> QED BY <1>1 DEF Weight

\* The sum over two disjoint sets is the sum of their sums.
LEMMA WeightUnion ==
  ASSUME NEW S, IsFiniteSet(S), NEW T, IsFiniteSet(T), S \cap T = {}, NEW w
  PROVE  Weight(w, S \cup T) = Weight(w, S) + Weight(w, T)
<1>1. IsFiniteSet(Units(w, S)) /\ IsFiniteSet(Units(w, T))
  BY WeightType
<1>2. Units(w, S) \cap Units(w, T) = {} /\ Units(w, S \cup T) = Units(w, S) \cup Units(w, T)
  BY DEF Units
<1>3. Cardinality(Units(w, S) \cap Units(w, T)) = 0
  BY <1>2, FS_EmptySet
<1>4. Cardinality(Units(w, S) \cup Units(w, T))
        = Cardinality(Units(w, S)) + Cardinality(Units(w, T))
            - Cardinality(Units(w, S) \cap Units(w, T))
  BY <1>1, FS_Union, Zenon
<1>5. Cardinality(Units(w, S)) \in Nat /\ Cardinality(Units(w, T)) \in Nat
  BY <1>1, FS_CardinalityType
<1>6. Cardinality(Units(w, S) \cup Units(w, T)) = Weight(w, S) + Weight(w, T)
  BY <1>3, <1>4, <1>5 DEF Weight
<1> QED BY <1>2, <1>6, Zenon DEF Weight

\* The sum over one member is its weight.
LEMMA WeightSingle ==
  ASSUME NEW w, NEW v, w[v] \in 0 .. MaxUnits
  PROVE  Weight(w, {v}) = w[v]
<1>1. Units(w, {v}) = {v} \X (1 .. w[v])
  BY MaxUnitsAssumption DEF Units
<1>2. IsFiniteSet(1 .. w[v]) /\ Cardinality(1 .. w[v]) = w[v]
  <2>1. w[v] \in Int /\ 1 \in Int /\ (IF 1 > w[v] THEN 0 ELSE w[v] - 1 + 1) = w[v]
    BY MaxUnitsAssumption
  <2>2. /\ IsFiniteSet(1 .. w[v])
        /\ Cardinality(1 .. w[v]) = IF 1 > w[v] THEN 0 ELSE w[v] - 1 + 1
    BY <2>1, FS_Interval, Zenon
  <2> QED BY <2>1, <2>2
<1>3. IsFiniteSet({v}) /\ Cardinality({v}) = 1
  BY FS_Singleton
<1>4. Cardinality({v} \X (1 .. w[v])) = Cardinality({v}) * Cardinality(1 .. w[v])
  BY <1>2, <1>3, FS_Product, Zenon
<1>5. 1 * w[v] = w[v]
  BY MaxUnitsAssumption
<1>6. Cardinality({v} \X (1 .. w[v])) = w[v]
  BY <1>2, <1>3, <1>4, <1>5, Zenon
<1> QED BY <1>1, <1>6, Zenon DEF Weight

\* No member weighs more than the whole set.
LEMMA WeightMember ==
  ASSUME NEW S, IsFiniteSet(S), NEW v \in S, NEW w, w[v] \in 0 .. MaxUnits
  PROVE  w[v] <= Weight(w, S)
<1>1. {v} \in SUBSET S
  OBVIOUS
<1> QED BY <1>1, WeightSingle, WeightMonotone

\* A sum changes by as much as the weight of the one member that changes.
LEMMA WeightChange ==
  ASSUME NEW S, IsFiniteSet(S), NEW v \in S, NEW w, NEW x,
         w[v] \in 0 .. MaxUnits, x[v] \in 0 .. MaxUnits,
         \A s \in S \ {v} : w[s] = x[s]
  PROVE  Weight(x, S) = Weight(w, S) - w[v] + x[v]
<1> DEFINE R == S \ {v}
<1>1. IsFiniteSet(R) /\ IsFiniteSet({v}) /\ R \cap {v} = {} /\ R \cup {v} = S
  BY FS_Singleton, FS_Subset
<1>2. Weight(w, S) = Weight(w, R) + Weight(w, {v}) /\ Weight(x, S) = Weight(x, R) + Weight(x, {v})
  BY <1>1, WeightUnion
<1>3. Weight(w, R) = Weight(x, R)
  BY WeightSame
<1>4. Weight(w, {v}) = w[v] /\ Weight(x, {v}) = x[v]
  BY WeightSingle
<1>5. Weight(w, R) \in Nat
  BY <1>1, WeightType
<1> QED BY <1>2, <1>3, <1>4, <1>5

\* Two members together weigh no more than the whole set.
LEMMA WeightPair ==
  ASSUME NEW S, IsFiniteSet(S), NEW a \in S, NEW b \in S, a # b, NEW w,
         w[a] \in 0 .. MaxUnits, w[b] \in 0 .. MaxUnits
  PROVE  w[a] + w[b] <= Weight(w, S)
<1>1. {a} \in SUBSET S /\ {b} \in SUBSET S /\ {a} \cap {b} = {}
  OBVIOUS
<1> QED BY <1>1, WeightDisjoint, WeightSingle

\* The sum of equal weights.
LEMMA WeightConstant ==
  ASSUME NEW S, IsFiniteSet(S), NEW w, NEW c \in 0 .. MaxUnits, \A s \in S : w[s] = c
  PROVE  Weight(w, S) = Cardinality(S) * c
<1>m. MaxUnits \in Nat
  BY MaxUnitsAssumption
<1>1. (1 .. c) \cap (1 .. MaxUnits) = 1 .. c
  BY <1>m
<1>2. Units(w, S) = S \X (1 .. c)
  BY <1>1 DEF Units
<1>3. IsFiniteSet(1 .. c) /\ Cardinality(1 .. c) = c
  <2>1. c \in Int /\ 1 \in Int /\ (IF 1 > c THEN 0 ELSE c - 1 + 1) = c
    BY <1>m
  <2> QED BY <2>1, FS_Interval, Zenon
<1>4. Cardinality(S \X (1 .. c)) = Cardinality(S) * Cardinality(1 .. c)
  BY <1>3, FS_Product, Zenon
<1> QED BY <1>2, <1>3, <1>4, Zenon DEF Weight

\* A property of subsets of a finite set that the empty set has, and every
\* other one when all smaller ones by one member do, is one of the whole set:
\* the good subsets G cannot leave out a smallest one.
LEMMA SubsetInduction ==
  ASSUME NEW S, IsFiniteSet(S), NEW G \in SUBSET (SUBSET S),
         {} \in G,
         \A T \in SUBSET S : T # {} /\ (\A x \in T : T \ {x} \in G) => T \in G
  PROVE  S \in G
<1> SUFFICES ASSUME S \notin G PROVE FALSE
  OBVIOUS
<1> DEFINE Bad == {k \in Nat : \E T \in SUBSET S : Cardinality(T) = k /\ T \notin G}
<1>1. Cardinality(S) \in Bad
  <2>1. Cardinality(S) \in Nat /\ S \in SUBSET S
    BY FS_CardinalityType
  <2> QED BY <2>1
<1>2. PICK k \in Bad : \A j \in Bad : k <= j
  <2>1. Bad \in SUBSET Nat /\ Bad # {}
    BY <1>1
  <2> QED BY <2>1, NatLeast
<1>3. PICK T \in SUBSET S : Cardinality(T) = k /\ T \notin G
  BY <1>2
<1>4. PICK x \in T : T \ {x} \notin G
  <2>1. T # {}
    BY <1>3
  <2> HIDE DEF Bad
  <2> QED BY <1>3, <2>1
<1>5. IsFiniteSet(T)
  BY FS_Subset
<1>6. Cardinality(T \ {x}) = k - 1
  <2>1. Cardinality(T \ {x}) = IF x \in T THEN Cardinality(T) - 1 ELSE Cardinality(T)
    BY <1>5, FS_RemoveElement
  <2> QED BY <1>3, <1>4, <2>1
<1>7. T \ {x} \in SUBSET S /\ T \ {x} \notin G
  BY <1>3, <1>4
<1>8. Cardinality(T \ {x}) \in Nat
  <2>1. IsFiniteSet(T \ {x})
    BY <1>7, FS_Subset
  <2> QED BY <2>1, FS_CardinalityType
<1>9. k - 1 \in Bad
  BY <1>6, <1>7, <1>8
<1> QED BY <1>2, <1>9

\* A sum without one member.
LEMMA WeightRemove ==
  ASSUME NEW S, IsFiniteSet(S), NEW x \in S, NEW w, w[x] \in 0 .. MaxUnits
  PROVE  Weight(w, S) = Weight(w, S \ {x}) + w[x]
<1>0. IsFiniteSet(S \ {x})
  <2>1. S \ {x} \in SUBSET S
    OBVIOUS
  <2> QED BY <2>1, FS_Subset
<1>1. IsFiniteSet(S \ {x}) /\ IsFiniteSet({x}) /\ (S \ {x}) \cap {x} = {}
      /\ (S \ {x}) \cup {x} = S
  <2>1. IsFiniteSet({x})
    BY FS_Singleton, Zenon
  <2> QED BY <1>0, <2>1
<1>2. Weight(w, S) = Weight(w, S \ {x}) + Weight(w, {x})
  BY <1>1, WeightUnion
<1> QED BY <1>2, WeightSingle

\* When each weight w is between lo and hi times the weight d, the sum is.
LEMMA WeightScaled ==
  ASSUME NEW S, IsFiniteSet(S), NEW w, NEW d, NEW lo \in Nat, NEW hi \in Nat,
         \A s \in S : /\ w[s] \in 0 .. MaxUnits /\ d[s] \in 0 .. MaxUnits
                      /\ lo * d[s] <= w[s] /\ w[s] <= hi * d[s]
  PROVE  lo * Weight(d, S) <= Weight(w, S) /\ Weight(w, S) <= hi * Weight(d, S)
<1> DEFINE G == {T \in SUBSET S : /\ lo * Weight(d, T) <= Weight(w, T)
                                  /\ Weight(w, T) <= hi * Weight(d, T)}
<1>1. {} \in G
  <2>1. Weight(d, {}) = 0 /\ Weight(w, {}) = 0
    BY WeightEmpty
  <2>2. lo * 0 <= 0 /\ 0 <= hi * 0
    OBVIOUS
  <2> QED BY <2>1, <2>2
<1>2. ASSUME NEW T \in SUBSET S, NEW x \in T, T \ {x} \in G PROVE T \in G
  <2> DEFINE a == Weight(d, T \ {x})
             b == Weight(w, T \ {x})
  <2>1. IsFiniteSet(T) /\ IsFiniteSet(T \ {x})
    BY FS_Subset
  <2>2. a \in Nat /\ b \in Nat
    BY <2>1, WeightType
  <2>3. w[x] \in 0 .. MaxUnits /\ d[x] \in 0 .. MaxUnits
    OBVIOUS
  <2>4. Weight(d, T) = a + d[x] /\ Weight(w, T) = b + w[x]
    BY <2>1, <2>3, WeightRemove
  <2>5. lo * a <= b /\ b <= hi * a /\ lo * d[x] <= w[x] /\ w[x] <= hi * d[x]
    BY <1>2
  <2> HIDE DEF a, b
  <2>6. w[x] \in Nat /\ d[x] \in Nat
    BY <2>3, MaxUnitsAssumption
  <2>7. /\ lo * (a + d[x]) = lo * a + lo * d[x] /\ hi * (a + d[x]) = hi * a + hi * d[x]
        /\ lo * a \in Nat /\ lo * d[x] \in Nat /\ hi * a \in Nat /\ hi * d[x] \in Nat
    BY <2>2, <2>6
  <2>8. lo * (a + d[x]) <= b + w[x] /\ b + w[x] <= hi * (a + d[x])
    BY <2>2, <2>5, <2>6, <2>7
  <2> QED BY <2>4, <2>8
<1>3. S \in G
  <2> HIDE DEF G
  <2>1. G \in SUBSET (SUBSET S)
    BY DEF G
  <2>2. \A T \in SUBSET S : T # {} /\ (\A x \in T : T \ {x} \in G) => T \in G
    BY <1>2
  <2> QED BY <1>1, <2>1, <2>2, SubsetInduction
<1> QED BY <1>3

\* The sum over a set that is split into blocks is the sum of the blocks' sums.
LEMMA WeightBlocks ==
  ASSUME NEW S, IsFiniteSet(S), NEW B, NEW g, NEW w,
         \A s \in S : /\ IsFiniteSet(B[s]) /\ w[s] \in 0 .. MaxUnits
                      /\ Weight(g, B[s]) = w[s],
         \A s, t \in S : s # t => B[s] \cap B[t] = {}
  PROVE  Weight(g, UNION {B[s] : s \in S}) = Weight(w, S)
<1> DEFINE All(T) == UNION {B[s] : s \in T}
           G == {T \in SUBSET S : IsFiniteSet(All(T)) /\ Weight(g, All(T)) = Weight(w, T)}
<1>1. {} \in G
  <2>1. All({}) = {}
    OBVIOUS
  <2>2. IsFiniteSet({}) /\ Weight(g, {}) = 0 /\ Weight(w, {}) = 0
    BY FS_EmptySet, WeightEmpty
  <2> QED BY <2>1, <2>2
<1>2. ASSUME NEW T \in SUBSET S, NEW x \in T, T \ {x} \in G PROVE T \in G
  <2> DEFINE R == T \ {x}
  <2>1. All(T) = All(R) \cup B[x] /\ All(R) \cap B[x] = {}
    <3>1. T = R \cup {x} /\ \A s \in R : s # x /\ s \in S
      OBVIOUS
    <3>2. \A s \in R : B[s] \cap B[x] = {}
      BY <3>1
    <3> HIDE DEF R
    <3> QED BY <3>1, <3>2
  <2>2. IsFiniteSet(All(R)) /\ Weight(g, All(R)) = Weight(w, R)
    BY <1>2
  <2>3. IsFiniteSet(B[x]) /\ Weight(g, B[x]) = w[x] /\ w[x] \in 0 .. MaxUnits
    OBVIOUS
  <2> HIDE DEF All, R
  <2>4. Weight(g, All(T)) = Weight(g, All(R)) + Weight(g, B[x])
    BY <2>1, <2>2, <2>3, WeightUnion
  <2>5. IsFiniteSet(All(T))
    <3>1. IsFiniteSet(All(R) \cup B[x])
      BY <2>2, <2>3, FS_Union, Zenon
    <3> QED BY <2>1, <3>1
  <2>6. IsFiniteSet(T)
    BY FS_Subset
  <2>7. Weight(w, T) = Weight(w, R) + w[x]
    BY <2>3, <2>6, WeightRemove DEF R
  <2> QED BY <2>2, <2>3, <2>4, <2>5, <2>7
<1>3. S \in G
  <2> HIDE DEF G
  <2>1. G \in SUBSET (SUBSET S)
    BY DEF G
  <2>2. \A T \in SUBSET S : T # {} /\ (\A x \in T : T \ {x} \in G) => T \in G
    BY <1>2
  <2> QED BY <1>1, <2>1, <2>2, SubsetInduction
<1> QED BY <1>3
=============================================================================
