----------------------------- MODULE TwapProofs -----------------------------
(***************************************************************************)
(* Proofs about Twap: its type invariant, the retention of the history,    *)
(* that a TWAP is available exactly when the price is, and what its value  *)
(* is: the mean of the prices that prevailed, within their range.          *)
(***************************************************************************)
EXTENDS Twap, AggregationProofs

----------------------------------------------------------------------------
(* Stores.                                                                 *)

\* Pruning keeps the type of a store and the entries from the cutoff on.
LEMMA PruneType ==
    ASSUME NEW s, NEW K, NEW V, IsStore(s, K, V), NEW cutoff
    PROVE  /\ IsStore(PruneTWAPOlderThan(s, cutoff), K, V)
           /\ DOMAIN PruneTWAPOlderThan(s, cutoff) = {t \in DOMAIN s : t >= cutoff}
           /\ \A t \in DOMAIN s : t >= cutoff => PruneTWAPOlderThan(s, cutoff)[t] = s[t]
  BY DEF IsStore, PruneTWAPOlderThan

\* A store of smaller keys is a store of larger ones.
LEMMA StoreWiden ==
    ASSUME NEW s, NEW K, NEW L, NEW V, IsStore(s, K, V), K \subseteq L
    PROVE  IsStore(s, L, V)
  BY DEF IsStore

\* An empty store has no key.
LEMMA EmptyDomain == DOMAIN EmptyStore = {}
  BY DEF EmptyStore

----------------------------------------------------------------------------
(* Types.                                                                  *)

\* At most one price is stored, and it is not from the future.
PriceType == \E p \in Prices, t \in 0 .. now : price \subseteq {[price |-> p, time |-> t]}

\* The initial state has the types.
LEMMA TypeInit == ASSUME Init PROVE TypeOK
<1>1. IsStore(entries, 0 .. now, Prices) /\ IsStore(published, 0 .. now, Prices)
  BY EmptyStoreType DEF Init
<1>2. now \in 0 .. MaxTime /\ 0 \in 0 .. now
  BY TwapAssumption DEF Init
<1>3. PriceType
  BY <1>2, TwapAssumption DEF Init, PriceType
<1>4. maxAge \in AgeChoices /\ maxAge > 0
  BY DEF Init, ValidAge
<1> QED BY <1>1, <1>2, <1>3, <1>4 DEF Init, TypeOK, PriceType

\* Every step keeps the types.
LEMMA TypeStep == ASSUME TypeOK, [Next]_vars PROVE TypeOK'
<1> USE DEF TypeOK
<1>t. now \in Nat /\ MaxTime \in Nat
  BY TwapAssumption
<1>1. ASSUME BeginBlock PROVE TypeOK'
  <2>1. PICK t \in now + 1 .. MaxTime : now' = t
    BY <1>1 DEF BeginBlock
  <2>2. now' \in 0 .. MaxTime /\ 0 .. now \subseteq 0 .. now'
    BY <1>t, <2>1
  <2>3. IsStore(entries, 0 .. now', Prices) /\ IsStore(published, 0 .. now', Prices)
    BY <2>2, StoreWiden
  <2>4. \E p \in Prices, u \in 0 .. now' : price \subseteq {[price |-> p, time |-> u]}
    BY <2>2
  <2> QED BY <1>1, <2>2, <2>3, <2>4 DEF BeginBlock, paramVars
<1>2. ASSUME UpdateParams PROVE TypeOK'
  BY <1>2 DEF UpdateParams, ValidAge
<1>3. ASSUME NEW p \in Prices, Aggregate(p) PROVE TypeOK'
  <2>1. now \in 0 .. now
    BY <1>t
  <2>2. /\ IsStore(Put(entries, now, p), 0 .. now, Prices)
        /\ IsStore(Put(published, now, p), 0 .. now, Prices)
    BY <2>1, PutType
  <2>3. IsStore(entries', 0 .. now, Prices)
    BY <1>3, <2>2, PruneType DEF Aggregate, AppendTWAPEntry
  <2>4. PriceType'
    BY <1>3, <2>1 DEF Aggregate, PriceType
  <2> QED BY <1>3, <2>2, <2>3, <2>4 DEF Aggregate, paramVars, PriceType
<1>4. ASSUME NoAggregate PROVE TypeOK'
  BY <1>4 DEF NoAggregate, paramVars
<1>5. ASSUME ExportAndRestart PROVE TypeOK'
  <2>1. PICK t \in 0 .. MaxTime : now' = t /\ \A ap \in price : ap.time <= t
    BY <1>5 DEF ExportAndRestart
  <2>2. PICK p \in Prices, u \in 0 .. now : price \subseteq {[price |-> p, time |-> u]}
    OBVIOUS
  <2>3. \E w \in 0 .. now' : price \subseteq {[price |-> p, time |-> w]}
    <3>1. ASSUME price = {} PROVE 0 \in 0 .. now' /\ price \subseteq {[price |-> p, time |-> 0]}
      BY <2>1, <3>1
    <3>2. ASSUME price # {} PROVE u \in 0 .. now'
      <4>1. [price |-> p, time |-> u] \in price
        BY <2>2, <3>2
      <4> QED BY <2>1, <2>2, <4>1
    <3> QED BY <2>2, <3>1, <3>2
  <2>4. PriceType'
    BY <1>5, <2>3 DEF ExportAndRestart, PriceType
  <2>5. IsStore(entries', 0 .. now', Prices) /\ IsStore(published', 0 .. now', Prices)
    BY <1>5, EmptyStoreType DEF ExportAndRestart
  <2> QED BY <1>5, <2>1, <2>4, <2>5 DEF ExportAndRestart, paramVars, PriceType
<1>6. ASSUME UNCHANGED vars PROVE TypeOK'
  BY <1>6 DEF vars, paramVars
<1> QED BY <1>1, <1>2, <1>3, <1>4, <1>5, <1>6 DEF Next

\* max_price_age stays positive and nothing stored is from the future.
THEOREM TypeCorrect == Spec => []TypeOK
  BY TypeInit, TypeStep, PTL DEF Spec

----------------------------------------------------------------------------
(* The history.                                                            *)

\* The stored price, when it was published since the last restart, is the
\* newest entry of the history.
NewestIsPrice ==
    /\ \A ap \in price : ap.time \in DOMAIN published => ap.time \in DOMAIN entries
    /\ \A t \in DOMAIN entries :
          \E ap \in price : ap.time \in DOMAIN published /\ t <= ap.time

\* Pruning only ever drops the oldest entries: what is left is what was
\* published from some time on.
OldestDropped ==
    \A t \in DOMAIN entries :
        /\ t \in DOMAIN published
        /\ entries[t] = published[t]
        /\ \A v \in DOMAIN published : v >= t => v \in DOMAIN entries

IInv == TypeOK /\ WindowRetained /\ NewestIsPrice /\ OldestDropped

\* The initial state satisfies the invariant.
LEMMA InvInit == ASSUME Init PROVE IInv
<1>1. DOMAIN entries = {} /\ DOMAIN published = {}
  BY EmptyDomain DEF Init
<1> QED BY <1>1, TypeInit DEF IInv, WindowRetained, NewestIsPrice, OldestDropped

\* Every step keeps the invariant: only a publication prunes.
LEMMA InvStep == ASSUME IInv, [Next]_vars PROVE IInv'
<1> USE DEF IInv
<1>t. TypeOK'
  BY TypeStep
<1>n. /\ now \in Nat /\ now' \in Nat /\ Retention \in Nat \ {0}
      /\ DOMAIN entries \subseteq 0 .. now /\ DOMAIN published \subseteq 0 .. now
  BY <1>t, TwapAssumption DEF TypeOK, IsStore
<1> DEFINE Rest == WindowRetained /\ NewestIsPrice /\ OldestDropped
<1>1. ASSUME BeginBlock PROVE Rest'
  <2>1. now' > now
    BY <1>1, <1>n DEF BeginBlock
  <2>2. WindowRetained'
    BY <1>1, <1>n, <2>1 DEF BeginBlock, WindowRetained
  <2> QED BY <1>1, <2>2 DEF BeginBlock, NewestIsPrice, OldestDropped
<1>2. ASSUME UpdateParams PROVE Rest'
  BY <1>2 DEF UpdateParams, WindowRetained, NewestIsPrice, OldestDropped
<1>3. ASSUME NEW p \in Prices, Aggregate(p) PROVE Rest'
  <2> DEFINE put == Put(entries, now, p)
             kept == PruneTWAPOlderThan(put, now - Retention)
  <2>0. now \in 0 .. now
    BY <1>n
  <2>1. IsStore(put, 0 .. now, Prices)
    BY <2>0, PutType DEF TypeOK
  <2>2. /\ DOMAIN kept = {t \in DOMAIN put : t >= now - Retention}
        /\ \A t \in DOMAIN put : t >= now - Retention => kept[t] = put[t]
    BY <2>1, PruneType
  <2>3. /\ DOMAIN put = DOMAIN entries \cup {now} /\ put[now] = p
        /\ \A t \in DOMAIN entries : t # now => put[t] = entries[t]
    BY DEF Put
  <2>4. /\ DOMAIN published' = DOMAIN published \cup {now} /\ published'[now] = p
        /\ \A t \in DOMAIN published : t # now => published'[t] = published[t]
    <3>1. published' = Put(published, now, p)
      BY <1>3 DEF Aggregate
    <3> QED BY <3>1 DEF Put
  <2>5. entries' = kept /\ now' = now /\ price' = {[price |-> p, time |-> now]}
    BY <1>3 DEF Aggregate, AppendTWAPEntry, paramVars
  <2> HIDE DEF put, kept
  <2>6. WindowRetained'
    BY <1>n, <2>2, <2>3, <2>4, <2>5 DEF WindowRetained
  <2>7. now \in DOMAIN kept /\ DOMAIN kept \subseteq 0 .. now
    BY <1>n, <2>2, <2>3
  <2>8. NewestIsPrice'
    BY <1>n, <2>4, <2>5, <2>7 DEF NewestIsPrice
  <2>9. OldestDropped'
    BY <1>n, <2>2, <2>3, <2>4, <2>5 DEF OldestDropped
  <2> QED BY <2>6, <2>8, <2>9
<1>4. ASSUME NoAggregate PROVE Rest'
  BY <1>4 DEF NoAggregate, WindowRetained, NewestIsPrice, OldestDropped
<1>5. ASSUME ExportAndRestart PROVE Rest'
  <2>1. DOMAIN entries' = {} /\ DOMAIN published' = {}
    BY <1>5, EmptyDomain DEF ExportAndRestart
  <2> QED BY <2>1 DEF WindowRetained, NewestIsPrice, OldestDropped
<1>6. ASSUME UNCHANGED vars PROVE Rest'
  BY <1>6 DEF vars, WindowRetained, NewestIsPrice, OldestDropped
<1>7. Rest'
  BY <1>1, <1>2, <1>3, <1>4, <1>5, <1>6 DEF Next
<1> QED BY <1>t, <1>7

\* Every price of the last 24 hours is in the history.
THEOREM HistoryRetained == Spec => []WindowRetained
<1>1. IInv => WindowRetained
  BY DEF IInv
<1> QED BY <1>1, InvInit, InvStep, PTL DEF Spec

----------------------------------------------------------------------------
(* Availability of a TWAP.                                                 *)

\* The time during which some entry collected was the newest one.
Total(S) == Weight([t \in S |-> Duration(S, t)], S)

\* GetTWAP answers: the pair is listed, something is collected and not stale,
\* and it is one entry or some entry has a duration.
LEMMA TwapAnswers ==
    ASSUME NEW window
    PROVE  GetTWAP(window).err = "" <=>
             /\ listed
             /\ Collected(window) # {}
             /\ ~ (now - NewestCollected(Collected(window)) > AsDuration(maxAge))
             /\ Cardinality(Collected(window)) = 1 \/ Total(Collected(window)) # 0
  BY DEF GetTWAP, Total, Ok, Err

\* A stored price is served when the pair is listed and the price not stale.
LEMMA PriceAnswers ==
    ASSUME NEW ap, price = {ap}
    PROVE  GetAggregatedPrice.err = "" <=> listed /\ ~ (now - ap.time > AsDuration(maxAge))
<1>1. (CHOOSE a \in price : TRUE) = ap
  OBVIOUS
<1> QED BY <1>1 DEF GetAggregatedPrice, Ok, Err

\* What is collected is in the history, and its newest entry is.
LEMMA CollectedNewest ==
    ASSUME TypeOK, NEW window \in Windows, NEW m \in DOMAIN entries,
           \A t \in DOMAIN entries : t <= m
    PROVE  /\ Collected(window) \subseteq 0 .. now
           /\ m \in Collected(window)
           /\ NewestCollected(Collected(window)) = m
<1> DEFINE past == {t \in DOMAIN entries : t <= now}
           before == {t \in past : t <= WindowStart(window)}
<1>1. DOMAIN entries \subseteq 0 .. now /\ now \in Nat
  BY TwapAssumption DEF TypeOK, IsStore
<1>2. AsDuration(window) \in Int
  BY TwapAssumption DEF AsDuration
<1>3. WindowStart(window) \in Int
  BY <1>1, <1>2 DEF WindowStart
<1>4. m \in past /\ past \subseteq 0 .. now
  BY <1>1
<1>5. Collected(window) = {t \in past : t > WindowStart(window) \/ t = Max(before)}
  BY DEF Collected
<1>6. m \in Collected(window)
  <2>1. ASSUME m <= WindowStart(window) PROVE Max(before) = m
    <3>1. before \in SUBSET Int /\ m \in before /\ \A t \in before : t <= m
      BY <1>1, <1>4, <2>1
    <3> QED BY <3>1, MaxIs, Zenon
  <2>2. ASSUME ~ (m <= WindowStart(window)) PROVE m > WindowStart(window)
    BY <1>1, <1>3, <2>2
  <2> QED BY <1>4, <1>5, <2>1, <2>2
<1>7. Collected(window) \subseteq past
  BY <1>5
<1>8. NewestCollected(Collected(window)) = m
  <2>1. Collected(window) \in SUBSET Int /\ \A t \in Collected(window) : t <= m
    BY <1>1, <1>7
  <2> QED BY <1>6, <2>1, MaxIs, Zenon DEF NewestCollected
<1> QED BY <1>4, <1>6, <1>7, <1>8

\* Two entries cannot both have no duration.
LEMMA TotalPositive ==
    ASSUME TypeOK, NEW S \in SUBSET (0 .. now), NEW a \in S, NEW b \in S, a < b
    PROVE  Total(S) # 0
<1> DEFINE later == {u \in S : u > a}
           w == [t \in S |-> Duration(S, t)]
<1>1. now \in Nat /\ MaxTime \in Nat /\ now <= MaxUnits /\ MaxUnits \in Nat
  BY TwapAssumption, MaxUnitsAssumption DEF TypeOK
<1>2. later \in SUBSET Nat /\ later # {}
  <2>1. a \in Nat /\ b \in Nat /\ b > a /\ \A u \in S : u \in Nat
    BY <1>1
  <2> QED BY <2>1
<1>3. Min(later) \in later
  BY <1>2, MinIsLeast, Zenon
<1>4. Duration(S, a) = Min(later) - a
  BY <1>2 DEF Duration
<1>5. w[a] \in 1 .. MaxUnits
  <2>1. Min(later) \in 0 .. now /\ Min(later) > a
    BY <1>3
  <2>2. w[a] = Min(later) - a
    BY <1>4
  <2> HIDE DEF later, w
  <2> QED BY <1>1, <2>1, <2>2
<1>6. IsFiniteSet(S)
  <2>1. IsFiniteSet(0 .. now)
    BY <1>1, FS_Interval
  <2> QED BY <2>1, FS_Subset
<1>7. w[a] \in 0 .. MaxUnits
  BY <1>1, <1>5
<1>8. w[a] <= Weight(w, S) /\ Weight(w, S) \in Nat
  BY <1>6, <1>7, WeightMember, WeightType
<1> QED BY <1>1, <1>5, <1>8 DEF Total

\* The history is empty until a price is published, and then a TWAP and the
\* price are available together.
LEMMA FreshTogether == ASSUME IInv PROVE TwapFreshAsPrice
<1> SUFFICES ASSUME NEW window \in Windows
             PROVE  GetTWAP(window).err = "" <=>
                       /\ GetAggregatedPrice.err = ""
                       /\ \A ap \in price : ap.time \in DOMAIN published
  BY DEF TwapFreshAsPrice
<1>n. TypeOK /\ now \in Nat /\ DOMAIN entries \subseteq 0 .. now
  BY TwapAssumption DEF IInv, TypeOK, IsStore
<1>0. Collected(window) \subseteq DOMAIN entries
  BY DEF Collected
<1>1. ASSUME price = {} PROVE FALSE <=> GetTWAP(window).err = "" \/ GetAggregatedPrice.err = ""
  <2>1. DOMAIN entries = {}
    BY <1>1 DEF IInv, NewestIsPrice
  <2>2. Collected(window) = {}
    BY <2>1, <1>0
  <2>3. GetAggregatedPrice.err # ""
    BY <1>1 DEF GetAggregatedPrice, Err
  <2> QED BY <2>2, <2>3, TwapAnswers
<1>2. ASSUME price # {}
      PROVE  GetTWAP(window).err = "" <=>
                /\ GetAggregatedPrice.err = ""
                /\ \A ap \in price : ap.time \in DOMAIN published
  <2>1. PICK ap : price = {ap}
    BY <1>2, <1>n DEF TypeOK
  <2>2. ASSUME ap.time \notin DOMAIN published PROVE GetTWAP(window).err # ""
    <3>1. DOMAIN entries = {}
      BY <2>1, <2>2 DEF IInv, NewestIsPrice
    <3> QED BY <3>1, <1>0, TwapAnswers
  <2>3. ASSUME ap.time \in DOMAIN published
        PROVE  GetTWAP(window).err = "" <=> GetAggregatedPrice.err = ""
    <3> DEFINE S == Collected(window)
               m == ap.time
    <3>1. m \in DOMAIN entries /\ \A t \in DOMAIN entries : t <= m
      BY <2>1, <2>3 DEF IInv, NewestIsPrice
    <3>2. S \subseteq 0 .. now /\ m \in S /\ NewestCollected(S) = m
      BY <1>n, <3>1, CollectedNewest
    <3>3. Cardinality(S) = 1 \/ Total(S) # 0
      <4>1. ASSUME S = {m} PROVE Cardinality(S) = 1
        BY <4>1, FS_Singleton, Zenon
      <4>2. ASSUME NEW a \in S, a # m PROVE Total(S) # 0
        <5>1. a < m
          BY <1>n, <1>0, <3>1, <3>2, <4>2
        <5> QED BY <1>n, <3>2, <5>1, TotalPositive
      <4> QED BY <3>2, <4>1, <4>2
    <3>4. GetTWAP(window).err = "" <=> listed /\ ~ (now - m > AsDuration(maxAge))
      <4> HIDE DEF m
      <4> QED BY <3>2, <3>3, TwapAnswers
    <3> QED BY <3>4, <2>1, PriceAnswers
  <2> QED BY <2>1, <2>2, <2>3
<1> QED BY <1>1, <1>2

\* A TWAP is available exactly when the price is, a fresh import aside: the
\* two staleness checks never disagree.
THEOREM TwapAvailable == Spec => []TwapFreshAsPrice
<1>1. IInv => TwapFreshAsPrice
  BY FreshTogether
<1> QED BY <1>1, InvInit, InvStep, PTL DEF Spec

----------------------------------------------------------------------------
(* The value of a TWAP.                                                    *)

\* A set of times up to n has a latest one.
LEMMA LatestTime ==
    ASSUME NEW n \in Nat, NEW S \in SUBSET (0 .. n), S # {}
    PROVE  Max(S) \in S /\ \A t \in S : t <= Max(S)
<1> DEFINE C == {k \in Nat : n - k \in S}
<1>1. PICK t \in S : TRUE
  OBVIOUS
<1>2. n - t \in C
  BY <1>1
<1>3. PICK k \in C : \A j \in C : k <= j
  <2>1. C \in SUBSET Nat /\ C # {}
    BY <1>2
  <2> QED BY <2>1, NatLeast
<1>4. n - k \in S /\ \A u \in S : u <= n - k
  <2>1. \A u \in S : n - u \in C
    OBVIOUS
  <2> QED BY <1>3, <2>1
<1>5. S \in SUBSET Int
  OBVIOUS
<1>6. Max(S) = n - k
  BY <1>4, <1>5, MaxIs, Zenon
<1> QED BY <1>4, <1>6

\* The number of times in an interval.
LEMMA IntervalLength ==
    ASSUME NEW a \in Int, NEW n \in Nat
    PROVE  IsFiniteSet(a .. a + n - 1) /\ Cardinality(a .. a + n - 1) = n
<1> DEFINE b == a + n - 1
<1>1. b \in Int /\ (IF a > b THEN 0 ELSE b - a + 1) = n
  OBVIOUS
<1> HIDE DEF b
<1>2. IsFiniteSet(a .. b) /\ Cardinality(a .. b) = IF a > b THEN 0 ELSE b - a + 1
  BY <1>1, FS_Interval, Zenon
<1>3. IsFiniteSet(a .. b) /\ Cardinality(a .. b) = n
  BY <1>1, <1>2, Zenon
<1> QED BY <1>3 DEF b

\* The end of the window is now, and all of its times are naturals up to it.
LEMMA TwapTypes ==
    ASSUME IInv, NEW window \in Windows
    PROVE  /\ now \in Nat /\ now <= MaxTime /\ MaxTime \in Nat \ {0}
           /\ WindowStart(window) \in Int
           /\ DOMAIN entries \subseteq 0 .. now /\ DOMAIN published \subseteq 0 .. now
           /\ \A t \in DOMAIN entries : entries[t] \in Prices
           /\ \A t \in DOMAIN published : published[t] \in Prices
<1>1. now \in Nat /\ now <= MaxTime /\ MaxTime \in Nat \ {0}
  BY TwapAssumption, MaxUnitsAssumption DEF IInv, TypeOK
<1>2. AsDuration(window) \in Int
  BY TwapAssumption DEF AsDuration
<1>3. WindowStart(window) \in Int
  BY <1>1, <1>2 DEF WindowStart
<1> QED BY <1>1, <1>3 DEF IInv, TypeOK, IsStore

\* What GetTWAP collects is what was published from some time on, and at most
\* its first entry is from before the window.
LEMMA CollectedRecent ==
    ASSUME IInv, NEW window \in Windows
    PROVE  /\ Collected(window) \subseteq DOMAIN entries
           /\ Collected(window) \subseteq 0 .. now
           /\ \A t \in Collected(window), v \in DOMAIN published :
                 v >= t => v \in Collected(window)
           /\ \A t, v \in Collected(window) : v <= WindowStart(window) => v <= t
<1> DEFINE past == {t \in DOMAIN entries : t <= now}
           before == {t \in past : t <= WindowStart(window)}
           S == Collected(window)
<1>1. /\ now \in Nat /\ WindowStart(window) \in Int
      /\ DOMAIN entries \subseteq 0 .. now /\ DOMAIN published \subseteq 0 .. now
  BY TwapTypes
<1>2. S = {t \in past : t > WindowStart(window) \/ t = Max(before)}
  BY DEF Collected
<1>3. past = DOMAIN entries /\ before \in SUBSET (0 .. now)
  BY <1>1
<1>4. \A t \in before : t <= Max(before) /\ Max(before) \in before
  BY <1>1, <1>3, LatestTime
<1>5. \A t \in S : t \in past /\ t \in Int
                   /\ (t > WindowStart(window) \/ t = Max(before))
  BY <1>1, <1>2
<1> HIDE DEF S
<1>6. ASSUME NEW t \in S, NEW v \in S, v <= WindowStart(window) PROVE v <= t
  <2>1. v \in before /\ v \in Int
    BY <1>5, <1>6
  <2>2. t \in Int /\ (t > WindowStart(window) \/ t = Max(before))
    BY <1>5
  <2> HIDE DEF before
  <2> QED BY <1>1, <1>4, <1>6, <2>1, <2>2
<1>7. ASSUME NEW t \in S, NEW v \in DOMAIN published, v >= t PROVE v \in S
  <2>1. t \in DOMAIN entries /\ t \in Int /\ v \in Int
    <3>1. t \in past /\ t \in Int
      BY <1>5
    <3> QED BY <1>1, <1>3, <3>1
  <2>2. v \in past
    BY <1>3, <1>7, <2>1 DEF IInv, OldestDropped
  <2>3. CASE v > WindowStart(window)
    BY <1>2, <2>2, <2>3 DEF S
  <2>4. CASE v <= WindowStart(window)
    <3>1. v \in before /\ t \in before
      BY <1>1, <1>5, <1>7, <2>1, <2>2, <2>4
    <3>2. t = Max(before)
      BY <1>1, <1>5, <1>7, <2>1, <2>4
    <3>3. v <= t
      BY <1>4, <3>1, <3>2
    <3>4. v = t
      BY <1>7, <2>1, <3>3
    <3> QED BY <3>4
  <2> QED BY <1>1, <2>1, <2>3, <2>4
<1> QED BY <1>1, <1>3, <1>5, <1>6, <1>7 DEF S

\* From an entry until the next one collected its price prevails.
LEMMA EntryPrevails ==
    ASSUME IInv, NEW window \in Windows, NEW t \in Collected(window),
           NEW u \in t .. now, \A v \in Collected(window) : v <= u => v <= t
    PROVE  Prevailing(u) = entries[t]
<1> DEFINE D == {v \in DOMAIN published : v <= u}
<1>1. now \in Nat /\ DOMAIN published \subseteq 0 .. now /\ DOMAIN entries \subseteq 0 .. now
  BY TwapTypes
<1>2. t \in DOMAIN entries /\ \A v \in DOMAIN published : v >= t => v \in Collected(window)
  BY CollectedRecent
<1>3. t \in DOMAIN published /\ entries[t] = published[t] /\ t \in Int /\ u \in Int /\ t <= u
  BY <1>1, <1>2 DEF IInv, OldestDropped
<1>4. D \in SUBSET Int /\ t \in D
  BY <1>1, <1>3
<1>5. ASSUME NEW v \in D PROVE v <= t
  <2>1. v \in Int /\ v <= u /\ v \in DOMAIN published
    BY <1>1
  <2> HIDE DEF D
  <2> QED BY <1>2, <1>3, <2>1
<1>6. Max(D) = t
  <2> HIDE DEF D
  <2> QED BY <1>4, <1>5, MaxIs
<1> QED BY <1>3, <1>6 DEF Prevailing

\* An entry counts until the next one, or until now.
LEMMA DurationIs ==
    ASSUME NEW S \in SUBSET (0 .. now), now \in Nat, NEW t \in S
    PROVE  /\ Duration(S, t) \in 0 .. now
           /\ t + Duration(S, t) <= now
           /\ \A v \in S : v > t => v >= t + Duration(S, t)
           /\ \/ t + Duration(S, t) = now
              \/ t + Duration(S, t) \in S /\ Duration(S, t) > 0
<1> DEFINE later == {u \in S : u > t}
<1>1. t \in 0 .. now /\ later \in SUBSET (0 .. now) /\ later \in SUBSET Nat
  <2>1. \A u \in S : u \in 0 .. now /\ u \in Nat
    OBVIOUS
  <2> QED BY <2>1
<1>2. CASE later = {}
  <2>1. Duration(S, t) = now - t
    BY <1>2 DEF Duration
  <2> QED BY <1>1, <1>2, <2>1
<1>3. CASE later # {}
  <2>1. Duration(S, t) = Min(later) - t
    BY <1>3 DEF Duration
  <2>2. Min(later) \in later /\ \A v \in later : Min(later) <= v
    BY <1>1, <1>3, MinIsLeast, Zenon
  <2>3. Min(later) \in S /\ Min(later) > t /\ Min(later) \in 0 .. now
    BY <2>2
  <2>4. \A v \in S : v > t => v >= Min(later)
    BY <1>1, <2>2, <2>3
  <2> HIDE DEF later
  <2> DEFINE m == Min(later)
             d == Duration(S, t)
  <2>5. d = m - t /\ m \in 0 .. now /\ m > t /\ t \in 0 .. now
    BY <1>1, <2>1, <2>3
  <2> HIDE DEF m, d
  <2>6. d \in 0 .. now /\ t + d <= now /\ t + d = m /\ d > 0
    BY <2>5
  <2> QED BY <2>3, <2>4, <2>6 DEF m, d
<1> QED BY <1>2, <1>3

\* The times during which the entry of time t is the newest one collected.
Block(S, t) == t .. t + Duration(S, t) - 1

\* The entries' times split those from the oldest one until now.
LEMMA BlocksSplit ==
    ASSUME NEW S \in SUBSET (0 .. now), now \in Nat, S # {}
    PROVE  /\ \A t \in S : /\ IsFiniteSet(Block(S, t))
                           /\ Cardinality(Block(S, t)) = Duration(S, t)
                           /\ \A u \in Block(S, t) : /\ u \in t .. now - 1
                                                     /\ \A v \in S : v <= u => v <= t
           /\ \A s, t \in S : s # t => Block(S, s) \cap Block(S, t) = {}
           /\ Min(S) \in S /\ Min(S) \in 0 .. now /\ \A t \in S : Min(S) <= t
           /\ UNION {Block(S, t) : t \in S} = Min(S) .. now - 1
<1>0. \A t \in S : t \in 0 .. now /\ t \in Nat
  OBVIOUS
<1>1. Min(S) \in S /\ \A t \in S : Min(S) <= t
  <2>1. S \in SUBSET Nat
    BY <1>0
  <2> QED BY <2>1, MinIsLeast
<1>m. Min(S) \in Nat
  BY <1>0, <1>1
<1>2. ASSUME NEW t \in S
      PROVE  /\ IsFiniteSet(Block(S, t))
             /\ Cardinality(Block(S, t)) = Duration(S, t)
             /\ \A u \in Block(S, t) : /\ u \in t .. now - 1
                                       /\ \A v \in S : v <= u => v <= t
  <2> DEFINE d == Duration(S, t)
  <2>1. /\ d \in 0 .. now /\ t + d <= now
        /\ \A v \in S : v > t => v >= t + d
    BY DurationIs
  <2>2. t \in Int /\ d \in Nat /\ Block(S, t) = t .. t + d - 1
    BY <1>0, <2>1 DEF Block
  <2> HIDE DEF d
  <2>3. IsFiniteSet(t .. t + d - 1) /\ Cardinality(t .. t + d - 1) = d
    BY <2>2, IntervalLength
  <2>4. ASSUME NEW u \in t .. t + d - 1
        PROVE  u \in t .. now - 1 /\ \A v \in S : v <= u => v <= t
    BY <1>0, <2>1, <2>2
  <2> QED BY <2>2, <2>3, <2>4 DEF d
<1>3. ASSUME NEW s \in S, NEW t \in S, s < t PROVE Block(S, s) \cap Block(S, t) = {}
  <2> SUFFICES ASSUME NEW u \in Block(S, s), u \in Block(S, t) PROVE FALSE
    OBVIOUS
  <2>1. u \in t .. now - 1 /\ \A v \in S : v <= u => v <= s
    BY <1>2
  <2> QED BY <1>0, <1>3, <2>1
<1>4. \A s, t \in S : s # t => Block(S, s) \cap Block(S, t) = {}
  <2> SUFFICES ASSUME NEW s \in S, NEW t \in S, s # t
               PROVE  Block(S, s) \cap Block(S, t) = {}
    OBVIOUS
  <2>1. s < t \/ t < s
    BY <1>0
  <2>2. CASE s < t
    BY <1>3, <2>2
  <2>3. CASE t < s
    <3>1. Block(S, t) \cap Block(S, s) = {}
      BY <1>3, <2>3
    <3> QED BY <3>1
  <2> QED BY <2>1, <2>2, <2>3
<1>5. ASSUME NEW u \in Min(S) .. now - 1 PROVE \E t \in S : u \in Block(S, t)
  <2> DEFINE E == {v \in S : v <= u}
  <2>0. u \in Int /\ Min(S) <= u /\ u <= now - 1
    BY <1>m
  <2>1. E \in SUBSET (0 .. now) /\ Min(S) \in E
    BY <1>0, <1>1, <2>0
  <2>2. Max(E) \in E /\ \A v \in E : v <= Max(E)
    BY <2>1, LatestTime
  <2>3. PICK t \in S : t <= u /\ \A v \in S : v <= u => v <= t
    BY <2>2
  <2> DEFINE d == Duration(S, t)
  <2>4. d \in 0 .. now /\ (t + d = now \/ (t + d \in S /\ d > 0))
    BY DurationIs
  <2>5. Block(S, t) = t .. t + d - 1
    BY DEF Block
  <2> HIDE DEF d
  <2>6. u \in Int /\ t \in Nat /\ Min(S) \in Nat
    BY <1>0, <1>m, <2>0
  <2>7. u < t + d
    <3>1. CASE t + d = now
      BY <2>0, <3>1
    <3>2. CASE t + d \in S /\ d > 0
      BY <2>3, <2>4, <2>6, <3>2
    <3> QED BY <2>4, <3>1, <3>2
  <2> QED BY <2>3, <2>4, <2>5, <2>6, <2>7
<1>6. ASSUME NEW t \in S, NEW u \in Block(S, t) PROVE u \in Min(S) .. now - 1
  <2>1. u \in t .. now - 1
    BY <1>2
  <2>2. t \in Nat /\ Min(S) <= t
    BY <1>0, <1>1
  <2> QED BY <1>m, <2>1, <2>2
<1>7. UNION {Block(S, t) : t \in S} = Min(S) .. now - 1
  BY <1>5, <1>6
<1> QED BY <1>0, <1>1, <1>2, <1>4, <1>7

\* The prices collected, each weighed by its duration.
Sum(S) == Weight([t \in S |-> entries[t] * Duration(S, t)], S)

\* The duration of all entries is the time since the oldest one, and their
\* weighted prices sum to the prices that prevailed since.
LEMMA TwapSums ==
    ASSUME IInv, NEW window \in Windows, NEW S, S = Collected(window), S # {}
    PROVE  /\ IsFiniteSet(S) /\ Min(S) \in S /\ Min(S) \in 0 .. now /\ S \subseteq 0 .. now
           /\ \A t \in S : /\ entries[t] \in Nat
                           /\ Duration(S, t) \in 0 .. MaxUnits
                           /\ entries[t] * Duration(S, t) \in 0 .. MaxUnits
           /\ Total(S) = now - Min(S)
           /\ Sum(S) \in Nat
           /\ Sum(S) = Weight([u \in Min(S) .. now - 1 |-> Prevailing(u)],
                              Min(S) .. now - 1)
<1> DEFINE B == [t \in S |-> Block(S, t)]
           d == [t \in S |-> Duration(S, t)]
           w == [t \in S |-> entries[t] * Duration(S, t)]
           from == Min(S)
           one == [u \in from .. now - 1 |-> 1]
           prev == [u \in from .. now - 1 |-> Prevailing(u)]
<1>1. /\ now \in Nat /\ now <= MaxTime /\ MaxTime \in Nat \ {0}
      /\ MaxTime <= MaxUnits /\ MaxUnits \in Nat
  BY TwapTypes, TwapAssumption, MaxUnitsAssumption
<1>2. S \subseteq DOMAIN entries /\ S \in SUBSET (0 .. now)
  BY CollectedRecent
<1>3. IsFiniteSet(S)
  <2>1. IsFiniteSet(0 .. now)
    BY <1>1, FS_Interval
  <2> QED BY <1>2, <2>1, FS_Subset
<1>4. /\ \A t \in S : /\ IsFiniteSet(Block(S, t))
                      /\ Cardinality(Block(S, t)) = Duration(S, t)
                      /\ \A u \in Block(S, t) : /\ u \in t .. now - 1
                                                /\ \A v \in S : v <= u => v <= t
      /\ \A s, t \in S : s # t => Block(S, s) \cap Block(S, t) = {}
      /\ from \in S /\ from \in 0 .. now /\ \A t \in S : from <= t
      /\ UNION {Block(S, t) : t \in S} = from .. now - 1
  BY <1>1, <1>2, BlocksSplit
<1> HIDE DEF from
<1>5. \A t \in S : B[t] = Block(S, t) /\ d[t] = Duration(S, t)
                   /\ w[t] = entries[t] * Duration(S, t)
  OBVIOUS
<1>6. UNION {B[t] : t \in S} = from .. now - 1
  BY <1>4, <1>5
<1>7. ASSUME NEW t \in S
      PROVE  /\ entries[t] \in 0 .. MaxUnits /\ entries[t] \in Nat
             /\ d[t] \in 0 .. MaxUnits /\ d[t] \in Nat
             /\ w[t] \in 0 .. MaxUnits
  <2>1. entries[t] \in Prices
    BY <1>2, TwapTypes
  <2>2. entries[t] \in Nat \ {0} /\ entries[t] * MaxTime <= MaxUnits
    BY <2>1, TwapAssumption
  <2>3. Duration(S, t) \in 0 .. now
    BY <1>1, <1>2, DurationIs
  <2> DEFINE p == entries[t]
             k == Duration(S, t)
  <2> HIDE DEF p, k
  <2>4. p \in Nat /\ k \in Nat /\ k <= MaxTime /\ p * MaxTime <= MaxUnits
    BY <1>1, <2>2, <2>3 DEF p, k
  <2>5. k * p <= MaxTime * p /\ k * p \in Nat /\ 1 * p <= MaxTime * p
    BY <1>1, <2>4, TimesMonotone
  <2>6. p * k = k * p /\ MaxTime * p = p * MaxTime /\ 1 * p = p
    BY <1>1, <2>4
  <2>7. p \in 0 .. MaxUnits /\ k \in 0 .. MaxUnits /\ p * k \in 0 .. MaxUnits
    BY <1>1, <2>4, <2>5, <2>6
  <2> QED BY <1>5, <2>4, <2>7 DEF p, k
<1> HIDE DEF B, d, w, one, prev
<1>8. ASSUME NEW t \in S
      PROVE  /\ IsFiniteSet(B[t]) /\ Cardinality(B[t]) = d[t]
             /\ \A u \in B[t] : u \in from .. now - 1 /\ one[u] = 1 /\ prev[u] = entries[t]
  <2>1. IsFiniteSet(B[t]) /\ Cardinality(B[t]) = d[t]
    BY <1>4, <1>5
  <2>2. ASSUME NEW u \in B[t]
        PROVE  u \in from .. now - 1 /\ one[u] = 1 /\ prev[u] = entries[t]
    <3>1. u \in from .. now - 1
      BY <1>6
    <3>2. u \in t .. now - 1 /\ \A v \in S : v <= u => v <= t
      <4>1. u \in Block(S, t)
        BY <1>5
      <4> QED BY <1>4, <4>1
    <3>3. u \in t .. now
      BY <1>1, <1>2, <3>2
    <3>4. Prevailing(u) = entries[t]
      BY <3>2, <3>3, EntryPrevails
    <3> QED BY <3>1, <3>4 DEF one, prev
  <2> QED BY <2>1, <2>2
<1>9. \A s, t \in S : s # t => B[s] \cap B[t] = {}
  BY <1>4, <1>5
<1>10. Weight(one, from .. now - 1) = Weight(d, S)
  <2>1. ASSUME NEW t \in S PROVE Weight(one, B[t]) = d[t]
    <3>1. 1 \in 0 .. MaxUnits
      BY <1>1
    <3>2. Weight(one, B[t]) = Cardinality(B[t]) * 1
      BY <1>8, <3>1, WeightConstant
    <3> QED BY <1>7, <1>8, <3>2
  <2>2. Weight(one, UNION {B[t] : t \in S}) = Weight(d, S)
    BY <1>3, <1>7, <1>8, <1>9, <2>1, WeightBlocks
  <2> QED BY <1>6, <2>2
<1>11. Weight(prev, from .. now - 1) = Weight(w, S)
  <2>1. ASSUME NEW t \in S PROVE Weight(prev, B[t]) = w[t]
    <3>1. entries[t] \in 0 .. MaxUnits /\ \A u \in B[t] : prev[u] = entries[t]
      BY <1>7, <1>8
    <3>2. Weight(prev, B[t]) = Cardinality(B[t]) * entries[t]
      BY <1>8, <3>1, WeightConstant
    <3>3. d[t] * entries[t] = entries[t] * d[t]
      BY <1>7
    <3> QED BY <1>5, <1>8, <3>2, <3>3
  <2>2. Weight(prev, UNION {B[t] : t \in S}) = Weight(w, S)
    BY <1>3, <1>7, <1>8, <1>9, <2>1, WeightBlocks
  <2> QED BY <1>6, <2>2
<1>12. Weight(one, from .. now - 1) = now - from
  <2> DEFINE n == now - from
  <2>1. n \in Nat /\ from \in Int /\ from + n - 1 = now - 1
    BY <1>1, <1>4
  <2> HIDE DEF n
  <2>2. IsFiniteSet(from .. now - 1) /\ Cardinality(from .. now - 1) = n
    BY <2>1, IntervalLength
  <2>3. 1 \in 0 .. MaxUnits /\ \A u \in from .. now - 1 : one[u] = 1
    BY <1>1 DEF one
  <2>4. Weight(one, from .. now - 1) = Cardinality(from .. now - 1) * 1
    BY <2>2, <2>3, WeightConstant
  <2> QED BY <2>1, <2>2, <2>4 DEF n
<1>13. Weight(w, S) \in Nat
  BY <1>3, WeightType
<1>14. \A t \in S : /\ entries[t] \in Nat
                    /\ Duration(S, t) \in 0 .. MaxUnits
                    /\ entries[t] * Duration(S, t) \in 0 .. MaxUnits
  BY <1>5, <1>7
<1>15. Total(S) = now - from /\ Sum(S) \in Nat /\ Sum(S) = Weight(prev, from .. now - 1)
  BY <1>10, <1>11, <1>12, <1>13 DEF Total, Sum, d, w
<1> QED BY <1>2, <1>3, <1>4, <1>14, <1>15 DEF from, prev

\* GetTWAP returns the only entry collected or the weighted mean of several.
LEMMA TwapPrice ==
    ASSUME NEW window
    PROVE  GetTWAP(window).err = "" =>
             GetTWAP(window).price =
               IF Cardinality(Collected(window)) = 1 THEN entries[Max(Collected(window))]
               ELSE Quo(Sum(Collected(window)), Total(Collected(window)) * Prec)
  BY DEF GetTWAP, Total, Sum, Ok, Err

\* What GetTWAP answers with.
LEMMA TwapValue ==
    ASSUME IInv, NEW window \in Windows, NEW S, S = Collected(window)
    PROVE  GetTWAP(window).err = "" =>
             /\ S # {}
             /\ \/ \E a : S = {a} /\ GetTWAP(window).price = entries[a]
                \/ Total(S) # 0 /\ GetTWAP(window).price = Quo(Sum(S), Total(S) * Prec)
<1>0. SUFFICES ASSUME GetTWAP(window).err = ""
               PROVE  /\ S # {}
                      /\ \/ \E a : S = {a} /\ GetTWAP(window).price = entries[a]
                         \/ /\ Total(S) # 0
                            /\ GetTWAP(window).price = Quo(Sum(S), Total(S) * Prec)
  OBVIOUS
<1>1. S # {} /\ (Cardinality(S) = 1 \/ Total(S) # 0)
  BY <1>0, TwapAnswers
<1>2. GetTWAP(window).price = IF Cardinality(S) = 1 THEN entries[Max(S)]
                              ELSE Quo(Sum(S), Total(S) * Prec)
  BY <1>0, TwapPrice
<1>3. IsFiniteSet(S) /\ S \subseteq 0 .. now
  BY <1>1, TwapSums
<1>4. CASE Cardinality(S) = 1
  <2>1. PICK a : S = {a}
    BY <1>3, <1>4, FS_Singleton, Zenon
  <2>2. a \in Int
    <3>1. now \in Nat
      BY TwapTypes
    <3> QED BY <1>3, <2>1, <3>1
  <2>3. Max(S) = a
    <3>1. S \in SUBSET Int /\ a \in S /\ \A t \in S : t <= a
      BY <2>1, <2>2
    <3> QED BY <3>1, MaxIs
  <2>4. GetTWAP(window).price = entries[a]
    BY <1>2, <1>4, <2>3
  <2> QED BY <1>1, <2>1, <2>4
<1>5. CASE Cardinality(S) # 1
  BY <1>1, <1>2, <1>5
<1> QED BY <1>4, <1>5

\* The quotient of a sum by a time is off the mean by less than one unit.
LEMMA QuoByTime ==
    ASSUME NEW sum \in Nat, NEW d \in Nat \ {0}
    PROVE  /\ Quo(sum, d * Prec) \in Nat
           /\ Abs(Quo(sum, d * Prec) * d - sum) < d
           /\ \A q \in Nat : /\ q * d <= sum => q <= Quo(sum, d * Prec)
                             /\ sum <= q * d => Quo(sum, d * Prec) <= q
<1>1. Prec \in Nat \ {0}
  BY PrecAssumption
<1> DEFINE y == d * Prec
           q0 == Quo(sum, y)
<1>2. y \in Nat \ {0}
  <2>1. y \in Nat
    BY <1>1
  <2>2. 1 * Prec <= d * Prec
    BY <1>1, TimesMonotone
  <2> QED BY <1>1, <2>1, <2>2
<1>3. q0 \in Nat
  <2>1. 0 \in Nat
    OBVIOUS
  <2> HIDE DEF y
  <2> QED BY <1>2, <2>1, QuoBetween
<1>4. 2 * (q0 * y) <= 2 * (sum * Prec) + y /\ sum * Prec < q0 * y + y
  <2> HIDE DEF y
  <2> QED BY <1>2, QuoError
<1> HIDE DEF q0
<1> DEFINE r == q0 * d
<1>5. r \in Nat
  BY <1>3
<1>6. /\ q0 * y = r * Prec
      /\ (2 * r) * Prec = 2 * (r * Prec)
      /\ (2 * sum + d) * Prec = 2 * (sum * Prec) + d * Prec
      /\ (r + d) * Prec = r * Prec + d * Prec
  BY <1>1, <1>3
<1> HIDE DEF r
<1>7. 2 * r <= 2 * sum + d /\ sum < r + d
  <2>1. (2 * r) * Prec <= (2 * sum + d) * Prec /\ sum * Prec < (r + d) * Prec
    BY <1>4, <1>6
  <2>2. 2 * r \in Int /\ 2 * sum + d \in Int /\ r + d \in Int /\ sum \in Int
    BY <1>5
  <2>3. 2 * r <= 2 * sum + d
    BY <1>1, <2>1, <2>2, TimesCancel
  <2>4. sum < r + d
    BY <1>1, <2>1, <2>2, TimesCancel
  <2> QED BY <2>3, <2>4
<1>8. Abs(r - sum) < d
  BY <1>5, <1>7 DEF Abs
<1>9. ASSUME NEW q \in Nat
      PROVE  (q * d <= sum => q <= q0) /\ (sum <= q * d => q0 <= q)
  <2>1. q * y = (q * d) * Prec /\ q * d \in Nat
    BY <1>1
  <2>2. q * d <= sum => q * y <= sum * Prec
    BY <1>1, <2>1, TimesMonotone
  <2>3. sum <= q * d => sum * Prec <= q * y
    BY <1>1, <2>1, TimesMonotone
  <2> HIDE DEF y
  <2>4. (q * y <= sum * Prec => q <= Quo(sum, y)) /\ (sum * Prec <= q * y => Quo(sum, y) <= q)
    BY <1>2, QuoBetween
  <2> QED BY <2>2, <2>3, <2>4 DEF q0
<1> QED BY <1>3, <1>8, <1>9 DEF q0, r

\* The weighted sum of the entries is the sum of what prevailed, and the division
\* loses less than one unit.
LEMMA MeanHolds == ASSUME IInv PROVE TwapIsMean
<1>0. SUFFICES ASSUME NEW window \in Windows, GetTWAP(window).err = "",
                    NEW S, S = Collected(window), NEW from, from = Min(S),
                    NEW sum, sum = Weight([t \in from .. now - 1 |-> Prevailing(t)],
                                          from .. now - 1)
             PROVE  IF from = now THEN GetTWAP(window).price = Prevailing(now)
                    ELSE Abs(GetTWAP(window).price * (now - from) - sum) < now - from
  BY DEF TwapIsMean
<1>1. /\ S # {}
      /\ \/ \E a : S = {a} /\ GetTWAP(window).price = entries[a]
         \/ Total(S) # 0 /\ GetTWAP(window).price = Quo(Sum(S), Total(S) * Prec)
  BY <1>0, TwapValue
<1>2. /\ IsFiniteSet(S) /\ from \in S /\ from \in 0 .. now /\ S \subseteq 0 .. now
      /\ \A t \in S : /\ entries[t] \in Nat
                      /\ Duration(S, t) \in 0 .. MaxUnits
                      /\ entries[t] * Duration(S, t) \in 0 .. MaxUnits
      /\ Total(S) = now - from
      /\ Sum(S) \in Nat
      /\ Sum(S) = sum
  BY <1>0, <1>1, TwapSums
<1>3. now \in Nat
  BY TwapTypes
<1>4. CASE from = now
  <2>1. ~ (Total(S) # 0)
    BY <1>2, <1>3, <1>4
  <2>2. PICK a : S = {a} /\ GetTWAP(window).price = entries[a]
    BY <1>1, <2>1
  <2>3. a = now
    BY <1>2, <1>4, <2>2
  <2>4. now \in Collected(window) /\ now \in now .. now
        /\ \A v \in Collected(window) : v <= now => v <= now
    <3>1. now \in S /\ now \in now .. now /\ \A v \in S : v <= now => v <= now
      BY <1>3, <2>2, <2>3
    <3> QED BY <1>0, <3>1, Zenon
  <2>5. Prevailing(now) = entries[now]
    BY <2>4, EntryPrevails
  <2> QED BY <1>4, <2>2, <2>3, <2>5
<1>5. CASE from # now
  <2> DEFINE d == now - from
  <2>1. d \in Nat \ {0}
    BY <1>2, <1>3, <1>5
  <2>2. ASSUME NEW a, S = {a}, GetTWAP(window).price = entries[a]
        PROVE  Abs(entries[a] * d - sum) < d
    <3>1. a \in S /\ entries[a] \in Nat /\ Duration(S, a) \in 0 .. MaxUnits
          /\ entries[a] * Duration(S, a) \in 0 .. MaxUnits
      BY <1>2, <2>2
    <3> DEFINE f == [t \in S |-> Duration(S, t)]
               g == [t \in S |-> entries[t] * Duration(S, t)]
    <3>2. f[a] = Duration(S, a) /\ g[a] = entries[a] * Duration(S, a)
      BY <3>1
    <3>3. Total(S) = Weight(f, {a}) /\ Sum(S) = Weight(g, {a})
      BY <2>2 DEF Total, Sum
    <3> HIDE DEF f, g
    <3>4. Weight(f, {a}) = f[a] /\ Weight(g, {a}) = g[a]
      BY <3>1, <3>2, WeightSingle
    <3>5. Duration(S, a) = d /\ entries[a] * d = sum
      BY <1>2, <3>2, <3>3, <3>4
    <3>6. sum \in Nat
      BY <1>2
    <3> QED BY <2>1, <3>5, <3>6 DEF Abs
  <2>3. ASSUME Total(S) # 0, GetTWAP(window).price = Quo(Sum(S), Total(S) * Prec)
        PROVE  Abs(GetTWAP(window).price * d - sum) < d
    <3>1. GetTWAP(window).price = Quo(sum, d * Prec) /\ sum \in Nat
      BY <1>2, <2>3
    <3>2. Abs(Quo(sum, d * Prec) * d - sum) < d
      <4> HIDE DEF d
      <4> QED BY <2>1, <3>1, QuoByTime
    <3> QED BY <3>1, <3>2
  <2> QED BY <1>1, <1>5, <2>2, <2>3
<1> QED BY <1>4, <1>5

\* A TWAP is the mean over time of the price that prevailed since the oldest
\* entry collected, up to one unit of the last decimal.
THEOREM TwapMean == Spec => []TwapIsMean
<1>1. IInv => TwapIsMean
  BY MeanHolds
<1> QED BY <1>1, InvInit, InvStep, PTL DEF Spec

\* Every price that GetTWAP averages prevailed at some time of the window: the
\* entry from before the window did at its start.
LEMMA CollectedSeen ==
    ASSUME IInv, NEW window \in Windows, NEW start, start = Min({now, WindowStart(window)}),
           NEW t \in Collected(window)
    PROVE  /\ start \in Int /\ start <= now
           /\ \E u \in start .. now : /\ \E v \in DOMAIN published : v <= u
                                      /\ entries[t] = Prevailing(u)
<1> DEFINE W == WindowStart(window)
           S == Collected(window)
<1>1. now \in Nat /\ W \in Int /\ DOMAIN entries \subseteq 0 .. now
  BY TwapTypes
<1>2. /\ S \subseteq DOMAIN entries /\ S \subseteq 0 .. now
      /\ \A a, v \in S : v <= W => v <= a
  BY CollectedRecent
<1>3. t \in DOMAIN published /\ t \in 0 .. now /\ t \in Nat
  BY <1>1, <1>2 DEF IInv, OldestDropped
<1> HIDE DEF W
<1>4. start \in {now, W} /\ start <= now /\ start <= W
  <2>1. \E x \in {now, W} : \A y \in {now, W} : x <= y
    BY <1>1
  <2> QED BY <2>1 DEF Min, W
<1>5. start \in Int /\ \A v \in S : v \in Nat
  BY <1>1, <1>2, <1>4
<1>6. CASE t >= start
  <2>1. Prevailing(t) = entries[t]
    <3>1. t \in t .. now /\ \A v \in Collected(window) : v <= t => v <= t
      BY <1>1, <1>3
    <3> QED BY <3>1, EntryPrevails
  <2>2. t \in start .. now /\ t <= t
    BY <1>1, <1>3, <1>5, <1>6
  <2> QED BY <1>3, <1>4, <1>5, <2>1, <2>2
<1>7. CASE t < start
  <2>1. start \in t .. now
    BY <1>1, <1>3, <1>4, <1>5, <1>7
  <2>2. \A v \in Collected(window) : v <= start => v <= t
    BY <1>1, <1>2, <1>4, <1>5
  <2>3. Prevailing(start) = entries[t]
    BY <2>1, <2>2, EntryPrevails
  <2>4. start \in start .. now /\ t <= start
    BY <1>1, <1>3, <1>4, <1>5, <1>7
  <2> QED BY <1>3, <1>4, <1>5, <2>3, <2>4
<1> QED BY <1>3, <1>5, <1>6, <1>7

\* Every entry averaged is between the extremes of the window, so the mean is.
LEMMA WithinHolds == ASSUME IInv PROVE TwapWithinWindow
<1>0. SUFFICES ASSUME NEW window \in Windows, GetTWAP(window).err = "",
                    NEW S, S = Collected(window),
                    NEW start, start = Min({now, WindowStart(window)}),
                    NEW times, times = {u \in start .. now :
                                           \E v \in DOMAIN published : v <= u},
                    NEW seen, seen = {Prevailing(t) : t \in times}
             PROVE  GetTWAP(window).price \in Min(seen) .. Max(seen)
  BY DEF TwapWithinWindow
<1>1. /\ S # {}
      /\ \/ \E a : S = {a} /\ GetTWAP(window).price = entries[a]
         \/ Total(S) # 0 /\ GetTWAP(window).price = Quo(Sum(S), Total(S) * Prec)
  BY <1>0, TwapValue
<1>2. /\ IsFiniteSet(S) /\ Min(S) \in 0 .. now
      /\ \A t \in S : /\ entries[t] \in Nat
                      /\ Duration(S, t) \in 0 .. MaxUnits
                      /\ entries[t] * Duration(S, t) \in 0 .. MaxUnits
      /\ Total(S) = now - Min(S)
      /\ Sum(S) \in Nat
  BY <1>0, <1>1, TwapSums
<1>3. /\ now \in Nat /\ DOMAIN published \subseteq 0 .. now
      /\ \A t \in DOMAIN published : published[t] \in Prices
  BY TwapTypes
<1>4. start \in Int /\ start <= now
  <2>1. PICK t : t \in Collected(window)
    BY <1>0, <1>1
  <2> QED BY <1>0, <2>1, CollectedSeen
<1>5. \A t \in S : entries[t] \in seen
  <2> SUFFICES ASSUME NEW t \in S PROVE entries[t] \in seen
    OBVIOUS
  <2>1. PICK u \in start .. now : /\ \E v \in DOMAIN published : v <= u
                                  /\ entries[t] = Prevailing(u)
    BY <1>0, CollectedSeen
  <2>2. u \in times
    BY <1>0, <2>1
  <2> QED BY <1>0, <2>1, <2>2
<1>6. \A u \in times : Prevailing(u) \in Nat
  <2> SUFFICES ASSUME NEW u \in times PROVE Prevailing(u) \in Nat
    OBVIOUS
  <2> DEFINE D == {v \in DOMAIN published : v <= u}
  <2>0. \E v \in DOMAIN published : v <= u
    BY <1>0
  <2>1. D \in SUBSET (0 .. now) /\ D # {}
    BY <1>3, <2>0
  <2>2. Max(D) \in D
    BY <1>3, <2>1, LatestTime
  <2>3. Prevailing(u) = published[Max(D)] /\ Max(D) \in DOMAIN published
    BY <2>2 DEF Prevailing
  <2> QED BY <1>3, <2>3, TwapAssumption
<1>7. seen \in SUBSET Nat /\ seen # {}
  <2>1. seen \in SUBSET Nat
    BY <1>0, <1>6
  <2> QED BY <1>1, <1>5, <2>1
<1>8. Min(seen) \in Nat /\ \A p \in seen : Min(seen) <= p
  BY <1>7, MinIsLeast
<1>9. Max(seen) \in Nat /\ \A p \in seen : p <= Max(seen)
  <2> DEFINE f == [u \in times |-> Prevailing(u)]
  <2>1. IsFiniteSet(times)
    <3>1. IsFiniteSet(start .. now)
      BY <1>3, <1>4, FS_Interval
    <3>2. times \in SUBSET (start .. now)
      BY <1>0
    <3> QED BY <3>1, <3>2, FS_Subset
  <2>2. times # {} /\ f \in [times -> Nat]
    <3>1. times # {}
      BY <1>0, <1>7
    <3> QED BY <1>6, <3>1
  <2>3. PICK v \in times : \A u \in times : f[u] <= f[v]
    BY <2>1, <2>2, HighestEntry
  <2>4. Prevailing(v) \in seen /\ \A p \in seen : p <= Prevailing(v)
    <3>1. \A u \in times : Prevailing(u) <= Prevailing(v)
      BY <2>3
    <3> QED BY <1>0, <3>1
  <2>5. seen \in SUBSET Int
    BY <1>7
  <2>6. Max(seen) = Prevailing(v)
    BY <2>4, <2>5, MaxIs
  <2> QED BY <1>6, <2>4, <2>6
<1> DEFINE lo == Min(seen)
           hi == Max(seen)
<1> HIDE DEF lo, hi
<1>10. /\ lo \in Nat /\ hi \in Nat
       /\ \A t \in S : lo <= entries[t] /\ entries[t] <= hi
  BY <1>5, <1>8, <1>9 DEF lo, hi
<1>11. ASSUME NEW a, S = {a}, GetTWAP(window).price = entries[a]
       PROVE  GetTWAP(window).price \in lo .. hi
  <2>1. a \in S /\ entries[a] \in Nat
    BY <1>2, <1>11
  <2> QED BY <1>10, <1>11, <2>1
<1>12. ASSUME Total(S) # 0, GetTWAP(window).price = Quo(Sum(S), Total(S) * Prec)
       PROVE  GetTWAP(window).price \in lo .. hi
  <2> DEFINE d == [t \in S |-> Duration(S, t)]
             w == [t \in S |-> entries[t] * Duration(S, t)]
             T == Total(S)
  <2>1. T \in Nat \ {0}
    BY <1>2, <1>3, <1>12
  <2>2. ASSUME NEW t \in S
        PROVE  /\ w[t] \in 0 .. MaxUnits /\ d[t] \in 0 .. MaxUnits
               /\ lo * d[t] <= w[t] /\ w[t] <= hi * d[t]
    <3>1. entries[t] \in Nat /\ d[t] \in Nat /\ lo <= entries[t] /\ entries[t] <= hi
      BY <1>2, <1>10, MaxUnitsAssumption
    <3>2. lo * d[t] <= entries[t] * d[t]
      BY <1>10, <3>1, TimesMonotone
    <3>3. entries[t] * d[t] <= hi * d[t]
      BY <1>10, <3>1, TimesMonotone
    <3> QED BY <1>2, <3>2, <3>3
  <2>3. Weight(d, S) = T /\ Weight(w, S) = Sum(S)
    BY DEF Total, Sum
  <2> HIDE DEF d, w, T
  <2>4. lo * T <= Sum(S) /\ Sum(S) <= hi * T
    <3>1. lo * Weight(d, S) <= Weight(w, S) /\ Weight(w, S) <= hi * Weight(d, S)
      BY <1>2, <1>10, <2>2, WeightScaled
    <3> QED BY <2>3, <3>1
  <2>5. /\ Quo(Sum(S), T * Prec) \in Nat
        /\ lo * T <= Sum(S) => lo <= Quo(Sum(S), T * Prec)
        /\ Sum(S) <= hi * T => Quo(Sum(S), T * Prec) <= hi
    BY <1>2, <1>10, <2>1, QuoByTime
  <2>6. Quo(Sum(S), T * Prec) \in lo .. hi
    BY <1>10, <2>4, <2>5
  <2> QED BY <1>12, <2>6 DEF T
<1> QED BY <1>1, <1>11, <1>12 DEF lo, hi

\* No price from before the window moves a TWAP out of the range of the prices
\* that prevailed during the window.
THEOREM TwapWithin == Spec => []TwapWithinWindow
<1>1. IInv => TwapWithinWindow
  BY WithinHolds
<1> QED BY <1>1, InvInit, InvStep, PTL DEF Spec
=============================================================================
