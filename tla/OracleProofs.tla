---------------------------- MODULE OracleProofs ----------------------------
(***************************************************************************)
(* Proofs of the safety properties of Oracle, for every value of its       *)
(* constants.                                                              *)
(***************************************************************************)
EXTENDS OracleHistory, AggregationProofs

\* Only listed pairs of the pair set are ever accepted.
LEMMA AcceptSetType ==
  ASSUME NEW p \in ParamChoices
  PROVE  AcceptSet(p) \subseteq Pairs
BY ParamChoicesAssumption DEF AcceptSet

----------------------------------------------------------------------------
\* The inputs of aggregation: finitely many validators with reported prices.
LEMMA FeedPriceType ==
  ASSUME TypeOK, NEW pair
  PROVE  /\ IsFiniteSet(ValidFeeds(pair))
         /\ ValidFeeds(pair) \subseteq Validators
         /\ FeedPrice(pair) \in [ValidFeeds(pair) -> Prices]
         /\ FeedPrice(pair) \in [ValidFeeds(pair) -> Nat]
<1>1. ValidFeeds(pair) \in SUBSET Validators
  BY DEF ValidFeeds, BondedVals
<1>2. IsFiniteSet(ValidFeeds(pair))
  BY <1>1, FS_Subset, OracleAssumption
<1>3. \A v \in ValidFeeds(pair) : feeds[<<v, pair>>].price \in Prices
  BY DEF ValidFeeds, TypeOK, IsStore
<1> QED BY <1>1, <1>2, <1>3, OracleAssumption DEF FeedPrice

\* The price of a pair that reached quorum is one of the reported prices.
LEMMA PublishedReported ==
  ASSUME TypeOK, NEW pair \in QuorumLive
  PROVE  Published(pair) \in Prices
<1>1. ValidFeeds(pair) # {}
  BY DEF QuorumLive
<1>2. PICK v \in ValidFeeds(pair) : Published(pair) = FeedPrice(pair)[v]
  BY <1>1, FeedPriceType, WeightedMedianReported DEF Published
<1> QED BY <1>2, FeedPriceType

\* Only pairs of the pair set are published.
LEMMA QuorumLiveType ==
  ASSUME TypeOK
  PROVE  QuorumLive \subseteq Pairs
BY AcceptSetType DEF QuorumLive, TypeOK

----------------------------------------------------------------------------
\* Genesis satisfies the type invariant.
LEMMA InitType == Init => TypeOK
<1> SUFFICES ASSUME Init PROVE TypeOK
  OBVIOUS
<1>1. params \in ParamChoices /\ Validate(params)
  BY DEF Init
<1>2. /\ IsStore(feeds, Validators \X Pairs, [price : Prices, height : Nat])
      /\ IsStore(prices, Pairs, [price : Nat, height : Nat])
      /\ IsStore(feederToVal, Accounts, Validators)
      /\ IsStore(valToFeeder, Validators, Accounts)
  BY EmptyStoreType DEF Init
<1>3. /\ miss \in [Validators -> Nat] /\ total \in [Validators -> Nat]
      /\ lastPower \in [Validators -> 0 .. MaxUnits]
      /\ status \in [Validators -> {"Bonded", "Unbonded", "None"}]
  BY OracleAssumption DEF Init
<1>4. slashed \in [outlier : SUBSET (Validators \X Pairs), miss : SUBSET Validators]
  BY DEF Init, NoSlash
<1> QED BY <1>1, <1>2, <1>3, <1>4 DEF Init, TypeOK

\* Closing a window keeps the types.
LEMMA CloseWindowType ==
  ASSUME TypeOK, CloseWindow
  PROVE  /\ IsStore(prices', Pairs, [price : Nat, height : Nat])
         /\ miss' \in [Validators -> Nat]
         /\ total' \in [Validators -> Nat]
         /\ slashed' \in [outlier : SUBSET (Validators \X Pairs), miss : SUBSET Validators]
         /\ IsStore(feeds', Validators \X Pairs, [price : Prices, height : Nat])
         /\ lastBoundary' \in Nat
<1>1. IsStore(prices', Pairs, [price : Nat, height : Nat])
  <2>1. \A pair \in QuorumLive : Published(pair) \in Nat
    BY PublishedReported, OracleAssumption
  <2>2. QuorumLive \subseteq Pairs
    BY QuorumLiveType
  <2> HIDE DEF QuorumLive, Published
  <2> QED BY <2>1, <2>2 DEF CloseWindow, TypeOK, IsStore
<1>2. \A v \in Validators : NewTotal(v) \in Nat /\ NewMiss(v) \in Nat
  BY DEF NewTotal, NewMiss, TypeOK
<1>3. miss' \in [Validators -> Nat] /\ total' \in [Validators -> Nat]
  BY <1>2 DEF CloseWindow, TypeOK
<1>4. slashed' \in [outlier : SUBSET (Validators \X Pairs), miss : SUBSET Validators]
  BY QuorumLiveType DEF CloseWindow, BondedVals
<1>5. IsStore(feeds', Validators \X Pairs, [price : Prices, height : Nat])
  BY EmptyStoreType DEF CloseWindow, DeleteAllFeeds
<1> QED BY <1>1, <1>3, <1>4, <1>5 DEF CloseWindow, TypeOK

\* Every message, EndBlocker and restart preserves it.
LEMMA NextType == TypeOK /\ [Next]_vars => TypeOK'
<1> SUFFICES ASSUME TypeOK, [Next]_vars PROVE TypeOK'
  OBVIOUS
<1>1. ASSUME NEW val \in Validators, NEW feeder \in Delegates, SetFeeder(val, feeder)
      PROVE  TypeOK'
  <2>1. feeder \in Accounts
    BY OracleAssumption
  <2>2. /\ IsStore(feederToVal', Accounts, Validators)
        /\ IsStore(valToFeeder', Validators, Accounts)
    BY <1>1, <2>1, PutType DEF SetFeeder, SetFeederDelegation, TypeOK
  <2> QED BY <1>1, <2>2 DEF SetFeeder, TypeOK, stakingVars
<1>2. ASSUME NEW feeder \in Accounts, NEW val \in Validators, NEW pair \in Pairs,
             NEW price \in Prices, SubmitFeed(feeder, val, pair, price)
      PROVE  TypeOK'
  <2>1. [price |-> price, height |-> height] \in [price : Prices, height : Nat]
    BY DEF TypeOK
  <2>2. IsStore(feeds', Validators \X Pairs, [price : Prices, height : Nat])
    BY <1>2, <2>1, PutType DEF SubmitFeed, TypeOK
  <2> QED BY <1>2, <2>2 DEF SubmitFeed, TypeOK, stakingVars
<1>3. ASSUME NEW p \in ParamChoices, UpdateParams(p)
      PROVE  TypeOK'
  BY <1>3 DEF UpdateParams, SetParams, TypeOK, stakingVars
<1>4. CASE StakingEndBlock
  BY <1>4, OracleAssumption DEF StakingEndBlock, TypeOK, oracleVars
<1>5. CASE EndBlocker
  <2>1. CASE height % params.voteWindow # 0
    BY <1>5, <2>1 DEF EndBlocker, TypeOK, stakingVars, NoSlash
  <2>2. CASE CloseWindow
    BY <1>5, <2>2, CloseWindowType DEF EndBlocker, TypeOK, stakingVars
  <2> QED BY <1>5, <2>1, <2>2 DEF EndBlocker
<1>6. CASE BeginBlock
  BY <1>6 DEF BeginBlock, TypeOK, stakingVars, oracleVars, NoSlash
<1>7. CASE ExportAndRestart
  <2>1. IsStore(feeds', Validators \X Pairs, [price : Prices, height : Nat])
    BY <1>7, EmptyStoreType DEF ExportAndRestart
  <2>2. IsStore(feederToVal', Accounts, Validators)
    BY <1>7 DEF ExportAndRestart, TypeOK, IsStore
  <2> QED BY <1>7, <2>1, <2>2 DEF ExportAndRestart, TypeOK, stakingVars, NoSlash
<1>8. CASE UNCHANGED vars
  BY <1>8 DEF vars, oracleVars, stakingVars, TypeOK
<1> QED BY <1>1, <1>2, <1>3, <1>4, <1>5, <1>6, <1>7, <1>8 DEF Next

\* The type invariant: in particular the parameters in force are valid ones
\* and stored feeds belong to known validators and pairs.
THEOREM TypeCorrect == Spec => []TypeOK
<1>1. Init => TypeOK
  BY InitType
<1>2. TypeOK /\ [Next]_vars => TypeOK'
  BY NextType
<1> QED BY <1>1, <1>2, PTL DEF Spec

----------------------------------------------------------------------------
\* Where in a block a window can have been closed and slash events exist:
\* the strengthening the window and slash properties need.
BlockOrder ==
    /\ lastBoundary <= height
    /\ phase # "commit" => lastBoundary < height /\ slashed = NoSlash
    /\ DOMAIN feeds # {} => lastBoundary < height

\* The delegation indexes agree through every delegation, rotation and restart.
THEOREM FeederIndexCorrect == Spec => []FeederIndexAgreement
<1>1. Init => FeederIndexAgreement
  BY DEF Init, FeederIndexAgreement, EmptyStore
<1>2. TypeOK /\ FeederIndexAgreement /\ [Next]_vars => FeederIndexAgreement'
  <2> SUFFICES ASSUME TypeOK, FeederIndexAgreement, [Next]_vars
               PROVE  FeederIndexAgreement'
    OBVIOUS
  <2>1. ASSUME NEW val \in Validators, NEW feeder \in Delegates, SetFeeder(val, feeder)
        PROVE  FeederIndexAgreement'
    BY <2>1 DEF SetFeeder, SetFeederAccepted, SetFeederDelegation, Put,
                FeederIndexAgreement
  <2>2. ASSUME NEW feeder \in Accounts, NEW val \in Validators, NEW pair \in Pairs,
               NEW price \in Prices, SubmitFeed(feeder, val, pair, price)
        PROVE  FeederIndexAgreement'
    BY <2>2 DEF SubmitFeed, FeederIndexAgreement
  <2>3. ASSUME NEW p \in ParamChoices, UpdateParams(p)
        PROVE  FeederIndexAgreement'
    BY <2>3 DEF UpdateParams, FeederIndexAgreement
  <2>4. CASE StakingEndBlock
    BY <2>4 DEF StakingEndBlock, oracleVars, FeederIndexAgreement
  <2>5. CASE EndBlocker
    BY <2>5 DEF EndBlocker, FeederIndexAgreement
  <2>6. CASE BeginBlock
    BY <2>6 DEF BeginBlock, oracleVars, FeederIndexAgreement
  <2>7. CASE ExportAndRestart
    <3>1. \A v \in DOMAIN valToFeeder :
             (CHOOSE u \in DOMAIN valToFeeder : valToFeeder[u] = valToFeeder[v]) = v
      BY DEF FeederIndexAgreement
    <3> QED BY <2>7, <3>1 DEF ExportAndRestart, FeederIndexAgreement
  <2>8. CASE UNCHANGED vars
    BY <2>8 DEF vars, oracleVars, FeederIndexAgreement
  <2> QED BY <2>1, <2>2, <2>3, <2>4, <2>5, <2>6, <2>7, <2>8 DEF Next
<1> QED BY <1>1, <1>2, TypeCorrect, PTL DEF Spec

\* The window invariant together with what makes it inductive.
WindowInv == BlockOrder /\ FeedsOfOpenWindow

\* A window is closed at most once per block and what is stored after it is
\* newer: the inductive invariant behind the window properties.
LEMMA WindowInvariant == Spec => []WindowInv
<1>1. Init => WindowInv
  BY DEF Init, WindowInv, BlockOrder, FeedsOfOpenWindow, EmptyStore
<1>2. TypeOK /\ WindowInv /\ [Next]_vars => WindowInv'
  <2> SUFFICES ASSUME TypeOK, WindowInv, [Next]_vars
               PROVE  WindowInv'
    OBVIOUS
  <2> USE DEF WindowInv, BlockOrder, FeedsOfOpenWindow
  <2>1. ASSUME NEW val \in Validators, NEW feeder \in Delegates, SetFeeder(val, feeder)
        PROVE  WindowInv'
    BY <2>1 DEF SetFeeder
  <2>2. ASSUME NEW feeder \in Accounts, NEW val \in Validators, NEW pair \in Pairs,
               NEW price \in Prices, SubmitFeed(feeder, val, pair, price)
        PROVE  WindowInv'
    BY <2>2 DEF SubmitFeed, Put, TypeOK
  <2>3. ASSUME NEW p \in ParamChoices, UpdateParams(p)
        PROVE  WindowInv'
    BY <2>3 DEF UpdateParams
  <2>4. CASE StakingEndBlock
    BY <2>4 DEF StakingEndBlock, oracleVars
  <2>5. CASE EndBlocker
    <3>1. CASE height % params.voteWindow # 0
      BY <2>5, <3>1 DEF EndBlocker, TypeOK
    <3>2. CASE CloseWindow
      <4>1. DOMAIN feeds' = {} /\ lastBoundary' = height /\ height' = height
            /\ phase' = "commit"
        BY <2>5, <3>2 DEF EndBlocker, CloseWindow, DeleteAllFeeds, EmptyStore
      <4>2. \A pair \in DOMAIN prices' : prices'[pair].height <= height
        BY <2>5, <3>2 DEF EndBlocker, CloseWindow, TypeOK, IsStore
      <4> QED BY <4>1, <4>2 DEF TypeOK
    <3> QED BY <2>5, <3>1, <3>2 DEF EndBlocker
  <2>6. CASE BeginBlock
    BY <2>6 DEF BeginBlock, oracleVars, TypeOK, IsStore
  <2>7. CASE ExportAndRestart
    BY <2>7 DEF ExportAndRestart, EmptyStore
  <2>8. CASE UNCHANGED vars
    BY <2>8 DEF vars, oracleVars
  <2> QED BY <2>1, <2>2, <2>3, <2>4, <2>5, <2>6, <2>7, <2>8 DEF Next
<1> QED BY <1>1, <1>2, TypeCorrect, PTL DEF Spec

\* Feeds of a closed window are never aggregated again.
THEOREM FeedsOfOpenWindowHolds == Spec => []FeedsOfOpenWindow
BY WindowInvariant, PTL DEF WindowInv

\* No validator is charged more misses than windows, and no full evaluation
\* window is left standing, whatever governance does to its size.
THEOREM CountersCorrect == Spec => []CountersWithinWindow
<1>1. Init => CountersWithinWindow
  BY ParamChoicesAssumption DEF Init, CountersWithinWindow, Validate
<1>2. TypeOK /\ CountersWithinWindow /\ [Next]_vars => CountersWithinWindow'
  <2> SUFFICES ASSUME TypeOK, CountersWithinWindow, [Next]_vars
               PROVE  CountersWithinWindow'
    OBVIOUS
  <2> USE DEF CountersWithinWindow
  <2>1. ASSUME NEW val \in Validators, NEW feeder \in Delegates, SetFeeder(val, feeder)
        PROVE  CountersWithinWindow'
    BY <2>1 DEF SetFeeder
  <2>2. ASSUME NEW feeder \in Accounts, NEW val \in Validators, NEW pair \in Pairs,
               NEW price \in Prices, SubmitFeed(feeder, val, pair, price)
        PROVE  CountersWithinWindow'
    BY <2>2 DEF SubmitFeed
  <2>3. ASSUME NEW p \in ParamChoices, UpdateParams(p)
        PROVE  CountersWithinWindow'
    BY <2>3 DEF UpdateParams, SetParams, Validate
  <2>4. CASE StakingEndBlock
    BY <2>4 DEF StakingEndBlock, oracleVars
  <2>5. CASE EndBlocker
    <3>1. CASE height % params.voteWindow # 0
      BY <2>5, <3>1 DEF EndBlocker
    <3>2. CASE CloseWindow
      <4> SUFFICES ASSUME NEW v \in Validators
                   PROVE  /\ miss'[v] <= total'[v]
                          /\ \E p \in ParamChoices : total'[v] < p.missWindowSize
        OBVIOUS
      <4>1. /\ NewMiss(v) <= NewTotal(v)
            /\ ~WindowFull(v) => NewTotal(v) < params.missWindowSize
        BY ParamChoicesAssumption DEF TypeOK, NewMiss, NewTotal, WindowFull
      <4>2. 0 < params.missWindowSize /\ params \in ParamChoices
        BY DEF TypeOK, Validate
      <4>3. /\ total'[v] = IF v \notin BondedVals THEN total[v]
                           ELSE IF WindowFull(v) THEN 0 ELSE NewTotal(v)
            /\ miss'[v] = IF v \notin BondedVals THEN miss[v]
                          ELSE IF WindowFull(v) THEN 0 ELSE NewMiss(v)
        BY <3>2 DEF CloseWindow
      <4> QED BY <4>1, <4>2, <4>3
    <3> QED BY <2>5, <3>1, <3>2 DEF EndBlocker
  <2>6. CASE BeginBlock
    BY <2>6 DEF BeginBlock, oracleVars
  <2>7. CASE ExportAndRestart
    BY <2>7 DEF ExportAndRestart, TypeOK, Validate
  <2>8. CASE UNCHANGED vars
    BY <2>8 DEF vars, oracleVars
  <2> QED BY <2>1, <2>2, <2>3, <2>4, <2>5, <2>6, <2>7, <2>8 DEF Next
<1> QED BY <1>1, <1>2, TypeCorrect, PTL DEF Spec

----------------------------------------------------------------------------
\* Which steps change the prices, and the slash events there are after one.
LEMMA PriceSteps ==
  ASSUME TypeOK, BlockOrder, [Next]_vars
  PROVE  \/ phase = "staking" /\ CloseWindow
         \/ prices' = prices /\ (slashed' = NoSlash \/ UNCHANGED vars)
<1> USE DEF BlockOrder
<1>1. ASSUME NEW val \in Validators, NEW feeder \in Delegates, SetFeeder(val, feeder)
      PROVE  prices' = prices /\ slashed' = NoSlash
  BY <1>1 DEF SetFeeder
<1>2. ASSUME NEW feeder \in Accounts, NEW val \in Validators, NEW pair \in Pairs,
             NEW price \in Prices, SubmitFeed(feeder, val, pair, price)
      PROVE  prices' = prices /\ slashed' = NoSlash
  BY <1>2 DEF SubmitFeed
<1>3. ASSUME NEW p \in ParamChoices, UpdateParams(p)
      PROVE  prices' = prices /\ slashed' = NoSlash
  BY <1>3 DEF UpdateParams
<1>4. CASE StakingEndBlock
  BY <1>4 DEF StakingEndBlock, oracleVars
<1>5. CASE EndBlocker
  BY <1>5 DEF EndBlocker
<1>6. CASE BeginBlock
  BY <1>6 DEF BeginBlock, oracleVars
<1>7. CASE ExportAndRestart
  BY <1>7 DEF ExportAndRestart
<1>8. CASE UNCHANGED vars
  BY <1>8 DEF vars, oracleVars
<1> QED BY <1>1, <1>2, <1>3, <1>4, <1>5, <1>6, <1>7, <1>8 DEF Next

\* Only prices that were reported are ever published.
THEOREM PublishedPriceCorrect == Spec => []PublishedPriceReported
<1>1. Init => PublishedPriceReported
  BY DEF Init, PublishedPriceReported, EmptyStore
<1>2. TypeOK /\ BlockOrder /\ PublishedPriceReported /\ [Next]_vars => PublishedPriceReported'
  <2> SUFFICES ASSUME TypeOK, BlockOrder, PublishedPriceReported, [Next]_vars
               PROVE  PublishedPriceReported'
    OBVIOUS
  <2>1. CASE CloseWindow
    <3>1. \A pair \in QuorumLive : Published(pair) \in Prices
      BY PublishedReported
    <3> QED BY <2>1, <3>1 DEF CloseWindow, PublishedPriceReported
  <2>2. CASE prices' = prices
    BY <2>2 DEF PublishedPriceReported
  <2> QED BY <2>1, <2>2, PriceSteps
<1> QED BY <1>1, <1>2, TypeCorrect, WindowInvariant, PTL DEF Spec, WindowInv

\* A majority of the submitted power bounds what is published, whatever the
\* rest reports.
THEOREM MajorityDecides == Spec => PublishedWithinMajority
<1> DEFINE A == \A pair \in DOMAIN prices' :
                  prices'[pair].height = height /\ phase = "staking" =>
                     WithinMajority(pair, prices'[pair].price)
<1>1. TypeOK /\ WindowInv /\ [Next]_vars => [A]_vars
  <2> SUFFICES ASSUME TypeOK, WindowInv, [Next]_vars,
                      NEW pair \in DOMAIN prices',
                      prices'[pair].height = height, phase = "staking"
               PROVE  WithinMajority(pair, prices'[pair].price)
    OBVIOUS
  <2>1. CASE CloseWindow /\ pair \in QuorumLive
    <3>1. prices'[pair].price = Published(pair)
      BY <2>1 DEF CloseWindow
    <3> SUFFICES ASSUME NEW H \in SUBSET ValidFeeds(pair),
                        2 * Weight(lastPower, H) > Weight(lastPower, ValidFeeds(pair)) + 1
                 PROVE  /\ \E v \in H : FeedPrice(pair)[v] <= Published(pair)
                        /\ \E v \in H : Published(pair) <= FeedPrice(pair)[v]
      BY <3>1 DEF WithinMajority
    <3> QED BY FeedPriceType, WeightedMedianMajority DEF Published
  <2>2. CASE pair \in DOMAIN prices /\ prices'[pair] = prices[pair]
    BY <2>2 DEF WindowInv, BlockOrder, FeedsOfOpenWindow, TypeOK, IsStore
  <2>3. \/ CloseWindow /\ pair \in QuorumLive
        \/ pair \in DOMAIN prices /\ prices'[pair] = prices[pair]
    BY PriceSteps DEF CloseWindow, WindowInv
  <2> QED BY <2>1, <2>2, <2>3
<1> QED BY <1>1, TypeCorrect, WindowInvariant, PTL DEF Spec, PublishedWithinMajority

\* Reporting the price that most reporters agree on is never slashed as an
\* outlier.
THEOREM AgreeingMajoritySafe == Spec => AgreeingMajorityNotSlashed
<1> DEFINE Agreeing(e) ==
             \E H \in SUBSET ValidFeeds(e[2]) :
                /\ e[1] \in H
                /\ 2 * Cardinality(H) > Cardinality(ValidFeeds(e[2]))
                /\ \A v \in H : FeedPrice(e[2])[v] = FeedPrice(e[2])[e[1]]
           A == \A e \in slashed'.outlier : ~ Agreeing(e)
<1>1. TypeOK /\ WindowInv /\ [Next]_vars => [A]_vars
  <2> SUFFICES ASSUME TypeOK, BlockOrder, [Next]_vars, ~ UNCHANGED vars,
                      NEW e \in slashed'.outlier, Agreeing(e)
               PROVE  FALSE
    BY DEF WindowInv
  <2>1. CloseWindow
    BY PriceSteps DEF NoSlash
  <2>2. e[1] \in Outliers(e[2])
    BY <2>1 DEF CloseWindow
  <2> DEFINE S == ValidFeeds(e[2])
             p == FeedPrice(e[2])[e[1]]
  <2>3. e[1] \in S /\ p \in Nat \ {0}
    BY <2>2, FeedPriceType, OracleAssumption DEF Outliers
  <2>4. RefMedian(e[2]) = p
    <3>1. PICK H \in SUBSET S :
             2 * Cardinality(H) > Cardinality(S) /\ \A v \in H : FeedPrice(e[2])[v] = p
      OBVIOUS
    <3> QED BY <3>1, <2>3, FeedPriceType, UnweightedMedianUnanimous DEF RefMedian
  <2>5. Abs(p - p) = 0
    BY <2>3 DEF Abs
  <2>6. Quo(0, p) > params.outlierThreshold
    BY <2>2, <2>4, <2>5 DEF Outliers
  <2>7. params.outlierThreshold > 0 /\ params.outlierThreshold \in Int
    BY ParamChoicesAssumption DEF TypeOK, Validate, InUnitInterval
  <2> QED BY <2>3, <2>6, <2>7, QuoZero
<1> QED BY <1>1, TypeCorrect, WindowInvariant, PTL DEF Spec, AgreeingMajorityNotSlashed

----------------------------------------------------------------------------
\* The strengthening of the history properties: whoever has missed a window was
\* at fault, and no more windows are counted for a validator than were closed
\* since its last miss slash.
MissHistory ==
    /\ sinceSlash \in [Validators -> Nat]
    /\ \A v \in Validators : miss[v] # 0 => v \in faulted
    /\ \A v \in Validators : total[v] <= sinceSlash[v]

HistInv == DiligentNeverMissSlashed /\ MissHistory

\* The history does not change what the specification does.
LEMMA HistImplements == HistSpec => Spec
<1>1. HistInit => Init
  BY DEF HistInit
<1>2. [HistNext]_histVars => [Next]_vars
  BY DEF HistNext, histVars
<1> QED BY <1>1, <1>2, PTL DEF HistSpec, Spec

\* A bonded validator that is charged a miss has not fed some listed pair: only
\* listed pairs can reach the quorum.
LEMMA ChargedAtFault ==
  ASSUME NEW v, NewMiss(v) # miss[v]
  PROVE  Fault(v)
<1>1. PICK pair \in QuorumLive : <<v, pair>> \notin DOMAIN feeds
  BY DEF NewMiss, SubmittedAllLive
<1> QED BY <1>1 DEF QuorumLive, Fault

\* No misses, no slash.
LEMMA SlashedHasMissed ==
  ASSUME TypeOK, NEW v \in Validators, MissSlashed(v)
  PROVE  NewMiss(v) # 0
<1> SUFFICES ASSUME NewMiss(v) = 0 PROVE FALSE
  OBVIOUS
<1>1. NewTotal(v) \in Nat \ {0}
  BY DEF TypeOK, NewTotal
<1>2. Quo(NewMiss(v), NewTotal(v)) = 0
  BY <1>1, QuoZero
<1>3. params.missThreshold > 0 /\ params.missThreshold \in Int
  BY ParamChoicesAssumption DEF TypeOK, Validate, InUnitInterval
<1> QED BY <1>2, <1>3 DEF MissSlashed

\* What the close of a window does to one validator.
LEMMA CloseWindowMisses ==
  ASSUME TypeOK, HistInv, CloseWindow, Closing, HistNext, NEW v \in Validators
  PROVE  /\ v \in slashed'.miss => v \in faulted'
         /\ miss'[v] # 0 => v \in faulted'
         /\ total'[v] <= sinceSlash'[v]
<1>t. total[v] \in Nat /\ miss[v] \in Nat /\ sinceSlash[v] \in Nat /\ total[v] <= sinceSlash[v]
  BY DEF TypeOK, HistInv, MissHistory
<1>1. v \in slashed'.miss => v \in BondedVals /\ MissSlashed(v)
  BY DEF CloseWindow
<1>2. /\ total'[v] = IF v \notin BondedVals THEN total[v]
                     ELSE IF WindowFull(v) THEN 0 ELSE NewTotal(v)
      /\ miss'[v] = IF v \notin BondedVals THEN miss[v]
                    ELSE IF WindowFull(v) THEN 0 ELSE NewMiss(v)
  BY DEF CloseWindow
<1>3. /\ faulted \subseteq faulted'
      /\ v \in BondedVals /\ Fault(v) => v \in faulted'
      /\ sinceSlash'[v] = IF v \notin BondedVals THEN sinceSlash[v]
                          ELSE IF v \in slashed'.miss THEN 0 ELSE sinceSlash[v] + 1
  BY DEF HistNext
<1>4. miss[v] # 0 => v \in faulted
  BY DEF HistInv, MissHistory
<1>5. v \in BondedVals /\ NewMiss(v) # 0 => v \in faulted'
  BY <1>3, <1>4, ChargedAtFault
<1>6. v \in slashed'.miss => v \in faulted'
  BY <1>1, <1>5, SlashedHasMissed
<1>7. miss'[v] # 0 => v \in faulted'
  BY <1>2, <1>3, <1>4, <1>5
<1>8. total'[v] <= sinceSlash'[v]
  <2>1. NewTotal(v) = total[v] + 1 /\ (MissSlashed(v) => WindowFull(v))
    BY DEF NewTotal, MissSlashed
  <2> QED BY <1>t, <1>1, <1>2, <1>3, <2>1
<1> QED BY <1>6, <1>7, <1>8

\* Outside the close of a window the counters only stay or are reset, and there
\* are no new slashes.
LEMMA OtherStepMisses ==
  ASSUME TypeOK, BlockOrder, Next, ~ (phase = "staking" /\ CloseWindow)
  PROVE  /\ ~ Closing
         /\ slashed' = NoSlash
         /\ \/ miss' = miss /\ total' = total
            \/ miss' = [v \in Validators |-> 0] /\ total' = [v \in Validators |-> 0]
<1> USE DEF BlockOrder, Closing
<1>1. ASSUME NEW val \in Validators, NEW feeder \in Delegates, SetFeeder(val, feeder)
      PROVE  ~ Closing /\ slashed' = NoSlash /\ miss' = miss /\ total' = total
  BY <1>1 DEF SetFeeder
<1>2. ASSUME NEW feeder \in Accounts, NEW val \in Validators, NEW pair \in Pairs,
             NEW price \in Prices, SubmitFeed(feeder, val, pair, price)
      PROVE  ~ Closing /\ slashed' = NoSlash /\ miss' = miss /\ total' = total
  BY <1>2 DEF SubmitFeed
<1>3. ASSUME NEW p \in ParamChoices, UpdateParams(p)
      PROVE  /\ ~ Closing
             /\ slashed' = NoSlash
             /\ \/ miss' = miss /\ total' = total
                \/ miss' = [v \in Validators |-> 0] /\ total' = [v \in Validators |-> 0]
  BY <1>3 DEF UpdateParams
<1>4. ASSUME StakingEndBlock
      PROVE  ~ Closing /\ slashed' = NoSlash /\ miss' = miss /\ total' = total
  BY <1>4 DEF StakingEndBlock, oracleVars
<1>5. ASSUME EndBlocker
      PROVE  ~ Closing /\ slashed' = NoSlash /\ miss' = miss /\ total' = total
  BY <1>5 DEF EndBlocker
<1>6. ASSUME BeginBlock
      PROVE  ~ Closing /\ slashed' = NoSlash /\ miss' = miss /\ total' = total
  BY <1>6 DEF BeginBlock, oracleVars
<1>7. ASSUME ExportAndRestart
      PROVE  /\ ~ Closing /\ slashed' = NoSlash
             /\ miss' = [v \in Validators |-> 0] /\ total' = [v \in Validators |-> 0]
  BY <1>7 DEF ExportAndRestart
<1> QED BY <1>1, <1>2, <1>3, <1>4, <1>5, <1>6, <1>7 DEF Next

\* Every step keeps the strengthened invariant.
LEMMA HistStep ==
  ASSUME TypeOK, BlockOrder, HistInv, [HistNext]_histVars
  PROVE  HistInv'
<1>t. /\ total \in [Validators -> Nat] /\ miss \in [Validators -> Nat]
      /\ sinceSlash \in [Validators -> Nat]
  BY DEF TypeOK, HistInv, MissHistory
<1>1. CASE HistNext /\ phase = "staking" /\ CloseWindow
  <2>1. CASE Closing
    <3>1. \A v \in Validators : /\ v \in slashed'.miss => v \in faulted'
                                /\ miss'[v] # 0 => v \in faulted'
                                /\ total'[v] <= sinceSlash'[v]
      BY <1>1, <2>1, CloseWindowMisses
    <3>2. slashed'.miss \subseteq Validators
      BY <1>1 DEF CloseWindow, BondedVals
    <3>3. sinceSlash' \in [Validators -> Nat]
      BY <1>1, <1>t DEF HistNext
    <3> QED BY <3>1, <3>2, <3>3 DEF HistInv, MissHistory, DiligentNeverMissSlashed
  <2>2. CASE ~ Closing
    <3>1. EndBlocker
      BY <1>1 DEF HistNext, Next, SetFeeder, SubmitFeed, UpdateParams, StakingEndBlock,
                  BeginBlock, ExportAndRestart
    <3>2. miss' = miss /\ total' = total /\ slashed' = NoSlash
      BY <2>2, <3>1 DEF EndBlocker, Closing
    <3>3. faulted' = faulted /\ sinceSlash' = sinceSlash
      BY <1>1, <1>t, <2>2 DEF HistNext
    <3> QED BY <3>2, <3>3 DEF HistInv, MissHistory, DiligentNeverMissSlashed, NoSlash
  <2> QED BY <2>1, <2>2
<1>2. CASE HistNext /\ ~ (phase = "staking" /\ CloseWindow)
  <2>1. /\ ~ Closing
        /\ slashed' = NoSlash
        /\ \/ miss' = miss /\ total' = total
           \/ miss' = [v \in Validators |-> 0] /\ total' = [v \in Validators |-> 0]
    BY <1>2, OtherStepMisses DEF HistNext
  <2>2. faulted' = faulted /\ sinceSlash' = sinceSlash
    BY <1>2, <1>t, <2>1 DEF HistNext
  <2> QED BY <1>t, <2>1, <2>2 DEF HistInv, MissHistory, DiligentNeverMissSlashed, NoSlash
<1>3. CASE UNCHANGED histVars
  BY <1>3 DEF histVars, vars, oracleVars, HistInv, MissHistory, DiligentNeverMissSlashed
<1> QED BY <1>1, <1>2, <1>3

\* The strengthened invariant of the history.
LEMMA HistInvariant == HistSpec => []HistInv
<1>1. HistInit => HistInv
  BY DEF HistInit, Init, HistInv, MissHistory, DiligentNeverMissSlashed, NoSlash
<1>2. TypeOK /\ WindowInv /\ HistInv /\ [HistNext]_histVars => HistInv'
  BY HistStep DEF WindowInv
<1> QED BY <1>1, <1>2, HistImplements, TypeCorrect, WindowInvariant, PTL DEF HistSpec

\* A validator that fed every listed pair in every window it was bonded for is
\* never slashed for missing.
THEOREM DiligentSafe == HistSpec => []DiligentNeverMissSlashed
BY HistInvariant, PTL DEF HistInv

\* Miss slashes of one validator are a whole evaluation window apart, through
\* changes of its size, resets of the counters and restarts.
THEOREM MissSlashesAreApart == HistSpec => MissSlashesApart
<1> DEFINE A == \A v \in slashed'.miss :
                  Closing => sinceSlash[v] + 1 >= params.missWindowSize
<1>1. TypeOK /\ WindowInv /\ HistInv /\ [HistNext]_histVars => [A]_histVars
  <2> SUFFICES ASSUME TypeOK, WindowInv, HistInv, HistNext, Closing, NEW v \in slashed'.miss
               PROVE  sinceSlash[v] + 1 >= params.missWindowSize
    OBVIOUS
  <2>1. CloseWindow
    BY OtherStepMisses DEF WindowInv, HistNext
  <2>2. v \in Validators /\ WindowFull(v)
    BY <2>1 DEF CloseWindow, BondedVals, MissSlashed
  <2>3. total[v] \in Nat /\ sinceSlash[v] \in Nat /\ total[v] <= sinceSlash[v]
    BY <2>2 DEF TypeOK, HistInv, MissHistory
  <2>4. params.missWindowSize \in Int
    BY ParamChoicesAssumption DEF TypeOK
  <2> QED BY <2>2, <2>3, <2>4 DEF WindowFull, NewTotal
<1> QED BY <1>1, HistInvariant, HistImplements, TypeCorrect, WindowInvariant, PTL
        DEF HistSpec, MissSlashesApart

=============================================================================
