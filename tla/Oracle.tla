------------------------------- MODULE Oracle -------------------------------
(***************************************************************************)
(* x/oracle: feeder delegations, price feeds, and the EndBlocker that at   *)
(* every vote-window boundary aggregates the feeds into prices, slashes    *)
(* outliers, charges and slashes misses, and clears the window.            *)
(*                                                                         *)
(* A block is: transactions (phase "deliver"), then the EndBlockers in the *)
(* order of app_config.go: x/gov, which may execute MsgUpdateParams (phase *)
(* "gov"), x/staking, which recomputes the bonded set (phase "staking"),   *)
(* and x/oracle, after which the block is committed (phase "commit").      *)
(* Decimals are integers, see Aggregation.  The TWAP history, the block    *)
(* times and the slash rates are left out: nothing below reads them.       *)
(***************************************************************************)
EXTENDS Aggregation, Sequences, KVStore

CONSTANTS
    Validators,     \* operator addresses
    Accounts,       \* account addresses
    OperAcc,        \* the account with the bytes of the operator address
    Delegates,      \* the accounts operators name in MsgSetFeeder
    Pairs,          \* price pairs
    Prices,         \* prices a feeder may report
    ParamChoices,   \* the OracleParams genesis and governance choose from
    PowerMaps,      \* the LastValidatorPower maps x/staking may produce
    MaxHeight       \* bound: the last block that ends

ASSUME OracleAssumption ==
    /\ OperAcc \in [Validators -> Accounts]
    /\ \A v, u \in Validators : OperAcc[v] = OperAcc[u] => v = u
    /\ Delegates \subseteq Accounts
    /\ IsFiniteSet(Validators)
    /\ Prices \subseteq Nat \ {0}
    /\ PowerMaps \subseteq [Validators -> 0 .. MaxUnits]
    /\ MaxHeight \in Nat

\* OracleParams without the two slash rates, not yet validated.
ASSUME ParamChoicesAssumption ==
    \A p \in ParamChoices :
       /\ {p.voteWindow, p.missWindowSize, p.missThreshold,
           p.outlierThreshold, p.quorumFraction} \subseteq Int
       /\ p.acceptList \in Seq(Pairs)

VARIABLES
    params,        \* 0x06
    feeds,         \* 0x01: <<validator, pair>> -> price and height
    prices,        \* 0x02: pair -> published price and height
    miss,          \* 0x04: windows missed, 0 when the key is absent
    total,         \* 0x05: windows counted, 0 when the key is absent
    feederToVal,   \* 0x07
    valToFeeder,   \* 0x08
    status,        \* x/staking: the validator's bond status, "None" if removed
    lastPower,     \* x/staking: LastValidatorPower
    slashed,       \* oracle_slash events of the last EndBlocker
    height,        \* the block being executed
    phase,         \* where in the block execution is
    lastBoundary   \* history: the height of the last closed vote window

oracleVars == <<params, feeds, prices, miss, total, feederToVal, valToFeeder>>
stakingVars == <<status, lastPower>>
vars == <<oracleVars, stakingVars, slashed, height, phase, lastBoundary>>

NoSlash == [outlier |-> {}, miss |-> {}]

----------------------------------------------------------------------------
\* OracleParams.Validate
InUnitInterval(d) == 0 < d /\ d <= Prec

Validate(p) ==
    /\ p.voteWindow > 0
    /\ p.missWindowSize > 0
    /\ InUnitInterval(p.missThreshold)
    /\ InUnitInterval(p.outlierThreshold)
    /\ InUnitInterval(p.quorumFraction)
    /\ p.acceptList # << >>
    /\ \A i, j \in DOMAIN p.acceptList :
          p.acceptList[i] = p.acceptList[j] => i = j

AcceptSet(p) == {p.acceptList[i] : i \in DOMAIN p.acceptList}
PairAccepted(p, pair) == pair \in AcceptSet(p)

\* Element by element, so a reordered list counts as a changed one.
AcceptListChanged(p, q) == p.acceptList # q.acceptList

----------------------------------------------------------------------------
\* x/staking as the oracle uses it.  The powers of genesis or of a block's
\* staking EndBlocker; a validator is bonded exactly when it has power.
StatusAllowed(st, power) ==
    \A v \in Validators : st[v] = "Bonded" <=> power[v] > 0

\* A validator leaves the bonded set into the unbonding period, and only an
\* unbonded one can be removed.
StakingEndBlock ==
    /\ phase \in {"deliver", "gov"}
    /\ height <= MaxHeight
    /\ \E power \in PowerMaps, st \in [Validators -> {"Bonded", "Unbonded", "None"}] :
          /\ StatusAllowed(st, power)
          /\ \A v \in Validators : st[v] = "None" => status[v] # "Bonded"
          /\ status' = st
          /\ lastPower' = power
    /\ phase' = "staking"
    /\ UNCHANGED <<oracleVars, slashed, height, lastBoundary>>

----------------------------------------------------------------------------
\* Mutant: the feeder may already be bound to another validator.
SetFeederUnbound(val, feeder) == status[val] = "Bonded"

\* SetFeeder: the validator exists and is bonded, and the feeder is not bound
\* to another validator.
SetFeederAccepted(val, feeder) ==
    /\ status[val] = "Bonded"
    /\ feeder \in DOMAIN feederToVal => feederToVal[feeder] = val

\* Binds the feeder to the validator in both indexes.  The entry 0x07 of the
\* feeder that the validator had before stays.
SetFeederDelegation(val, feeder) ==
    /\ feederToVal' = Put(feederToVal, feeder, val)
    /\ valToFeeder' = Put(valToFeeder, val, feeder)

SetFeeder(val, feeder) ==
    /\ phase = "deliver"
    /\ SetFeederAccepted(val, feeder)
    /\ SetFeederDelegation(val, feeder)
    /\ UNCHANGED <<params, feeds, prices, miss, total, stakingVars, slashed,
                   height, phase, lastBoundary>>

\* The delegated feeder of a validator, by default its own account.
ResolveAuthorizedFeeder(val) ==
    IF val \in DOMAIN valToFeeder THEN valToFeeder[val] ELSE OperAcc[val]

\* A later feed of the window overwrites the earlier one.
SubmitFeed(feeder, val, pair, price) ==
    /\ phase = "deliver"
    /\ ResolveAuthorizedFeeder(val) = feeder
    /\ PairAccepted(params, pair)
    /\ status[val] = "Bonded"
    /\ lastPower[val] # 0
    /\ feeds' = Put(feeds, <<val, pair>>, [price |-> price, height |-> height])
    /\ UNCHANGED <<params, prices, miss, total, feederToVal, valToFeeder,
                   stakingVars, slashed, height, phase, lastBoundary>>

\* Mutant: parameters are stored without being validated.
SetParamsUnchecked(p) == params' = p

SetParams(p) ==
    /\ Validate(p)
    /\ params' = p

\* Executed by x/gov's EndBlocker.  A changed accept list resets every miss
\* and total counter; prices and feeds of de-listed pairs stay.
UpdateParams(p) ==
    /\ phase \in {"deliver", "gov"}
    /\ SetParams(p)
    /\ IF AcceptListChanged(params, p)
       THEN /\ miss' = [v \in Validators |-> 0]
            /\ total' = [v \in Validators |-> 0]
       ELSE UNCHANGED <<miss, total>>
    /\ phase' = "gov"
    /\ UNCHANGED <<feeds, prices, feederToVal, valToFeeder, stakingVars,
                   slashed, height, lastBoundary>>

----------------------------------------------------------------------------
\* EndBlocker.  The bonded validators whose feed for the pair counts, the
\* prices they reported, and the medians and quorum over them.
BondedVals == {v \in Validators : status[v] = "Bonded"}
TotalPower == Weight(lastPower, Validators)

ValidFeeds(pair) ==
    {v \in BondedVals : <<v, pair>> \in DOMAIN feeds /\ lastPower[v] # 0}

FeedPrice(pair) == [v \in ValidFeeds(pair) |-> feeds[<<v, pair>>].price]

QuorumLive ==
    {pair \in AcceptSet(params) :
        /\ ValidFeeds(pair) # {}
        /\ QuorumMet(Weight(lastPower, ValidFeeds(pair)), TotalPower,
                     params.quorumFraction)}

\* Mutants: the two medians the EndBlocker computes are confused.
PublishedByCount(pair) == UnweightedMedian(ValidFeeds(pair), FeedPrice(pair))
RefMedianByPower(pair) == WeightedMedian(ValidFeeds(pair), FeedPrice(pair), lastPower)

Published(pair) == WeightedMedian(ValidFeeds(pair), FeedPrice(pair), lastPower)
RefMedian(pair) == UnweightedMedian(ValidFeeds(pair), FeedPrice(pair))

\* Feeds further from the unweighted median than the threshold.
Outliers(pair) ==
    {v \in ValidFeeds(pair) :
        /\ RefMedian(pair) > 0
        /\ Quo(Abs(FeedPrice(pair)[v] - RefMedian(pair)), RefMedian(pair))
             > params.outlierThreshold}

\* Mutant: the feeds are deleted before the misses are counted.
SubmittedAfterDelete(v) == QuorumLive = {}

\* Miss accounting of one bonded validator: the counters after this window,
\* whether the evaluation window is full, and whether it ends in a slash.
SubmittedAllLive(v) == \A pair \in QuorumLive : <<v, pair>> \in DOMAIN feeds
NewTotal(v) == total[v] + 1
NewMiss(v) == IF SubmittedAllLive(v) THEN miss[v] ELSE miss[v] + 1

\* Mutants: the window is one longer, or is not waited for.
WindowFullLate(v) == NewTotal(v) > params.missWindowSize
MissSlashedEarly(v) == Quo(NewMiss(v), NewTotal(v)) > params.missThreshold

WindowFull(v) == NewTotal(v) >= params.missWindowSize
MissSlashed(v) == WindowFull(v) /\ Quo(NewMiss(v), NewTotal(v)) > params.missThreshold

\* slashValidator slashes a validator that has power; the power it reads is
\* the last one x/staking stored, which slashes of this block do not change.
Slashable(v) == lastPower[v] # 0

\* Mutant: only the feeds that were aggregated are deleted.
DeleteLiveFeeds ==
    feeds' = [k \in {f \in DOMAIN feeds : f[2] \notin QuorumLive} |-> feeds[k]]

DeleteAllFeeds == feeds' = EmptyStore

CloseWindow ==
    /\ prices' = [pair \in DOMAIN prices \cup QuorumLive |->
                    IF pair \in QuorumLive
                    THEN [price |-> Published(pair), height |-> height]
                    ELSE prices[pair]]
    /\ total' = [v \in Validators |->
                   IF v \notin BondedVals THEN total[v]
                   ELSE IF WindowFull(v) THEN 0 ELSE NewTotal(v)]
    /\ miss' = [v \in Validators |->
                   IF v \notin BondedVals THEN miss[v]
                   ELSE IF WindowFull(v) THEN 0 ELSE NewMiss(v)]
    /\ slashed' = [outlier |-> {e \in Validators \X QuorumLive :
                                  Slashable(e[1]) /\ e[1] \in Outliers(e[2])},
                   miss |-> {v \in BondedVals : Slashable(v) /\ MissSlashed(v)}]
    /\ DeleteAllFeeds
    /\ lastBoundary' = height

EndBlocker ==
    /\ phase = "staking"
    /\ IF height % params.voteWindow # 0
       THEN /\ slashed' = NoSlash
            /\ UNCHANGED <<prices, total, miss, feeds, lastBoundary>>
       ELSE CloseWindow
    /\ phase' = "commit"
    /\ UNCHANGED <<params, feederToVal, valToFeeder, stakingVars, height>>

BeginBlock ==
    /\ phase = "commit"
    /\ height' = height + 1
    /\ phase' = "deliver"
    /\ slashed' = NoSlash
    /\ UNCHANGED <<oracleVars, stakingVars, lastBoundary>>

----------------------------------------------------------------------------
\* GenesisState.Validate and InitGenesis on what ExportGenesis writes:
\* params, prices and the 0x08 index.
ExportedGenesisValid ==
    /\ Validate(params)
    /\ \A pair \in DOMAIN prices :
          PairAccepted(params, pair) /\ prices[pair].price > 0
    /\ \A v, u \in DOMAIN valToFeeder :
          valToFeeder[v] = valToFeeder[u] => v = u

\* The check of the prices' block times is in Twap.
InitGenesisAccepts ==
    /\ ExportedGenesisValid
    /\ \A v \in DOMAIN valToFeeder : status[v] # "None"

\* The chain is exported between two blocks and restarted from the export.
\* Feeds and counters are not exported; 0x07 is rebuilt from 0x08.
ExportAndRestart ==
    /\ phase = "commit"
    /\ InitGenesisAccepts
    /\ feeds' = EmptyStore
    /\ miss' = [v \in Validators |-> 0]
    /\ total' = [v \in Validators |-> 0]
    /\ feederToVal' = [f \in {valToFeeder[v] : v \in DOMAIN valToFeeder} |->
                         CHOOSE v \in DOMAIN valToFeeder : valToFeeder[v] = f]
    /\ slashed' = NoSlash
    /\ UNCHANGED <<params, prices, valToFeeder, stakingVars, height, phase,
                   lastBoundary>>

----------------------------------------------------------------------------
Init ==
    /\ params \in {p \in ParamChoices : Validate(p)}
    /\ feeds = EmptyStore
    /\ prices = EmptyStore
    /\ miss = [v \in Validators |-> 0]
    /\ total = [v \in Validators |-> 0]
    /\ feederToVal = EmptyStore
    /\ valToFeeder = EmptyStore
    /\ lastPower \in PowerMaps
    /\ status = [v \in Validators |->
                   IF lastPower[v] > 0 THEN "Bonded" ELSE "Unbonded"]
    /\ slashed = NoSlash
    /\ height = 1
    /\ phase = "deliver"
    /\ lastBoundary = 0

Next ==
    \/ \E val \in Validators, feeder \in Delegates : SetFeeder(val, feeder)
    \/ \E feeder \in Accounts, val \in Validators, pair \in Pairs, price \in Prices :
          SubmitFeed(feeder, val, pair, price)
    \/ \E p \in ParamChoices : UpdateParams(p)
    \/ StakingEndBlock
    \/ EndBlocker
    \/ BeginBlock
    \/ ExportAndRestart

Spec == Init /\ [][Next]_vars

----------------------------------------------------------------------------
\* Every variable has its type; the stored parameters are valid ones.
TypeOK ==
    /\ params \in ParamChoices /\ Validate(params)
    /\ IsStore(feeds, Validators \X Pairs, [price : Prices, height : Nat])
    /\ IsStore(prices, Pairs, [price : Nat, height : Nat])
    /\ miss \in [Validators -> Nat]
    /\ total \in [Validators -> Nat]
    /\ IsStore(feederToVal, Accounts, Validators)
    /\ IsStore(valToFeeder, Validators, Accounts)
    /\ status \in [Validators -> {"Bonded", "Unbonded", "None"}]
    /\ lastPower \in [Validators -> 0 .. MaxUnits]
    /\ slashed \in [outlier : SUBSET (Validators \X Pairs), miss : SUBSET Validators]
    /\ height \in Nat /\ lastBoundary \in Nat
    /\ phase \in {"deliver", "gov", "staking", "commit"}

\* The two delegation indexes never disagree: the feeder 0x08 gives for a
\* validator is bound by 0x07 to that validator, through any sequence of
\* delegations, rotations and restarts.  Hence no account is the delegated
\* feeder of two validators.
FeederIndexAgreement ==
    \A v \in DOMAIN valToFeeder :
       /\ valToFeeder[v] \in DOMAIN feederToVal
       /\ feederToVal[valToFeeder[v]] = v

\* Aggregation never sees a feed of an earlier window: whatever happens to the
\* window length, every stored feed was submitted after the last window was
\* closed, and every published price no later than it.
FeedsOfOpenWindow ==
    /\ \A k \in DOMAIN feeds :
          lastBoundary < feeds[k].height /\ feeds[k].height <= height
    /\ \A pair \in DOMAIN prices : prices[pair].height <= lastBoundary

\* The tumbling miss window: a validator has missed no more windows than were
\* counted for it, and fewer are counted than the largest window size
\* governance can have set, so no full window is left unevaluated.
CountersWithinWindow ==
    \A v \in Validators :
       /\ miss[v] <= total[v]
       /\ \E p \in ParamChoices : total[v] < p.missWindowSize

\* A published price is one that a feeder reported, hence strictly positive:
\* the zero that WeightedMedian falls back to is never published.
PublishedPriceReported ==
    \A pair \in DOMAIN prices : prices[pair].price \in Prices

\* Whoever holds more than half of the submitted power, and one unit more when
\* the total is odd, decides: the published price lies between the lowest and
\* the highest price reported by them, whatever the others report.
WithinMajority(pair, price) ==
    \A H \in SUBSET ValidFeeds(pair) :
       2 * Weight(lastPower, H) > Weight(lastPower, ValidFeeds(pair)) + 1 =>
          /\ \E v \in H : FeedPrice(pair)[v] <= price
          /\ \E v \in H : price <= FeedPrice(pair)[v]

PublishedWithinMajority ==
    [][\A pair \in DOMAIN prices' :
         prices'[pair].height = height /\ phase = "staking" =>
            WithinMajority(pair, prices'[pair].price)]_vars

\* Validators who report one price and are more than half of the reporters by
\* count are never slashed as outliers, whatever the others report and however
\* little power they have.
AgreeingMajorityNotSlashed ==
    [][\A e \in slashed'.outlier :
         ~ \E H \in SUBSET ValidFeeds(e[2]) :
              /\ e[1] \in H
              /\ 2 * Cardinality(H) > Cardinality(ValidFeeds(e[2]))
              /\ \A v \in H : FeedPrice(e[2])[v] = FeedPrice(e[2])[e[1]]]_vars

----------------------------------------------------------------------------
(***************************************************************************)
(* What the repository says of x/oracle and the code does not do.          *)
(***************************************************************************)

\* The genesis design: what a committed block exports can be imported again,
\* so that delegations and prices survive an export and restart.
ExportImportable == phase = "commit" => InitGenesisAccepts
=============================================================================
