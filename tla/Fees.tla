-------------------------------- MODULE Fees --------------------------------
(***************************************************************************)
(* x/fees: the burning of a share of the fee collector's uvtx at the end   *)
(* of every block, the counters of the reconcile invariant, and the other  *)
(* modules that move or burn uvtx.                                         *)
(*                                                                         *)
(* A block is: x/distribution's BeginBlocker, transactions (phase          *)
(* "deliver") and the EndBlockers, of which x/fees runs last; then it is   *)
(* committed (phase "commit").  Balances are of uvtx.                      *)
(***************************************************************************)
EXTENDS Integers

CONSTANTS
    Prec,           \* units of a LegacyDec in 1
    Amounts,        \* amounts that transactions move and other modules burn
    GenesisSpread,  \* uvtx in accounts and locked by other modules at genesis
    ParamChoices,   \* the FeesParams genesis and governance choose from
    MaxPaid         \* bound: the fees charged in a behaviour

ASSUME FeesAssumption ==
    /\ Prec \in Nat \ {0}
    /\ Amounts \subseteq Nat \ {0}
    /\ GenesisSpread \in [accounts : Nat, locked : Nat]
    /\ MaxPaid \in Nat

\* FeesParams, not yet validated.
ASSUME FeesParamAssumption ==
    \A p \in ParamChoices : {p.burnRatio, p.distributionRatio} \subseteq Int

VARIABLES
    params,            \* FeesParams
    genesisSupply,     \* supply at the genesis baseline
    cumulativeBurned,  \* burned by x/fees since then
    accounts,          \* balances of accounts with a key, together
    locked,            \* the two pools of x/staking and the deposits of x/gov
    collector,         \* the fee collector
    feesAccount,       \* the account of x/fees
    distribution,      \* the account of x/distribution
    phase,             \* where in the block execution is
    paid,              \* history: fees that reached the collector, ever
    recharged,         \* history: what was in it when a block 1 was not swept
    burned,            \* history: burned by x/fees, ever
    otherBurned        \* history: burned by others since the baseline

balances == <<accounts, locked, collector, feesAccount, distribution>>
history == <<paid, recharged, burned, otherBurned>>
vars == <<params, genesisSupply, cumulativeBurned, balances, phase, history>>

Supply == accounts + locked + collector + feesAccount + distribution

----------------------------------------------------------------------------
\* FeesParams.Validate
InUnitInterval(d) == 0 <= d /\ d <= Prec

Validate(p) ==
    /\ InUnitInterval(p.burnRatio)
    /\ InUnitInterval(p.distributionRatio)
    /\ p.burnRatio + p.distributionRatio = Prec

----------------------------------------------------------------------------
\* A fee, of a transaction or of x/rwa, goes to the collector.
PayFee(amount) ==
    /\ phase = "deliver"
    /\ accounts >= amount /\ paid + recharged + amount <= MaxPaid
    /\ accounts' = accounts - amount
    /\ collector' = collector + amount
    /\ paid' = paid + amount
    /\ UNCHANGED <<params, genesisSupply, cumulativeBurned, locked, feesAccount,
                   distribution, phase, recharged, burned, otherBurned>>

\* MsgSend to the account of x/fees, which is not a blocked address.
SendToFees(amount) ==
    /\ phase = "deliver"
    /\ accounts >= amount
    /\ accounts' = accounts - amount
    /\ feesAccount' = feesAccount + amount
    /\ UNCHANGED <<params, genesisSupply, cumulativeBurned, locked, collector,
                   distribution, phase, history>>

\* x/distribution pays out rewards.
WithdrawRewards(amount) ==
    /\ phase = "deliver"
    /\ distribution >= amount
    /\ distribution' = distribution - amount
    /\ accounts' = accounts + amount
    /\ UNCHANGED <<params, genesisSupply, cumulativeBurned, locked, collector,
                   feesAccount, phase, history>>

\* Coins are delegated, or deposited for a proposal.
Lock(amount) ==
    /\ phase = "deliver"
    /\ accounts >= amount
    /\ accounts' = accounts - amount
    /\ locked' = locked + amount
    /\ UNCHANGED <<params, genesisSupply, cumulativeBurned, collector,
                   feesAccount, distribution, phase, history>>

\* An unbonding delegation matures, or a deposit is refunded.
Unlock(amount) ==
    /\ phase = "deliver"
    /\ locked >= amount
    /\ locked' = locked - amount
    /\ accounts' = accounts + amount
    /\ UNCHANGED <<params, genesisSupply, cumulativeBurned, collector,
                   feesAccount, distribution, phase, history>>

\* x/oracle's EndBlocker, x/slashing and x/evidence slash a validator, and
\* x/staking burns the tokens from its two pools; or x/gov burns the deposits
\* of a proposal that was vetoed.
BurnLocked(amount) ==
    /\ phase = "deliver"
    /\ locked >= amount
    /\ locked' = locked - amount
    /\ otherBurned' = otherBurned + amount
    /\ UNCHANGED <<params, genesisSupply, cumulativeBurned, accounts, collector,
                   feesAccount, distribution, phase, paid, recharged, burned>>

\* Mutant: stored as proposed.
SetParamsUnchecked(p) == params' = p

SetParams(p) == Validate(p) /\ params' = p

UpdateParams(p) ==
    /\ phase = "deliver"
    /\ SetParams(p)
    /\ UNCHANGED <<genesisSupply, cumulativeBurned, balances, phase, history>>

----------------------------------------------------------------------------
\* The truncated product; multiplying an integer by a decimal is exact.
BurnAmount(balance, burnRatio) == (balance * burnRatio) \div Prec

\* Mutant: the counter is overwritten.
AddCumulativeBurnedLast(amt) == cumulativeBurned' = amt

AddCumulativeBurned(amt) == cumulativeBurned' = cumulativeBurned + amt

\* The coins pass through the account of x/fees, where they are burned.  None
\* of the bank calls can fail: BurnAmount never exceeds the balance.  With a
\* zero ratio, an empty collector or only dust there is nothing to do.
EndBlocker ==
    LET burnAmt == BurnAmount(collector, params.burnRatio) IN
    /\ phase = "deliver"
    /\ IF burnAmt = 0
       THEN UNCHANGED <<collector, cumulativeBurned, burned>>
       ELSE /\ collector' = collector - burnAmt
            /\ AddCumulativeBurned(burnAmt)
            /\ burned' = burned + burnAmt
    /\ phase' = "commit"
    /\ UNCHANGED <<params, genesisSupply, accounts, locked, feesAccount,
                   distribution, paid, recharged, otherBurned>>

\* Mutant: x/distribution is missing among the BeginBlockers.
SweepNothing == UNCHANGED <<distribution, collector>>

\* x/distribution's BeginBlocker takes what the EndBlocker left.
Sweep ==
    /\ distribution' = distribution + collector
    /\ collector' = 0

\* Every block but block 1 begins with the sweep.
BeginBlock ==
    /\ phase = "commit"
    /\ Sweep
    /\ phase' = "deliver"
    /\ UNCHANGED <<params, genesisSupply, cumulativeBurned, accounts, locked,
                   feesAccount, history>>

\* The two invariants x/fees registers with x/crisis.
ReconcileInvariant == genesisSupply - Supply = cumulativeBurned
ModuleBalanceInvariant == feesAccount = 0

\* InitGenesis snapshots the supply; the counter is not exported.
InitGenesis ==
    /\ genesisSupply' = Supply
    /\ cumulativeBurned' = 0

\* The chain is exported between two blocks and restarted where it stopped:
\* its next block begins with the sweep.
ExportAndRestart ==
    /\ phase = "commit"
    /\ InitGenesis
    /\ otherBurned' = 0
    /\ UNCHANGED <<params, balances, phase, paid, recharged, burned>>

\* An export for height zero asserts the crisis invariants and pays out what
\* has been earned of the rewards; whole tokens only, so that some may stay.
\* Block 1 of the new chain finds the collector unswept, and its EndBlocker
\* charges coins that the last one of the old chain has charged.
ZeroHeightRestart ==
    /\ phase = "commit"
    /\ ReconcileInvariant /\ ModuleBalanceInvariant
    /\ paid + recharged + collector <= MaxPaid
    /\ \E earned \in 0 .. distribution :
          /\ distribution' = distribution - earned
          /\ accounts' = accounts + earned
    /\ InitGenesis
    /\ recharged' = recharged + collector
    /\ otherBurned' = 0
    /\ phase' = "deliver"
    /\ UNCHANGED <<params, locked, collector, feesAccount, paid, burned>>

Init ==
    /\ params \in {p \in ParamChoices : Validate(p)}
    /\ accounts = GenesisSpread.accounts
    /\ locked = GenesisSpread.locked
    /\ collector = 0 /\ feesAccount = 0 /\ distribution = 0
    /\ genesisSupply = Supply
    /\ cumulativeBurned = 0
    /\ phase = "deliver"
    /\ paid = 0 /\ recharged = 0 /\ burned = 0 /\ otherBurned = 0

Next ==
    \/ \E amount \in Amounts :
          \/ PayFee(amount) \/ SendToFees(amount) \/ WithdrawRewards(amount)
          \/ Lock(amount) \/ Unlock(amount) \/ BurnLocked(amount)
    \/ \E p \in ParamChoices : UpdateParams(p)
    \/ EndBlocker
    \/ BeginBlock
    \/ ExportAndRestart
    \/ ZeroHeightRestart

Spec == Init /\ [][Next]_vars

----------------------------------------------------------------------------
\* Every balance and counter is a natural number, so that no bank call of the
\* EndBlocker can fail half way; the stored parameters are valid ones.
TypeOK ==
    /\ params \in ParamChoices /\ Validate(params)
    /\ {accounts, locked, collector, feesAccount, distribution} \subseteq Nat
    /\ {genesisSupply, cumulativeBurned} \subseteq Nat
    /\ {paid, recharged, burned, otherBurned} \subseteq Nat
    /\ phase \in {"deliver", "commit"}

\* No inflation: what is missing from the supply of the genesis baseline was
\* burned, as fees, as slashed stake or as deposits, and x/fees counted its part
\* exactly, also across restarts that move the baseline.
SupplyAccounted == genesisSupply = Supply + cumulativeBurned + otherBurned

\* A fee is charged once, at no higher ratio than governance allowed, however
\* blocks, parameter changes and restarts where the chain stopped follow each
\* other; the one exception is what a zero-height export leaves in the
\* collector, which block 1 charges once more.  Over the whole behaviour, all
\* that x/fees burned is within the largest valid ratio of the fees paid and
\* of what was charged again in this way.
BurnedWithinRatio ==
    \A r \in 0 .. Prec :
       (\A p \in ParamChoices : Validate(p) => p.burnRatio <= r) =>
          burned * Prec <= (paid + recharged) * r

----------------------------------------------------------------------------
\* The comment on ReconcileInvariant: burning by x/fees is the only uvtx sink,
\* so the supply reconciles with its counter between any two blocks.
SupplyReconciles == phase = "commit" => ReconcileInvariant
=============================================================================
