# Vertix in TLA+

Vertix is a Cosmos-SDK (v0.50) proof-of-stake chain with three modules of its
own: `x/oracle`, in which validators report prices that are aggregated once per
vote window; `x/rwa`, a registry of bonded real-world assets and their tokens;
and `x/fees`, which burns a share of the fees. A sidecar, `vertix-feeder`, runs
beside each validator and submits its prices. This directory holds TLA+ models
of the three modules and of the sidecar, TLC runs on small instances, and TLAPS
proofs of their main properties for every value of the constants.

## 1. Inventory

| Component | State | Operations | Hard behaviour |
|---|---|---|---|
| `x/oracle` feeds and slashing | params (0x06), feeds (0x01), prices (0x02), miss and total counters (0x04, 0x05) | `SubmitFeed`, `UpdateParams`, `EndBlocker`, genesis | the bonded set changes between a feed and its aggregation; governance moves the window boundaries; two different medians; rounding |
| `x/oracle` delegations | feeder to validator (0x07), validator to feeder (0x08) | `SetFeeder` | the two indexes are written by different rules (0x07 entries are never removed) and rebuilt on restart |
| `x/oracle` TWAP and staleness | entries by pair and time (0x03) | `AppendTWAPEntry`, prune, `GetTWAP`, `GetAggregatedPrice` | two stores with two staleness checks, gaps longer than the retention, restarts that keep the price and drop the history, durations that overflow |
| `x/rwa` | params, asset records, allow and deny lists; bank balances of uvtx and of `rwa/{id}` | register, attest, mint, transfer, update restrictions, settle, slash, params, genesis; the send restriction inside every bank transfer | one account holds all bonds; tokens circulate outside the module; settle races slash |
| `x/fees` | params, genesis supply, cumulative burned | `EndBlocker`, `UpdateParams`, genesis, two crisis invariants | three bank and store calls whose errors are only logged; other burners of uvtx; restarts move the baseline |
| feeder sidecar | price cache, last window, account sequence | price loop, submit loop, broadcaster, cross-source median | two goroutines and a remote node; lost answers, retries, stale heights, sequence drift, crashes, lost mempools |
| `app` | order of begin- and end-blockers, module accounts, blocked addresses, export | wiring, zero-height export | the order decides which parameters and powers an end-blocker sees |
| `x/staking`, `x/bank`, `x/gov`, `x/distribution` | bonded set and powers, balances, proposals | external libraries | modelled from the way the code above uses them |

How they interact. All modules run in one deterministic state machine; what is
concurrent is the order of transactions, the governance proposals that
execute in an end-blocker, the validator-set changes of x/staking and operator
restarts. In a block: x/distribution sweeps the fee collector; transactions run;
then x/gov (which may change parameters), x/staking (which fixes the bonded set),
x/oracle, x/rwa (no-op) and x/fees. x/rwa reads oracle prices in `AttestAsset`
and sends its fees to the collector, where x/fees finds them. Oracle slashes
burn stake through x/staking. The feeder is a process of its own: it reads the
height, the account and once `vote_window` over gRPC, and sends its feeds as
transactions whose outcome beyond `CheckTx` it never asks for.

What makes each part correct:

- oracle: a price is decided by the majority of the submitted power, never by
  feeds of an earlier window and never zero; nobody who reports diligently or
  with the majority is slashed; the delegation indexes agree.
- TWAP: an average of the prices that prevailed in the window, available whenever
  the price itself is.
- feeder: one accepted batch per window while it can know the outcomes, and after
  any faults the next quiet window is fed.
- rwa: the escrow account always covers the live bonds, a bond is paid out once
  and only against all tokens of the asset, barred holders cannot trade.
- fees: no inflation, exact accounting of what was burned, and no fee charged twice
  (but for what a zero-height export leaves in the collector).

The hazards, each with its line and the properties that cover it, are listed in
`PROJECT.json`.

## 2. Modules

| Module | Models | Proofs |
|---|---|---|
| `KVStore` | a store as a partial function | `LibraryProofs` |
| `Sums` | sums of powers and amounts | `LibraryProofs` |
| `Aggregation` | `x/oracle/keeper/aggregate.go`, `LegacyDec.Quo` | `AggregationProofs` |
| `AggregationScan` | the sort, sum and scan loops of the same file, step by step | `AggregationScanProofs` |
| `FeederMedian` | `feeder/feeder/aggregate.go` | `AggregationScanProofs` |
| `Oracle` | `x/oracle` with x/staking and x/gov around it | `OracleProofs` |
| `OracleHistory` | `Oracle` with a history of misses and slashes | `OracleProofs` |
| `MCOracle`, `MCOracleMiss` | constants | |
| `Twap` | price, age and history of one pair: `x/oracle/keeper/twap.go`, `GetAggregatedPrice` | `TwapProofs` |
| `Feeder` | the sidecar, and the node as it sees it | `FeederProofs` |
| `MCFeeder` | constants | |
| `AssetLifecycle` | the abstract promise of x/rwa | refined by `Rwa` |
| `Rwa` | `x/rwa` with the balances it moves | `RwaProofs` |
| `MCRwa` | constants | |
| `Fees` | `x/fees` with the other movements of uvtx | `FeesProofs` |
| `MCFees` | constants | |

Conventions. An action is one message handler, end-blocker or restart. A
message that fails is rolled back by the SDK, so a handler's error paths are the
guard of its action. Decimals are integers counting units of `1/Prec`, with the
rounding of `LegacyDec` (`Quo` truncates at twice the precision, then rounds
half to even; `Mul` of an integer by a decimal is exact). Operators marked
*Mutant* are deliberately wrong variants of the definition that follows them;
each is used to confirm that a property notices the mistake, and nothing else
refers to them.

`Sums.Weight(w, S)`, the sum of `w` over `S`, is the number of unit tokens
`<<x, i>>` with `i <= w[x]`. It needs no recursion, so facts about sums follow
from facts about finite sets. `MaxUnits` bounds a single weight: consensus power
is an int64, a balance a 256-bit `math.Int`, and a price times a duration has to
fit a `LegacyDec`.

**Oracle.** The variables are the stores under their prefixes, x/staking's
status and `LastValidatorPower`, the slash events of the last end-blocker,
and `height` and `phase`. `phase` enforces the order of `app_config.go`:
transactions, governance, staking, oracle, commit. `StakingEndBlock` is external
and nondeterministic: any power map of `PowerMaps`, validators may leave, rejoin
and (once unbonded) be removed. `CloseWindow` is the whole body of the
end-blocker at a boundary: valid feeds, quorum, weighted median, outliers against
the unweighted median, miss accounting, slashes and the deletion of all feeds.
`ExportAndRestart` exports between two blocks and imports: feeds and counters
are dropped and 0x07 is rebuilt from 0x08. Restarts keep the height (the export
is taken at the last height plus one); the check of the prices' block times
in `InitGenesis` is in `Twap`, which has the block time.

**Twap.** One pair, since no key or loop mixes pairs. Whether a window ends with a
price, and with which, is `Oracle`'s subject and a free choice here; block times
are any increasing sequence, so gaps longer than the retention happen. The
EndBlocker appends and prunes in one action, and only when it publishes.
`published` is a history variable: every entry since the genesis or restart,
never pruned. `GetAggregatedPrice` and `GetTWAP` are operators on the state, asked
for all `Windows` in every state. `AsDuration` wraps as
`time.Duration(seconds) * time.Second` does: a valid `max_price_age` of more than
292 years makes every price stale.

**Feeder.** The variables are the sidecar's own (cache, sequence, `voteWindow`,
`lastWindow`, and `job`, where the submit loop is inside `maybeSubmit`) and the
chain's (height, parameters, committed sequence, the account's pending
transactions, the pairs fed in the open window). A gRPC call is two or three steps: the
request is sent, the node handles it, the answer is received; blocks, governance
and faults come between. Of a price only whether it is fresh and positive is
kept. Faults: the connection breaks before or after the node handled the request,
`CheckTx` refuses for another reason, the node restarts and loses its mempool,
the process crashes, providers fail or disagree, quotes expire. Two history
variables say what the feeder can know. `undisturbed`: no acceptance was ever hidden
from it, by a lost answer or its own crash. `resynced`: it has read the account's
sequence with nothing pending, at its start or after a refusal, and since then no
acceptance was hidden and no pending transaction lost; a read while transactions are
pending clears it, since `refreshAccount` sees the committed sequence only.
`MaybeSubmit` reads the cache in one step where the code reads it pair by pair:
fetches of different pairs commute and come in any order, so nothing is lost. A request that
the node receives is handled before the next one of the feeder; the validator
stays bonded and the feeder authorised (a parameter choice that accepts no pair
has the same effect on a batch).

**FeederMedian** gives `Median`, `DropDeviating` and `CrossSourceMedian` by sets, on
the decimals of `Aggregation`.

**Rwa.** The variables are the records and lists, the balances of uvtx (`coins`)
and of each token (`tokens`), and `priced`, the pairs for which the oracle has a
fresh price, which changes arbitrarily. Every token transfer, by `MsgTransferRWA`
or by a plain bank send, goes through `CheckTransferAllowed` as the send
restriction does. `donated` is a history variable: uvtx sent to the module
account by a plain transfer, which its address allows. The index of assets by
issuer (0x02) serves queries only and is left out. An export holds the whole
state of the module, so a restart is the identity when the export is valid;
`ExportedGenesisValid` says when it is.

**AssetLifecycle** states what x/rwa promises about one asset and the escrow,
without accounts, fees, parameters or lists. The refinement mapping takes the
stage from status and bond (a settled record with a bond was returned, one
without was forfeited), the escrow from the module balance less what was
donated, and what is forfeited from the community pool.

**Fees.** The uvtx balances by role, the module's two counters, and four history
variables. `locked` stands for the two pools of x/staking and the deposits of x/gov, the
accounts from which somebody other than x/fees burns uvtx (`BurnLocked`: a slash, or a
vetoed proposal). Two restarts are modelled: one that continues at the height of the
export, and one for height zero, which asserts the crisis invariants, pays out
rewards and starts with a block 1 that x/distribution does not sweep. `paid` and
`burned` are totals that no restart resets; `recharged` is what zero-height restarts
found in the collector, which block 1 charges although the last EndBlocker of the old
chain did; `otherBurned` counts from the baseline, as the module's own counter does.

## 3. Runs

| Run | Question | Bounds | Distinct states |
|---|---|---|---|
| `AggregationScan` | do the loops compute the medians `Oracle` uses; how far is the rounded quorum from the exact one; who decides a feeder's median | up to 4 feeds or sources, 3 prices, weights 1..3 | 65 965 |
| `OracleAggregation` | what is published, who is an outlier, do the delegation indexes agree | 3 validators, 2 power maps (uneven, and a tie after one left), 3 prices, 2 accounts to delegate to (both operators' own), windows of 2, 4 blocks, restarts | 1 010 337 |
| `OracleWindows` | which feeds are aggregated and who is slashed for missing | 5 parameter choices (one invalid), 2 validators of which one leaves, 5 blocks, restarts | 934 292 |
| `RwaEscrow` | escrow, supply and refinement | 2 issuers, 2 assets, amounts 1 and 2, 4 coins, 2 tokens per asset | 151 714 |
| `RwaRestrictions` | restricted transfers, redemption | 1 asset, 3 accounts, 3 tokens, 5 list changes | 155 536 |
| `Feeder` | sequence, windows, and whether feeds arrive | 2 pairs (one whose sign is unchecked), 2 attempts, 2 parameter choices, 2 blocks with faults and then a quiet window | 220 628 |
| `Twap` | what is kept, averaged and refused | 3 prices, 7 block times, retention 3, windows 1 to 4 and one that overflows, 4 values of `max_price_age` (one invalid, one that overflows) | 115 689 |
| `FeesSplit` | burning and accounting | 8 coins, ratios 0, 4/10, 7/10 and two invalid ones, 9 coins charged | 1 677 462 |

Why the bounds are enough. Three validators are the fewest with a majority by
count that is a minority by power. The prices 100, 104 and 110 with a threshold
of 5 % have one pair within and two beyond it. Five blocks with
windows of 1 and 2 cover a change of every parameter before, at and after a
boundary, and two full miss windows.
`Prec = 1000` gives oracle ratios three digits instead of eighteen; no parameter
chosen lies on a ratio that the two would decide differently, and
`AggregationScan` tests fractions that are one unit apart. Rates of half a coin
per token (`Prec = 2` in `Rwa`) make fees round down to zero and make an issuer
run out of coins; `Prec = 10` in `Fees` leaves dust with every amount, and nine coins
charged are enough to burn a share of six, restart for height zero and charge the
rest again. Two
assets sharing one escrow account are what it takes to pay one bond from the
other; they are interchangeable, so they are a symmetry set. `MaxHeight`,
`MaxSupply` and `MaxPaid` cap the state space and appear in guards;
`MaxSupply` also stands for the overflow check of `MintCoins`.
In `Feeder` faults happen below `MaxHeight` blocks: two are enough to accept, lose,
refuse and repeat a batch, to restart either side and to move governance between
any two steps; the window that begins at `MaxHeight` is quiet and lasts as long as
the feeder needs, so the liveness properties speak of a window that is long
enough for its retries. In `Twap` seven block times with a retention of three
allow two prunings and a gap that outlasts the retention.

Deadlock is checked in every run but the two of `Twap`, which stop at `MaxTime`.
No other run ends because the system stopped: a chain at `MaxHeight` still takes
transactions, and restarts are always possible between blocks.

Properties (the comments in the modules state them in full):

- `PublishedWithinMajority`: the published price lies within the prices of any
  set of validators with more than half of the submitted power (plus one unit
  if it is odd: `half` is an integer division). `PublishedPriceReported`: it is
  one that was reported, so never the fall-through zero.
- `AgreeingMajorityNotSlashed`: more than half of the reporters by count who
  agree are never outliers, however little power they have.
- `FeedsOfOpenWindow`: no feed outlives its window, whatever governance does to
  `vote_window`. `CountersWithinWindow`: no full miss window is left unevaluated.
- `DiligentNeverMissSlashed`, `MissSlashesApart`: whoever fed every listed pair at
  every close is never slashed for missing; before such a slash, since genesis or
  since the last one, `miss_window_size` windows were closed with the validator
  bonded.
- `FeederIndexAgreement`: 0x08 never names a feeder that 0x07 binds elsewhere.
- `BondsEscrowed`, `SupplyTracksNotional`, `RedeemedInFull`,
  `BarredHoldersFrozen`, `ImplementsLifecycle` for x/rwa.
- `SupplyAccounted` for x/fees: what is missing from the baseline supply was burned, and
  x/fees counted its part. `BurnedWithinRatio`: over a whole behaviour, restarts
  included, all that x/fees burned is within the largest ratio governance allows of the
  fees paid plus `recharged`. So blocks, parameter changes and restarts at the export's
  height charge no fee twice, and a zero-height restart exactly those in the collector.
- `WindowRetained`, `TwapFreshAsPrice`, `TwapWithinWindow`, `TwapIsMean`: the history
  keeps 24 hours; a TWAP is available exactly when the price is (an import aside,
  which has no history); it lies between the lowest and highest price prevailing in
  the window; it is the mean over time from the oldest entry collected.
- `SourcesDecide`: sources that agree within the band and are a majority bound the
  feeder's median, whatever the others answer.
- `ResyncedInSync`: after any lost answer, lost mempool or crash, from the next read of the
  account with nothing pending on, the feeder's sequence is the one `CheckTx` expects,
  until the next such fault or a read while transactions are pending.
- `UndisturbedOncePerWindow`: until an acceptance is hidden from the feeder, no window gets
  two accepted batches, whatever is refused, resynchronised or lost with a mempool. The
  comment on `SubmitLoop` ("exactly once per vote window") holds no further: a batch
  whose answer is lost is sent again, and one lost with a node's mempool is not.
- `MaybeSubmitReturns`, `QuietWindowFed`, `HealthyPairFed`: liveness of the feeder. After
  any faults, a quiet window is fed, with every pair that stays fresh in it,
  provided that the feeder's `vote_window` is the chain's (it is read once, at
  start-up) and all configured pairs are accepted (a batch is one transaction).

Fairness. `Feeder` assumes weak fairness of the two loops (each is a goroutine and
takes no lock across a call), of the restart of a dead process (a service manager
does that), of the node's answers, and of blocks that contain the pending
transactions. Providers succeed and connections hold only in the quiet window.
gRPC calls have no deadline of their own in the code; a call that neither
answers nor breaks would stop the submit loop for good, which the fairness of
the node's answers rules out.

The on-chain modules
make no promise of progress (an asset without a price stays DRAFT with its bond
in escrow; an ACTIVE one cannot be settled while somebody keeps a token, or
after a token reached the module account, which never returns it).

### Where the code and the repository's words differ

Four runs end in a counterexample by intention:

- `OracleExportImportable`: the delegation of a removed validator makes
  `InitGenesis` panic on the exported state, as does the price of a de-listed pair.
- `TwapLeadingClamp`: the entry before the window counts from its own time on, not
  from the start of the window as the design and two comments say.
- `RwaExportImportable`: raising `min_issuer_bond` makes the exported state
  invalid, although the design says it concerns new registrations only.
- `FeesReconcile`: the reconcile invariant takes x/fees for the only burner of
  uvtx; one slash, or a vetoed deposit, breaks it for good, and the export for height zero, which
  asserts it, panics.

Met while modelling, visible in the models, without a run of their own:
`SetFeeder` demands a bonded validator where the phase-1 design (line 330) says
it need not be; the comment on rwa's `BondInvariant` says the module balance
equals the live bonds while the code checks that it is not less (a plain
transfer makes it more, see `donated`); a plain transfer to the account of
x/fees breaks `ModuleBalanceInvariant` (`SendToFees`); de-listing a pair leaves its
price behind and breaks `PricesInvariant`, registered with x/crisis; a validator
may name another operator's own account as its feeder, which then serves both,
where the phase-1 design (line 331) says a feeder serves at most one; the shipped
feeder configurations demand two providers (`min_providers: 2`) while `VTX:USD`,
which "Static bootstraps", has one, so that `CrossSourceMedian` never prices it and
`Config.Validate` does not object (`Feeder.Covered`); a refusal that reaches the feeder
while its earlier batch is pending makes `refreshAccount` replace a correct local
sequence by the committed one, and every further attempt is refused until a block
contains the batch (`ReceiveRejected`, the case `resynced` excludes); after a zero-height
export, block 1 burns a second share of what the last block left in the fee collector
(with a ratio of 7/10: of 6 coins paid 4 are burned, and of the remaining 2 another
one), because its EndBlocker does not know what was charged and x/distribution does
not sweep in block 1 (`ZeroHeightRestart`, counted by `recharged`).

## 4. Proofs

All proofs are checked by TLAPS for every set of validators, accounts and
assets, every precision and every parameter choice, from the named assumptions
of the modules (finiteness, distinct addresses, parameters that are integers).
Every safety property that a passing run checks is also a theorem.

**Library.** The provers cannot instantiate an induction principle, so an induction
over a finite set is done by its least counterexample: `NatLeast` gives every
non-empty set of naturals a least member, `SubsetInduction` draws from it that a
family of subsets closed under adding a member is everything. Sums of scaled
weights (`WeightScaled`) and over a set cut into blocks (`WeightBlocks`) follow from
it. `AggregationProofs` adds the arithmetic of `LegacyDec`: `QuoBetween` (a quotient lies
between the integers its exact value lies between) and `QuoError` (it is off by less
than a unit, and never above by more than half of one).

**Medians.** `LoopInv` says what each loop of `aggregate.go` has done after `i - 1`
iterations: the running sum is the weight of a prefix of the sorted entries, and in
the scan no prefix before reached half. An order-free median is what the scan
stops at because a prefix of the sorted entries lies between the entries below a
price and those up to it. `SortNeverBlocked` shows that an order of the comparison
function always exists. `SourcesDecideCorrect` rests on `SortedBetween`: the k-th
lowest quote lies within the range of any k sources that leave out fewer than k.

**Oracle.** `TypeOK` is inductive and carries `FeederIndexAgreement` and
`CountersWithinWindow`. `FeedsOfOpenWindow` needs the strengthening `WindowInv`,
which adds the order of the block (`BlockOrder`): in the commit phase of a
boundary the window is closed, and slash events exist only then. The action
properties `PublishedWithinMajority` and `AgreeingMajorityNotSlashed` follow from
`PriceSteps` (only `CloseWindow` publishes) and from lemmas of
`AggregationProofs`: the median is the price of some entry, and the entries at
or below it, and those at or above it, each weigh about half, so they intersect
every majority.

`DiligentNeverMissSlashed` and `MissSlashesApart` are about `OracleHistory`, whose steps
are `Oracle`'s (`HistImplements`). `HistInv` relates the miss counters to the history
(`MissHistory`): a validator with a miss counted was at fault at some close, and its
window counter is at most the number of closes since its last slash. Both
properties need it at the close, where the counters have already been
incremented and not yet been reset.

**Rwa.** The inductive invariant `Inv` is `TypeOK`, `BondsEscrowed`,
`SupplyTracksNotional`, with `CoinsConserved` (uvtx is only moved, hence no
balance outgrows `MaxUnits`) and `SupplyBounded`. It is needed as a whole: that
settling does not touch other bonds follows from the exact escrow, and that no
token is left follows from the supply being the recorded notional.
`RedeemedInFull`, `BarredHoldersFrozen` and the refinement
`Spec => Lifecycle!Spec` follow from it, action by action.

**Fees.** `BurnedWithinRatio` is not inductive: it forgets the fees still in the
collector. `Charged` adds that while transactions run, what was ever burned is
covered by the charges (`paid + recharged`) that have *left* the collector; the sweep
before each block is what restores it, and a zero-height restart restores it only
by counting the collector's coins as charged again.

**Twap.** `IInv` adds to the types and to `WindowRetained` that the stored price, if it
was published since the last restart, is the newest entry of the history
(`NewestIsPrice`). Then both staleness checks look at the same time whatever
window is asked for, since the newest entry is always collected; that the total
weight of two entries is never zero follows from the order of their times. The
value of a TWAP needs one more conjunct, `OldestDropped`: pruning leaves all that was
published from some time on. So an entry collected prevails until the next one
(`EntryPrevails`), the times from the oldest entry until now are cut into one block per
entry (`BlocksSplit`), and the weighted sum is the sum of what prevailed (`TwapSums`);
`QuoError` turns that into `TwapIsMean`. For `TwapWithinWindow` every entry collected is
shown to prevail at a time of the window, the one from before it at its start
(`CollectedSeen`), and `QuoBetween` keeps the quotient within their range.

**Feeder.** `IInv` adds to `ResyncedInSync` that a process that is down is in no call
(`DownIdle`), so that only a running feeder's request is answered, and `WindowsAgree`: a
call is never for `lastWindow`, and between calls, while no acceptance was hidden,
`lastWindow` is the window of the last accepted batch. `UndisturbedOncePerWindow` follows
for every step; it does not need the sequences to agree.

Only model-checked: the liveness of the feeder (`MaybeSubmitReturns`, `QuietWindowFed`,
`HealthyPairFed`), since fairness is out of the prover's reach; that no specification
deadlocks, which is about `ENABLED`; and the counterexample runs.

## 5. Not modelled

What x/distribution does with rwa tokens that were sent to the fee collector: its
BeginBlocker moves all denominations on, through the send restriction, which rejects
the move for a collector that is barred; in `Rwa` they stay with the collector. Slash
rates and the tokens a slash costs a validator (so that several slashes of one
validator in one block are counted, not summed); the resets of heights in
x/staking and x/slashing by a zero-height export; gas, fees and signatures of the
feeder's transactions (with `gas: auto`, `BuildUnsignedTx` is called without a
simulation); HTTP and JSON in the price providers; parsing of configuration
files; query servers other than prices, CLI, IBC, dependency injection,
simulation and load-test clients, generated code; names, descriptions and events.
Generated protobuf code is by far the largest part of the repository's lines and
has no behaviour of its own to model.

## 6. Plan

1. `Chain`: `Oracle` and the feeders composed, so that a validator with a healthy
   feeder is never miss-slashed; and `Rwa` reading the prices of `Twap` instead of
   `priced`.
2. Proofs: what a `Chain` composition would need, first that a batch accepted in a
   window makes its validator diligent in it.

Runs are kept few, one per question; a new component's questions join an
existing run where the instances agree.
