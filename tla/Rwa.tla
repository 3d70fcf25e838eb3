-------------------------------- MODULE Rwa --------------------------------
(***************************************************************************)
(* x/rwa: the registry of real-world assets, the escrow of issuer bonds,   *)
(* the rwa/{id} tokens and the restrictions on their transfer, together    *)
(* with the bank balances these operations move.                           *)
(*                                                                         *)
(* A transaction that fails leaves no trace, so the guard of an action is  *)
(* the conjunction of everything that can make its handler, or the bank    *)
(* calls it makes, return an error.  The uvtx balances of the chain are    *)
(* coins, those of the token of asset id are tokens[id].                   *)
(***************************************************************************)
EXTENDS Sums, KVStore

CONSTANTS
    Assets,         \* asset ids; the denom of id is rwa/id
    Pairs,          \* oracle pairs
    Accounts,       \* accounts with a key
    ModuleAddress,  \* the account of x/rwa
    FeeCollector,   \* the fee collector account
    Pool,           \* the account of x/distribution: the community pool
    Prec,           \* units of a LegacyDec in 1
    GenesisCoins,   \* uvtx balances at genesis
    MaxSupply,      \* bound: tokens of one asset ever minted
    Amounts,        \* bonds, notionals and transferred amounts
    Restrictions,   \* the list changes MsgUpdateRestrictions may carry
    ParamChoices    \* the RWAParams genesis and governance choose from

Holders == Accounts \cup {ModuleAddress, FeeCollector, Pool}

ASSUME RwaAssumption ==
    /\ IsFiniteSet(Accounts) /\ IsFiniteSet(Assets)
    /\ Prec \in Nat \ {0}
    /\ Amounts \subseteq Nat
    /\ MaxSupply \in 0 .. MaxUnits
    /\ {ModuleAddress, FeeCollector, Pool} \cap Accounts = {}
    /\ ModuleAddress \notin {FeeCollector, Pool} /\ FeeCollector # Pool

ASSUME GenesisAssumption ==
    /\ GenesisCoins \in [Holders -> 0 .. MaxUnits]
    /\ GenesisCoins[ModuleAddress] = 0
    /\ Weight(GenesisCoins, Holders) <= MaxUnits

\* Neither params nor list changes are validated yet.
ASSUME InputAssumption ==
    /\ \A p \in ParamChoices :
          {p.minIssuerBond, p.mintFeeRate, p.settleFeeRate} \subseteq Int
    /\ Restrictions \subseteq
          [addAllow : SUBSET Holders, delAllow : SUBSET Holders,
           addDeny : SUBSET Holders, delDeny : SUBSET Holders, allowAll : BOOLEAN]

VARIABLES
    params,     \* RWAParams
    assets,     \* 0x01: asset id -> record
    allowlist,  \* <<asset id, address>> of every allowlist entry
    denylist,   \* <<asset id, address>> of every denylist entry
    coins,      \* x/bank: uvtx balances
    tokens,     \* x/bank: balances of rwa/id
    priced,     \* x/oracle: the pairs GetPrice answers for
    donated     \* history: uvtx sent to the module account by plain transfers

vars == <<params, assets, allowlist, denylist, coins, tokens, priced, donated>>

Statuses == {"DRAFT", "ATTESTED", "ACTIVE", "SETTLED"}

AssetRecord ==
    [issuer : Accounts, pair : Pairs, status : Statuses, bond : 0 .. MaxUnits,
     notionalMinted : Nat, allowAll : BOOLEAN]

----------------------------------------------------------------------------
\* x/bank.  What a transfer, a mint and a burn do to the balances of a denom.
Moved(bal, from, to, amt) ==
    [h \in Holders |-> IF from = to THEN bal[h]
                       ELSE IF h = from THEN bal[h] - amt
                       ELSE IF h = to THEN bal[h] + amt ELSE bal[h]]

Credited(bal, h, amt) == [bal EXCEPT ![h] = @ + amt]
Debited(bal, h, amt) == [bal EXCEPT ![h] = @ - amt]

Supply(id) == Weight(tokens[id], Holders)

\* The accounts a MsgSend may name as recipient: the fee collector and the
\* distribution account are blocked, the rwa account is not.
NotBlocked == Accounts \cup {ModuleAddress}

----------------------------------------------------------------------------
\* RWAParams.Validate
ValidFeeRate(d) == 0 <= d /\ d < Prec

Validate(p) ==
    /\ p.minIssuerBond >= 0
    /\ ValidFeeRate(p.mintFeeRate)
    /\ ValidFeeRate(p.settleFeeRate)

\* floor(notional * rate): the product of an integer and a decimal is exact.
ComputeFee(notional, rate) == (notional * rate) \div Prec

IsIssuer(id, caller) == id \in DOMAIN assets /\ assets[id].issuer = caller

\* Mutant: only the sender is looked up in the lists.
CheckSenderAllowed(id, from, to) ==
    \/ ModuleAddress \in {from, to}
    \/ /\ id \in DOMAIN assets
       /\ assets[id].allowAll \/ <<id, from>> \in allowlist
       /\ <<id, from>> \notin denylist

\* Transfers from and to the module account are exempt, whoever makes them.
CheckTransferAllowed(id, from, to) ==
    \/ ModuleAddress \in {from, to}
    \/ /\ id \in DOMAIN assets
       /\ assets[id].allowAll \/ {<<id, from>>, <<id, to>>} \subseteq allowlist
       /\ {<<id, from>>, <<id, to>>} \cap denylist = {}

----------------------------------------------------------------------------
RegisterAsset(issuer, id, pair, bond) ==
    /\ id \notin DOMAIN assets
    /\ bond > 0
    /\ bond >= params.minIssuerBond
    /\ coins[issuer] >= bond
    /\ coins' = Moved(coins, issuer, ModuleAddress, bond)
    /\ assets' = Put(assets, id,
                     [issuer |-> issuer, pair |-> pair, status |-> "DRAFT",
                      bond |-> bond, notionalMinted |-> 0, allowAll |-> TRUE])
    /\ UNCHANGED <<params, allowlist, denylist, tokens, priced, donated>>

AttestAsset(issuer, id) ==
    /\ IsIssuer(id, issuer)
    /\ assets[id].status = "DRAFT"
    /\ assets[id].pair \in priced
    /\ assets' = [assets EXCEPT ![id].status = "ATTESTED"]
    /\ UNCHANGED <<params, allowlist, denylist, coins, tokens, priced, donated>>

\* Mutant: what was minted before is forgotten.
MintedRecordLast(rec, notional) ==
    [rec EXCEPT !.status = "ACTIVE", !.notionalMinted = notional]

MintedRecord(rec, notional) ==
    [rec EXCEPT !.status = "ACTIVE", !.notionalMinted = @ + notional]

\* The fee goes straight to the fee collector.  MintCoins fails when the
\* supply would not fit a math.Int, which is what the bound stands for.
MintRWA(issuer, id, notional) ==
    LET fee == ComputeFee(notional, params.mintFeeRate) IN
    /\ IsIssuer(id, issuer)
    /\ assets[id].status \in {"ATTESTED", "ACTIVE"}
    /\ notional > 0
    /\ coins[issuer] >= fee
    /\ Supply(id) + notional <= MaxSupply
    /\ coins' = Moved(coins, issuer, FeeCollector, fee)
    /\ tokens' = [tokens EXCEPT ![id] = Credited(@, issuer, notional)]
    /\ assets' = [assets EXCEPT ![id] = MintedRecord(@, notional)]
    /\ UNCHANGED <<params, allowlist, denylist, priced, donated>>

\* SendRestriction runs inside every bank transfer of a token.
SendTokens(id, from, to, amount) ==
    /\ amount > 0
    /\ CheckTransferAllowed(id, from, to)
    /\ tokens[id][from] >= amount
    /\ tokens' = [tokens EXCEPT ![id] = Moved(@, from, to, amount)]

\* The recipient may be any account, a blocked one too.
TransferRWA(sender, recipient, id, amount) ==
    /\ id \in DOMAIN assets
    /\ assets[id].status = "ACTIVE"
    /\ SendTokens(id, sender, recipient, amount)
    /\ UNCHANGED <<params, assets, allowlist, denylist, coins, priced, donated>>

\* MsgSend of a token: no check of the status.
BankSendTokens(sender, recipient, id, amount) ==
    /\ recipient \in NotBlocked
    /\ SendTokens(id, sender, recipient, amount)
    /\ UNCHANGED <<params, assets, allowlist, denylist, coins, priced, donated>>

\* MsgSend of uvtx.
BankSendCoins(sender, recipient, amount) ==
    /\ recipient \in NotBlocked
    /\ amount > 0
    /\ coins[sender] >= amount
    /\ coins' = Moved(coins, sender, recipient, amount)
    /\ donated' = IF recipient = ModuleAddress THEN donated + amount ELSE donated
    /\ UNCHANGED <<params, assets, allowlist, denylist, tokens, priced>>

\* The additions to a list are made before the deletions.
UpdateRestrictions(issuer, id, r) ==
    /\ IsIssuer(id, issuer)
    /\ assets[id].status # "SETTLED"
    /\ allowlist' = (allowlist \cup ({id} \X r.addAllow)) \ ({id} \X r.delAllow)
    /\ denylist' = (denylist \cup ({id} \X r.addDeny)) \ ({id} \X r.delDeny)
    /\ assets' = [assets EXCEPT ![id].allowAll = r.allowAll]
    /\ UNCHANGED <<params, coins, tokens, priced, donated>>

\* Mutant: the issuer surrenders what it happens to hold.
SurrenderedHeld(id, issuer) == tokens[id][issuer]

\* What the issuer must hold of the token, surrenders and sees burned.
Surrendered(id, issuer) == assets[id].notionalMinted

\* The issuer pays the fee before its bond comes back.  The record keeps the
\* amount of the bond.
SettleRWA(issuer, id) ==
    LET fee == ComputeFee(assets[id].notionalMinted, params.settleFeeRate)
        bond == assets[id].bond IN
    /\ IsIssuer(id, issuer)
    /\ assets[id].status = "ACTIVE"
    /\ coins[issuer] >= fee
    /\ tokens[id][issuer] >= Surrendered(id, issuer)
    /\ coins[ModuleAddress] >= bond
    /\ coins' = Moved(Moved(coins, issuer, FeeCollector, fee),
                      ModuleAddress, issuer, bond)
    /\ tokens' = [tokens EXCEPT ![id] = Debited(@, issuer, Surrendered(id, issuer))]
    /\ assets' = [assets EXCEPT ![id].status = "SETTLED"]
    /\ UNCHANGED <<params, allowlist, denylist, priced, donated>>

\* Mutant: a disputed asset can be slashed again.
SlashableAgain == {"ACTIVE", "SETTLED"}

\* The statuses in which governance can slash the bond.
SlashableStatuses == {"ACTIVE"}

\* Executed by x/gov.  The tokens stay with their holders.
SlashBond(id) ==
    LET bond == assets[id].bond IN
    /\ id \in DOMAIN assets
    /\ assets[id].status \in SlashableStatuses
    /\ coins[ModuleAddress] >= bond
    /\ coins' = Moved(coins, ModuleAddress, Pool, bond)
    /\ assets' = [assets EXCEPT ![id].status = "SETTLED", ![id].bond = 0]
    /\ UNCHANGED <<params, allowlist, denylist, tokens, priced, donated>>

\* Mutant: parameters are stored without being validated.
SetParamsUnchecked(p) == params' = p

SetParams(p) ==
    /\ Validate(p)
    /\ params' = p

UpdateParams(p) ==
    /\ SetParams(p)
    /\ UNCHANGED <<assets, allowlist, denylist, coins, tokens, priced, donated>>

\* x/oracle publishes a price, or the price of a pair goes stale.
OraclePrices ==
    /\ \E S \in SUBSET Pairs : S # priced /\ priced' = S
    /\ UNCHANGED <<params, assets, allowlist, denylist, coins, tokens, donated>>

----------------------------------------------------------------------------
\* GenesisState.Validate on what ExportGenesis writes: params, all assets and
\* all list entries.
ExportedGenesisValid ==
    /\ Validate(params)
    /\ \A id \in DOMAIN assets :
          assets[id].status \in {"ATTESTED", "ACTIVE"} =>
             assets[id].bond >= params.minIssuerBond
    /\ \A e \in allowlist \cup denylist : e[1] \in DOMAIN assets

----------------------------------------------------------------------------
Init ==
    /\ params \in {p \in ParamChoices : Validate(p)}
    /\ assets = EmptyStore
    /\ allowlist = {} /\ denylist = {}
    /\ coins = GenesisCoins
    /\ tokens = [id \in Assets |-> [h \in Holders |-> 0]]
    /\ priced = {}
    /\ donated = 0

Next ==
    \/ \E issuer \in Accounts, id \in Assets, pair \in Pairs, bond \in Amounts :
          RegisterAsset(issuer, id, pair, bond)
    \/ \E issuer \in Accounts, id \in Assets :
          AttestAsset(issuer, id) \/ SettleRWA(issuer, id)
    \/ \E issuer \in Accounts, id \in Assets, notional \in Amounts :
          MintRWA(issuer, id, notional)
    \/ \E sender \in Accounts, recipient \in Holders, id \in Assets, amount \in Amounts :
          \/ TransferRWA(sender, recipient, id, amount)
          \/ BankSendTokens(sender, recipient, id, amount)
    \/ \E sender \in Accounts, recipient \in Holders, amount \in Amounts :
          BankSendCoins(sender, recipient, amount)
    \/ \E issuer \in Accounts, id \in Assets, r \in Restrictions :
          UpdateRestrictions(issuer, id, r)
    \/ \E id \in Assets : SlashBond(id)
    \/ \E p \in ParamChoices : UpdateParams(p)
    \/ OraclePrices

Spec == Init /\ [][Next]_vars

----------------------------------------------------------------------------
\* The bond an asset has in escrow, and whether it went back to the issuer:
\* slashing clears the amount in the record, settling does not.
Live(id) == id \in DOMAIN assets /\ assets[id].status # "SETTLED"
LiveBonds == [id \in Assets |-> IF Live(id) THEN assets[id].bond ELSE 0]
Redeemed(id) ==
    id \in DOMAIN assets /\ assets[id].status = "SETTLED" /\ assets[id].bond > 0

\* Every variable has its type; the stored parameters are valid ones.
TypeOK ==
    /\ params \in ParamChoices /\ Validate(params)
    /\ IsStore(assets, Assets, AssetRecord)
    /\ allowlist \subseteq Assets \X Holders
    /\ denylist \subseteq Assets \X Holders
    /\ coins \in [Holders -> 0 .. MaxUnits]
    /\ tokens \in [Assets -> [Holders -> 0 .. MaxUnits]]
    /\ priced \subseteq Pairs
    /\ donated \in Nat

\* The escrow is exact: the module account holds the bonds of the assets that
\* are not settled and what was sent to it by plain transfers, nothing else.
\* No bond is paid out twice or from the bonds of other assets, and no fee is
\* left in the account.  Every asset not settled has a bond.
BondsEscrowed ==
    /\ coins[ModuleAddress] = Weight(LiveBonds, Assets) + donated
    /\ \A id \in Assets : Live(id) => assets[id].bond > 0

\* The tokens in circulation, over all holders, are the notional that was
\* minted, before the first mint none, and none after the bond went back.
SupplyTracksNotional ==
    \A id \in Assets :
       Supply(id) = IF id \in DOMAIN assets /\ ~ Redeemed(id)
                    THEN assets[id].notionalMinted ELSE 0

\* An issuer has its bond back only when nobody, the module account and the
\* fee collector included, still holds a token of the asset.
RedeemedInFull ==
    \A id \in Assets, h \in Holders : Redeemed(id) => tokens[id][h] = 0

\* Whoever an asset's lists bar neither receives nor spends its tokens, by
\* whatever message: except for tokens given to the module account and those
\* the issuer mints or surrenders.
Barred(id, h) ==
    /\ h # ModuleAddress
    /\ id \in DOMAIN assets
    /\ <<id, h>> \in denylist \/ (~ assets[id].allowAll /\ <<id, h>> \notin allowlist)

BarredHoldersFrozen ==
    [][\A id \in Assets, h \in Holders :
         Barred(id, h) /\ tokens'[id][h] # tokens[id][h] =>
            \/ tokens'[id][ModuleAddress] > tokens[id][ModuleAddress]
            \/ IsIssuer(id, h) /\ Weight(tokens'[id], Holders) # Supply(id)]_vars

\* x/rwa implements the abstract lifecycle: no other change of stage, escrow
\* or supply, however the operations on several assets interleave.
Stage(id) ==
    IF id \notin DOMAIN assets THEN "NONE"
    ELSE IF assets[id].status # "SETTLED" THEN assets[id].status
    ELSE IF assets[id].bond > 0 THEN "RETURNED" ELSE "FORFEITED"

Lifecycle == INSTANCE AssetLifecycle WITH
    stage <- [id \in Assets |-> Stage(id)],
    held <- LiveBonds,
    outstanding <- [id \in Assets |-> Supply(id)],
    escrow <- coins[ModuleAddress] - donated,
    forfeited <- coins[Pool] - GenesisCoins[Pool]

ImplementsLifecycle == Lifecycle!Spec

----------------------------------------------------------------------------
(***************************************************************************)
(* What the repository says of x/rwa and the code does not do.             *)
(***************************************************************************)

\* The design of the parameters and of genesis: raising min_issuer_bond
\* concerns new registrations only, and an exported state can be imported.
ExportImportable == ExportedGenesisValid
=============================================================================
