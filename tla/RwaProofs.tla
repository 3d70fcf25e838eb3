----------------------------- MODULE RwaProofs -----------------------------
(***************************************************************************)
(* Proofs about Rwa, for every set of assets and accounts, every amounts   *)
(* and every parameters.                                                   *)
(*                                                                         *)
(* The inductive invariant is the type invariant with the conservation of  *)
(* uvtx (so that no balance outgrows MaxUnits), the exact escrow and the   *)
(* supply of every token.                                                  *)
(***************************************************************************)
EXTENDS Rwa, LibraryProofs

\* uvtx is neither created nor destroyed by x/rwa.
CoinsConserved == Weight(coins, Holders) = Weight(GenesisCoins, Holders)

\* No token has a larger supply than a balance can hold.
SupplyBounded == \A id \in Assets : Supply(id) <= MaxSupply

Inv ==
    /\ TypeOK /\ CoinsConserved
    /\ BondsEscrowed
    /\ SupplyTracksNotional /\ SupplyBounded

Amount == 0 .. MaxUnits

----------------------------------------------------------------------------
\* Finitely many accounts hold balances.
LEMMA HoldersFinite == IsFiniteSet(Holders)
<1>1. IsFiniteSet({ModuleAddress}) /\ IsFiniteSet({FeeCollector}) /\ IsFiniteSet({Pool})
  BY FS_Singleton
<1>2. IsFiniteSet({ModuleAddress} \cup {FeeCollector})
  BY <1>1, FS_Union
<1>3. IsFiniteSet({ModuleAddress} \cup {FeeCollector} \cup {Pool})
  BY <1>1, <1>2, FS_Union
<1>4. IsFiniteSet(Accounts \cup ({ModuleAddress} \cup {FeeCollector} \cup {Pool}))
  BY <1>3, FS_Union, RwaAssumption
<1>5. Holders = Accounts \cup ({ModuleAddress} \cup {FeeCollector} \cup {Pool})
  BY DEF Holders
<1> QED BY <1>4, <1>5

\* A transfer between balances that fit keeps the sum and the fit.
LEMMA MovedType ==
  ASSUME NEW bal \in [Holders -> Amount], Weight(bal, Holders) <= MaxUnits,
         NEW from \in Holders, NEW to \in Holders,
         NEW amt \in Nat, bal[from] >= amt
  PROVE  /\ Moved(bal, from, to, amt) \in [Holders -> Amount]
         /\ Weight(Moved(bal, from, to, amt), Holders) = Weight(bal, Holders)
<1> DEFINE new == Moved(bal, from, to, amt)
           mid == [h \in Holders |-> IF h = from THEN bal[h] - amt ELSE bal[h]]
<1>1. CASE from = to
  <2>1. new = bal
    BY <1>1 DEF Moved
  <2> QED BY <2>1
<1>2. CASE from # to
  <2>1. bal[from] + bal[to] <= Weight(bal, Holders)
    BY <1>2, HoldersFinite, WeightPair DEF Amount
  <2>2. Weight(bal, Holders) \in Nat
    BY HoldersFinite, WeightType
  <2>3. bal[to] + amt \in Amount /\ bal[from] - amt \in Amount
    BY <2>1, <2>2, MaxUnitsAssumption DEF Amount
  <2>4. new \in [Holders -> Amount] /\ mid \in [Holders -> Amount]
    BY <1>2, <2>3 DEF Moved
  <2>5. Weight(mid, Holders) = Weight(bal, Holders) - bal[from] + mid[from]
    <3>1. \A h \in Holders \ {from} : bal[h] = mid[h]
      OBVIOUS
    <3> QED BY <3>1, <2>4, HoldersFinite, WeightChange DEF Amount
  <2>6. Weight(new, Holders) = Weight(mid, Holders) - mid[to] + new[to]
    <3>1. \A h \in Holders \ {to} : mid[h] = new[h]
      BY <1>2 DEF Moved
    <3> QED BY <3>1, <2>4, HoldersFinite, WeightChange DEF Amount
  <2>7. mid[from] = bal[from] - amt /\ mid[to] = bal[to] /\ new[to] = bal[to] + amt
    BY <1>2 DEF Moved
  <2>8. bal[from] \in Int /\ bal[to] \in Int
    BY MaxUnitsAssumption DEF Amount
  <2> HIDE DEF new, mid
  <2>9. Weight(new, Holders) = Weight(bal, Holders)
    BY <2>2, <2>5, <2>6, <2>7, <2>8
  <2> QED BY <2>4, <2>9 DEF new
<1> QED BY <1>1, <1>2

\* Minting and burning change the sum by the amount.
LEMMA CreditedType ==
  ASSUME NEW bal \in [Holders -> Amount], NEW h \in Holders, NEW amt \in Nat,
         Weight(bal, Holders) + amt <= MaxUnits
  PROVE  /\ Credited(bal, h, amt) \in [Holders -> Amount]
         /\ Weight(Credited(bal, h, amt), Holders) = Weight(bal, Holders) + amt
<1> DEFINE new == Credited(bal, h, amt)
<1>1. bal[h] <= Weight(bal, Holders) /\ Weight(bal, Holders) \in Nat
  BY HoldersFinite, WeightMember, WeightType DEF Amount
<1>2. bal[h] \in Nat /\ bal[h] + amt \in Amount
  BY <1>1, MaxUnitsAssumption DEF Amount
<1>3. new \in [Holders -> Amount] /\ new[h] = bal[h] + amt
  BY <1>2 DEF Credited
<1>4. Weight(new, Holders) = Weight(bal, Holders) - bal[h] + new[h]
  <2>1. \A g \in Holders \ {h} : bal[g] = new[g]
    BY DEF Credited
  <2> QED BY <1>3, <2>1, HoldersFinite, WeightChange DEF Amount
<1> HIDE DEF new
<1>5. Weight(new, Holders) = Weight(bal, Holders) + amt
  BY <1>1, <1>2, <1>3, <1>4
<1> QED BY <1>3, <1>5 DEF new

\* The same for burning.
LEMMA DebitedType ==
  ASSUME NEW bal \in [Holders -> Amount], NEW h \in Holders, NEW amt \in Nat,
         bal[h] >= amt
  PROVE  /\ Debited(bal, h, amt) \in [Holders -> Amount]
         /\ Weight(Debited(bal, h, amt), Holders) = Weight(bal, Holders) - amt
<1> DEFINE new == Debited(bal, h, amt)
<1>1. bal[h] \in Nat /\ bal[h] - amt \in Amount /\ Weight(bal, Holders) \in Nat
  BY HoldersFinite, WeightType, MaxUnitsAssumption DEF Amount
<1>3. new \in [Holders -> Amount] /\ new[h] = bal[h] - amt
  BY <1>1 DEF Debited
<1>4. Weight(new, Holders) = Weight(bal, Holders) - bal[h] + new[h]
  <2>1. \A g \in Holders \ {h} : bal[g] = new[g]
    BY DEF Debited
  <2> QED BY <1>3, <2>1, HoldersFinite, WeightChange DEF Amount
<1> HIDE DEF new
<1>5. Weight(new, Holders) = Weight(bal, Holders) - amt
  BY <1>1, <1>3, <1>4
<1> QED BY <1>3, <1>5 DEF new

\* Fees are amounts.
LEMMA FeeType ==
  ASSUME NEW n \in Nat, NEW rate \in Int, ValidFeeRate(rate)
  PROVE  ComputeFee(n, rate) \in Nat
<1>1. rate \in Nat
  BY DEF ValidFeeRate
<1>2. n * rate \in Nat
  BY <1>1
<1>3. \A x \in Nat : x \div Prec \in Nat
  BY RwaAssumption
<1> QED BY <1>2, <1>3 DEF ComputeFee

\* Facts about the balances and records of a state that satisfies Inv.
LEMMA InvFacts ==
  ASSUME Inv
  PROVE  /\ coins \in [Holders -> Amount] /\ Weight(coins, Holders) <= MaxUnits
         /\ \A id \in Assets : tokens[id] \in [Holders -> Amount]
         /\ \A id \in Assets : Supply(id) \in Nat /\ Supply(id) <= MaxSupply
         /\ LiveBonds \in [Assets -> Amount]
         /\ Weight(LiveBonds, Assets) \in Nat
         /\ \A id \in DOMAIN assets : id \in Assets /\ assets[id] \in AssetRecord
         /\ {ModuleAddress, FeeCollector, Pool} \subseteq Holders /\ Accounts \subseteq Holders
<1>1. coins \in [Holders -> Amount]
  BY DEF Inv, TypeOK, Amount
<1>2. Weight(coins, Holders) <= MaxUnits
  BY GenesisAssumption DEF Inv, CoinsConserved
<1>3. \A id \in Assets : tokens[id] \in [Holders -> Amount]
  BY DEF Inv, TypeOK, Amount
<1>4. \A id \in Assets : Supply(id) \in Nat /\ Supply(id) <= MaxSupply
  BY HoldersFinite, WeightType DEF Supply, Inv, SupplyBounded
<1>5. \A id \in DOMAIN assets : id \in Assets /\ assets[id] \in AssetRecord
  BY DEF Inv, TypeOK, IsStore
<1>6. LiveBonds \in [Assets -> Amount]
  BY <1>5, MaxUnitsAssumption DEF LiveBonds, Live, Amount, AssetRecord
<1>7. Weight(LiveBonds, Assets) \in Nat
  BY RwaAssumption, WeightType
<1>8. {ModuleAddress, FeeCollector, Pool} \subseteq Holders /\ Accounts \subseteq Holders
  BY DEF Holders
<1> QED BY <1>1, <1>2, <1>3, <1>4, <1>5, <1>6, <1>7, <1>8

\* The genesis state satisfies the invariant.
LEMMA InitInv == Init => Inv
<1> SUFFICES ASSUME Init PROVE Inv
  OBVIOUS
<1>1. TypeOK
  <2>1. IsStore(assets, Assets, AssetRecord)
    BY EmptyStoreType DEF Init
  <2>2. tokens \in [Assets -> [Holders -> 0 .. MaxUnits]]
    BY MaxUnitsAssumption DEF Init
  <2> QED BY <2>1, <2>2, GenesisAssumption DEF Init, TypeOK
<1>2. \A id \in Assets : Supply(id) = 0
  BY WeightZero DEF Init, Supply
<1>3. DOMAIN assets = {}
  BY DEF Init, EmptyStore
<1>4. Weight(LiveBonds, Assets) = 0
  BY <1>3, WeightZero DEF LiveBonds, Live
<1>5. BondsEscrowed
  BY <1>3, <1>4, GenesisAssumption DEF Init, BondsEscrowed, Live
<1>6. SupplyTracksNotional /\ SupplyBounded
  BY <1>2, <1>3, RwaAssumption DEF SupplyTracksNotional, SupplyBounded
<1> QED BY <1>1, <1>5, <1>6 DEF Inv, Init, CoinsConserved

----------------------------------------------------------------------------
\* Registering escrows the bond of a new asset.
LEMMA RegisterInv ==
  ASSUME Inv, NEW issuer \in Accounts, NEW id \in Assets, NEW pair \in Pairs,
         NEW bond \in Amounts, RegisterAsset(issuer, id, pair, bond)
  PROVE  Inv'
<1> DEFINE rec == [issuer |-> issuer, pair |-> pair, status |-> "DRAFT",
                   bond |-> bond, notionalMinted |-> 0, allowAll |-> TRUE]
<1> USE InvFacts
<1>1. /\ id \notin DOMAIN assets /\ bond > 0 /\ coins[issuer] >= bond
      /\ coins' = Moved(coins, issuer, ModuleAddress, bond)
      /\ assets' = Put(assets, id, rec)
      /\ UNCHANGED <<params, allowlist, denylist, tokens, priced, donated>>
  BY DEF RegisterAsset
<1>2. bond \in Nat /\ bond \in Amount /\ issuer \in Holders /\ issuer # ModuleAddress
  BY <1>1, RwaAssumption, MaxUnitsAssumption DEF Amount
<1>3. /\ coins' \in [Holders -> Amount]
      /\ Weight(coins', Holders) = Weight(coins, Holders)
  BY <1>1, <1>2, MovedType
<1>4. coins'[ModuleAddress] = coins[ModuleAddress] + bond
  BY <1>1, <1>2 DEF Moved
<1>5. rec \in AssetRecord
  BY <1>2 DEF AssetRecord, Statuses, Amount
<1>6. TypeOK'
  <2>1. IsStore(assets', Assets, AssetRecord)
    BY <1>1, <1>5, PutType DEF Inv, TypeOK
  <2> QED BY <1>1, <1>3, <2>1 DEF Inv, TypeOK, Amount
<1>7. CoinsConserved'
  BY <1>3 DEF Inv, CoinsConserved
<1>8. BondsEscrowed'
  <2>1. /\ LiveBonds' \in [Assets -> Amount]
        /\ LiveBonds[id] = 0 /\ LiveBonds'[id] = bond
        /\ \A a \in Assets \ {id} : LiveBonds[a] = LiveBonds'[a]
    BY <1>1, <1>2 DEF LiveBonds, Live, Put
  <2>2. Weight(LiveBonds', Assets) = Weight(LiveBonds, Assets) - LiveBonds[id] + LiveBonds'[id]
    BY <2>1, WeightChange, RwaAssumption DEF Amount
  <2>3. Weight(LiveBonds', Assets) = Weight(LiveBonds, Assets) + bond
    BY <1>2, <2>1, <2>2
  <2>4. \A a \in Assets : Live(a)' => assets'[a].bond > 0
    BY <1>1 DEF Inv, BondsEscrowed, Live, Put
  <2>5. coins[ModuleAddress] = Weight(LiveBonds, Assets) + donated /\ donated \in Nat
    BY DEF Inv, BondsEscrowed, TypeOK
  <2>6. coins'[ModuleAddress] = Weight(LiveBonds', Assets) + donated'
    BY <1>1, <1>2, <1>4, <2>3, <2>5
  <2> QED BY <2>4, <2>6 DEF BondsEscrowed
<1>9. SupplyTracksNotional' /\ SupplyBounded'
  <2>1. \A a \in Assets : Supply(a)' = Supply(a)
    BY <1>1 DEF Supply
  <2>2. \A a \in Assets \ {id} : (a \in DOMAIN assets)' = (a \in DOMAIN assets) /\ Redeemed(a)' = Redeemed(a)
                                  /\ (a \in DOMAIN assets => assets'[a] = assets[a])
    BY <1>1 DEF Redeemed, Put
  <2>3. id \in DOMAIN assets' /\ assets'[id].notionalMinted = 0 /\ ~ Redeemed(id)'
    BY <1>1 DEF Redeemed, Put
  <2> QED BY <1>1, <2>1, <2>2, <2>3 DEF Inv, SupplyTracksNotional, SupplyBounded
<1> QED BY <1>6, <1>7, <1>8, <1>9 DEF Inv

\* A step that changes one record, and of it neither the bond nor whether the
\* asset is settled, keeps the escrow exact.
LEMMA SameBondsEscrow ==
  ASSUME Inv, NEW id \in DOMAIN assets, NEW rec \in AssetRecord,
         assets' = [assets EXCEPT ![id] = rec],
         assets[id].status # "SETTLED", rec.status # "SETTLED",
         rec.bond = assets[id].bond,
         coins'[ModuleAddress] = coins[ModuleAddress], donated' = donated
  PROVE  BondsEscrowed'
<1>1. DOMAIN assets' = DOMAIN assets /\ assets'[id] = rec
  BY DEF Inv, TypeOK, IsStore
<1>2. \A a \in Assets : Live(a)' = Live(a) /\ (Live(a) => assets'[a].bond = assets[a].bond)
  BY <1>1 DEF Live
<1>3. LiveBonds' = LiveBonds
  BY <1>2 DEF LiveBonds
<1> QED BY <1>2, <1>3 DEF Inv, BondsEscrowed

\* Attestation changes the status only.
LEMMA AttestInv ==
  ASSUME Inv, NEW issuer \in Accounts, NEW id \in Assets, AttestAsset(issuer, id)
  PROVE  Inv'
<1> DEFINE rec == [assets[id] EXCEPT !.status = "ATTESTED"]
<1>1. /\ id \in DOMAIN assets /\ assets[id].status = "DRAFT"
      /\ assets' = [assets EXCEPT ![id] = rec]
      /\ UNCHANGED <<params, allowlist, denylist, coins, tokens, priced, donated>>
  BY DEF AttestAsset, IsIssuer
<1>2. assets[id] \in AssetRecord
  BY <1>1, InvFacts
<1>3. rec \in AssetRecord /\ rec.bond = assets[id].bond /\ rec.status = "ATTESTED"
      /\ rec.notionalMinted = assets[id].notionalMinted
  BY <1>2 DEF AssetRecord, Statuses
<1> HIDE DEF rec
<1>4. TypeOK'
  <2>1. IsStore(assets', Assets, AssetRecord)
    BY <1>1, <1>3, UpdateType DEF Inv, TypeOK
  <2> QED BY <1>1, <2>1 DEF Inv, TypeOK
<1>5. BondsEscrowed'
  BY <1>1, <1>3, SameBondsEscrow
<1>6. SupplyTracksNotional' /\ SupplyBounded'
  <2>1. \A a \in Assets : Supply(a)' = Supply(a)
    BY <1>1 DEF Supply
  <2>2. DOMAIN assets' = DOMAIN assets /\ assets'[id] = rec
    BY <1>1 DEF Inv, TypeOK, IsStore
  <2>3. \A a \in DOMAIN assets : Redeemed(a)' = Redeemed(a)
                                 /\ assets'[a].notionalMinted = assets[a].notionalMinted
    BY <1>1, <1>3, <2>2 DEF Redeemed
  <2> QED BY <2>1, <2>2, <2>3 DEF Inv, SupplyTracksNotional, SupplyBounded, Redeemed
<1> QED BY <1>1, <1>4, <1>5, <1>6 DEF Inv, CoinsConserved

\* What minting does to a record.
LEMMA MintedRecordType ==
  ASSUME NEW r \in AssetRecord, NEW n \in Nat
  PROVE  /\ MintedRecord(r, n) \in AssetRecord
         /\ MintedRecord(r, n).bond = r.bond
         /\ MintedRecord(r, n).status = "ACTIVE"
         /\ MintedRecord(r, n).notionalMinted = r.notionalMinted + n
<1>1. r.notionalMinted + n \in Nat
  BY DEF AssetRecord
<1>2. MintedRecord(r, n) = [r EXCEPT !.status = "ACTIVE",
                                     !.notionalMinted = r.notionalMinted + n]
  BY DEF MintedRecord, AssetRecord
<1> QED BY <1>1, <1>2 DEF AssetRecord, Statuses

\* Minting raises the supply and the recorded notional alike.
LEMMA MintInv ==
  ASSUME Inv, NEW issuer \in Accounts, NEW id \in Assets, NEW notional \in Amounts,
         MintRWA(issuer, id, notional)
  PROVE  Inv'
<1> DEFINE rec == MintedRecord(assets[id], notional)
           fee == ComputeFee(notional, params.mintFeeRate)
<1> USE InvFacts
<1>1. /\ id \in DOMAIN assets /\ assets[id].status \in {"ATTESTED", "ACTIVE"}
      /\ coins[issuer] >= fee
      /\ Supply(id) + notional <= MaxSupply
      /\ coins' = Moved(coins, issuer, FeeCollector, fee)
      /\ tokens' = [tokens EXCEPT ![id] = Credited(tokens[id], issuer, notional)]
      /\ assets' = [assets EXCEPT ![id] = rec]
      /\ UNCHANGED <<params, allowlist, denylist, priced, donated>>
  BY DEF MintRWA, IsIssuer
<1>2. notional \in Nat /\ fee \in Nat /\ issuer \in Holders /\ FeeCollector \in Holders
  <2>1. params.mintFeeRate \in Int /\ ValidFeeRate(params.mintFeeRate)
    BY InputAssumption DEF Inv, TypeOK, Validate
  <2>2. notional \in Nat
    BY RwaAssumption
  <2>3. fee \in Nat
    BY <2>1, <2>2, FeeType
  <2> QED BY <2>2, <2>3
<1>3. assets[id] \in AssetRecord
  BY <1>1
<1>4. /\ rec \in AssetRecord /\ rec.bond = assets[id].bond /\ rec.status = "ACTIVE"
      /\ rec.notionalMinted = assets[id].notionalMinted + notional
  BY <1>2, <1>3, MintedRecordType
<1> HIDE DEF rec, fee
<1>5. /\ coins' \in [Holders -> Amount]
      /\ Weight(coins', Holders) = Weight(coins, Holders)
  BY <1>1, <1>2, MovedType
<1>6. coins'[ModuleAddress] = coins[ModuleAddress]
  BY <1>1, RwaAssumption DEF Moved
<1>7. /\ Credited(tokens[id], issuer, notional) \in [Holders -> Amount]
      /\ Weight(Credited(tokens[id], issuer, notional), Holders) = Supply(id) + notional
  <2>1. Weight(tokens[id], Holders) + notional <= MaxUnits
    BY <1>1, <1>2, RwaAssumption, MaxUnitsAssumption DEF Supply
  <2> QED BY <1>2, <2>1, CreditedType DEF Supply
<1>8. TypeOK'
  <2>1. IsStore(assets', Assets, AssetRecord)
    BY <1>1, <1>4, UpdateType DEF Inv, TypeOK
  <2>2. tokens' \in [Assets -> [Holders -> 0 .. MaxUnits]]
    BY <1>1, <1>7 DEF Inv, TypeOK, Amount
  <2> QED BY <1>1, <1>5, <2>1, <2>2 DEF Inv, TypeOK, Amount
<1>9. BondsEscrowed'
  BY <1>1, <1>4, <1>6, SameBondsEscrow
<1>10. SupplyTracksNotional' /\ SupplyBounded'
  <2>1. \A a \in Assets \ {id} : Supply(a)' = Supply(a)
    BY <1>1 DEF Supply, Inv, TypeOK
  <2>2. Supply(id)' = Supply(id) + notional
    BY <1>1, <1>7 DEF Supply, Inv, TypeOK
  <2>3. DOMAIN assets' = DOMAIN assets /\ assets'[id] = rec
    BY <1>1 DEF Inv, TypeOK, IsStore
  <2>4. \A a \in Assets \ {id} : Redeemed(a)' = Redeemed(a) /\ assets'[a] = assets[a]
    BY <1>1, <2>3 DEF Redeemed
  <2>5. ~ Redeemed(id) /\ ~ Redeemed(id)' /\ Supply(id) = assets[id].notionalMinted
    BY <1>1, <1>4, <2>3 DEF Redeemed, Inv, SupplyTracksNotional
  <2>6. Supply(id)' = assets'[id].notionalMinted /\ Supply(id)' <= MaxSupply
    BY <1>1, <1>4, <2>2, <2>3, <2>5
  <2> QED BY <1>1, <2>1, <2>3, <2>4, <2>5, <2>6
          DEF Inv, SupplyTracksNotional, SupplyBounded
<1> QED BY <1>5, <1>8, <1>9, <1>10 DEF Inv, CoinsConserved

\* A transfer of tokens, by TransferRWA or by the bank, keeps the supply.
LEMMA SendInv ==
  ASSUME Inv, NEW from \in Accounts, NEW to \in Holders, NEW id \in Assets,
         NEW amount \in Amounts, SendTokens(id, from, to, amount),
         UNCHANGED <<params, assets, allowlist, denylist, coins, priced, donated>>
  PROVE  Inv'
<1> USE InvFacts
<1>1. /\ tokens[id][from] >= amount /\ amount \in Nat
      /\ tokens' = [tokens EXCEPT ![id] = Moved(tokens[id], from, to, amount)]
  BY RwaAssumption DEF SendTokens
<1>2. /\ Moved(tokens[id], from, to, amount) \in [Holders -> Amount]
      /\ Weight(Moved(tokens[id], from, to, amount), Holders) = Weight(tokens[id], Holders)
  <2>1. Weight(tokens[id], Holders) <= MaxUnits
    BY RwaAssumption, MaxUnitsAssumption DEF Supply
  <2> QED BY <1>1, <2>1, MovedType
<1>3. \A a \in Assets : Supply(a)' = Supply(a)
  BY <1>1, <1>2 DEF Supply, Inv, TypeOK
<1>4. TypeOK'
  BY <1>1, <1>2 DEF Inv, TypeOK, Amount
<1>5. BondsEscrowed'
  BY DEF Inv, BondsEscrowed, LiveBonds, Live
<1>6. SupplyTracksNotional' /\ SupplyBounded'
  BY <1>3 DEF Inv, SupplyTracksNotional, SupplyBounded, Redeemed
<1> QED BY <1>4, <1>5, <1>6 DEF Inv, CoinsConserved

\* A transfer of uvtx counts as a donation when it ends in the module account.
LEMMA CoinsInv ==
  ASSUME Inv, NEW from \in Accounts, NEW to \in Holders, NEW amount \in Amounts,
         BankSendCoins(from, to, amount)
  PROVE  Inv'
<1> USE InvFacts
<1>1. /\ coins[from] >= amount /\ amount \in Nat /\ from \in Holders
      /\ coins' = Moved(coins, from, to, amount)
      /\ donated' = IF to = ModuleAddress THEN donated + amount ELSE donated
      /\ UNCHANGED <<params, assets, allowlist, denylist, tokens, priced>>
  BY RwaAssumption DEF BankSendCoins
<1>2. /\ coins' \in [Holders -> Amount]
      /\ Weight(coins', Holders) = Weight(coins, Holders)
  BY <1>1, MovedType
<1>3. donated \in Nat /\ donated' \in Nat
  BY <1>1 DEF Inv, TypeOK
<1>4. coins'[ModuleAddress] - donated' = coins[ModuleAddress] - donated
  <2>1. from # ModuleAddress /\ coins[ModuleAddress] \in Int
    BY RwaAssumption, MaxUnitsAssumption DEF Amount
  <2> QED BY <1>1, <1>3, <2>1 DEF Moved
<1>5. TypeOK'
  BY <1>1, <1>2, <1>3 DEF Inv, TypeOK, Amount
<1>6. BondsEscrowed'
  <2>1. LiveBonds' = LiveBonds /\ \A a \in Assets : Live(a)' = Live(a)
    BY <1>1 DEF LiveBonds, Live
  <2>2. coins[ModuleAddress] = Weight(LiveBonds, Assets) + donated
    BY DEF Inv, BondsEscrowed
  <2>3. coins[ModuleAddress] \in Int /\ coins'[ModuleAddress] \in Int
    BY <1>2, MaxUnitsAssumption DEF Amount
  <2>4. coins'[ModuleAddress] = Weight(LiveBonds, Assets) + donated'
    BY <1>3, <1>4, <2>2, <2>3
  <2> QED BY <1>1, <2>1, <2>4 DEF Inv, BondsEscrowed
<1>7. SupplyTracksNotional' /\ SupplyBounded'
  BY <1>1 DEF Inv, SupplyTracksNotional, SupplyBounded, Redeemed, Supply
<1> QED BY <1>2, <1>5, <1>6, <1>7 DEF Inv, CoinsConserved

\* Restrictions touch neither balances nor bonds.
LEMMA RestrictInv ==
  ASSUME Inv, NEW issuer \in Accounts, NEW id \in Assets, NEW r \in Restrictions,
         UpdateRestrictions(issuer, id, r)
  PROVE  Inv'
<1> DEFINE rec == [assets[id] EXCEPT !.allowAll = r.allowAll]
<1>1. /\ id \in DOMAIN assets /\ assets[id].status # "SETTLED"
      /\ assets' = [assets EXCEPT ![id] = rec]
      /\ UNCHANGED <<params, coins, tokens, priced, donated>>
  BY DEF UpdateRestrictions, IsIssuer
<1>2. /\ {r.addAllow, r.delAllow, r.addDeny, r.delDeny} \subseteq SUBSET Holders
      /\ r.allowAll \in BOOLEAN
  BY InputAssumption
<1>3. allowlist' \subseteq Assets \X Holders /\ denylist' \subseteq Assets \X Holders
  BY <1>2 DEF UpdateRestrictions, Inv, TypeOK
<1>4. assets[id] \in AssetRecord
  BY <1>1, InvFacts
<1>5. rec \in AssetRecord /\ rec.bond = assets[id].bond /\ rec.status = assets[id].status
      /\ rec.notionalMinted = assets[id].notionalMinted
  BY <1>2, <1>4 DEF AssetRecord
<1> HIDE DEF rec
<1>6. TypeOK'
  <2>1. IsStore(assets', Assets, AssetRecord)
    BY <1>1, <1>5, UpdateType DEF Inv, TypeOK
  <2> QED BY <1>1, <1>3, <2>1 DEF Inv, TypeOK
<1>7. BondsEscrowed'
  BY <1>1, <1>5, SameBondsEscrow
<1>8. SupplyTracksNotional' /\ SupplyBounded'
  <2>1. \A a \in Assets : Supply(a)' = Supply(a)
    BY <1>1 DEF Supply
  <2>2. DOMAIN assets' = DOMAIN assets /\ assets'[id] = rec
    BY <1>1 DEF Inv, TypeOK, IsStore
  <2>3. \A a \in DOMAIN assets : Redeemed(a)' = Redeemed(a)
                                 /\ assets'[a].notionalMinted = assets[a].notionalMinted
    BY <1>1, <1>5, <2>2 DEF Redeemed
  <2> QED BY <2>1, <2>2, <2>3 DEF Inv, SupplyTracksNotional, SupplyBounded, Redeemed
<1> QED BY <1>1, <1>6, <1>7, <1>8 DEF Inv, CoinsConserved

\* A step that settles an asset and takes exactly its bond out of the module
\* account keeps the escrow exact.
LEMMA SettledEscrow ==
  ASSUME Inv, NEW id \in DOMAIN assets, NEW rec \in AssetRecord,
         assets' = [assets EXCEPT ![id] = rec],
         assets[id].status # "SETTLED", rec.status = "SETTLED",
         coins'[ModuleAddress] = coins[ModuleAddress] - assets[id].bond,
         donated' = donated
  PROVE  /\ BondsEscrowed'
         /\ LiveBonds[id] = assets[id].bond
         /\ LiveBonds' = [LiveBonds EXCEPT ![id] = 0]
<1>1. DOMAIN assets' = DOMAIN assets /\ assets'[id] = rec /\ id \in Assets
  BY InvFacts DEF Inv, TypeOK, IsStore
<1>2. \A a \in Assets \ {id} : Live(a)' = Live(a) /\ assets'[a] = assets[a]
  BY <1>1 DEF Live
<1>3. Live(id) /\ ~ Live(id)'
  BY <1>1 DEF Live
<1>4. LiveBonds[id] = assets[id].bond /\ LiveBonds' = [LiveBonds EXCEPT ![id] = 0]
  <2>1. LiveBonds[id] = assets[id].bond /\ LiveBonds'[id] = 0
    BY <1>1, <1>3 DEF LiveBonds
  <2>2. \A a \in Assets \ {id} : LiveBonds'[a] = LiveBonds[a]
    BY <1>2 DEF LiveBonds
  <2>3. LiveBonds' = [a \in Assets |-> LiveBonds'[a]] /\ LiveBonds = [a \in Assets |-> LiveBonds[a]]
    BY DEF LiveBonds
  <2> HIDE DEF LiveBonds
  <2> QED BY <2>1, <2>2, <2>3
<1>5. /\ LiveBonds' \in [Assets -> Amount] /\ LiveBonds'[id] = 0
      /\ \A a \in Assets \ {id} : LiveBonds[a] = LiveBonds'[a]
  BY <1>1, <1>4, InvFacts, MaxUnitsAssumption DEF Amount
<1>6. Weight(LiveBonds', Assets) = Weight(LiveBonds, Assets) - LiveBonds[id] + LiveBonds'[id]
  BY <1>1, <1>5, InvFacts, WeightChange, RwaAssumption DEF Amount
<1>7. /\ coins[ModuleAddress] = Weight(LiveBonds, Assets) + donated
      /\ donated \in Nat /\ Weight(LiveBonds, Assets) \in Nat
      /\ assets[id].bond \in Int
  BY InvFacts, MaxUnitsAssumption DEF Inv, BondsEscrowed, TypeOK, AssetRecord
<1>8. coins'[ModuleAddress] = Weight(LiveBonds', Assets) + donated'
  BY <1>4, <1>5, <1>6, <1>7
<1>9. \A a \in Assets : Live(a)' => assets'[a].bond > 0
  BY <1>2, <1>3 DEF Inv, BondsEscrowed
<1> QED BY <1>4, <1>8, <1>9 DEF BondsEscrowed

\* What a settlement does, step by step: the fee, the tokens, the bond.
LEMMA SettleFacts ==
  ASSUME Inv, NEW issuer \in Accounts, NEW id \in Assets, SettleRWA(issuer, id)
  PROVE  LET rec == [assets[id] EXCEPT !.status = "SETTLED"] IN
         /\ id \in DOMAIN assets /\ assets[id].status = "ACTIVE"
         /\ assets' = [assets EXCEPT ![id] = rec]
         /\ rec \in AssetRecord /\ rec.status = "SETTLED" /\ rec.bond = assets[id].bond
         /\ coins' \in [Holders -> Amount]
         /\ Weight(coins', Holders) = Weight(coins, Holders)
         /\ coins'[ModuleAddress] = coins[ModuleAddress] - assets[id].bond
         /\ coins'[Pool] = coins[Pool]
         /\ tokens' \in [Assets -> [Holders -> Amount]]
         /\ Supply(id)' = 0 /\ \A a \in Assets \ {id} : Supply(a)' = Supply(a)
         /\ UNCHANGED <<params, allowlist, denylist, priced, donated>>
<1> DEFINE rec == [assets[id] EXCEPT !.status = "SETTLED"]
           fee == ComputeFee(assets[id].notionalMinted, params.settleFeeRate)
           bond == assets[id].bond
           mid == Moved(coins, issuer, FeeCollector, fee)
           paid == Debited(tokens[id], issuer, assets[id].notionalMinted)
<1> USE InvFacts
<1>1. /\ id \in DOMAIN assets /\ assets[id].status = "ACTIVE"
      /\ coins[issuer] >= fee /\ tokens[id][issuer] >= assets[id].notionalMinted
      /\ coins[ModuleAddress] >= bond
      /\ coins' = Moved(mid, ModuleAddress, issuer, bond)
      /\ tokens' = [tokens EXCEPT ![id] = paid]
      /\ assets' = [assets EXCEPT ![id] = rec]
      /\ UNCHANGED <<params, allowlist, denylist, priced, donated>>
  BY DEF SettleRWA, IsIssuer, Surrendered
<1>2. assets[id] \in AssetRecord
  BY <1>1
<1>3. rec \in AssetRecord /\ rec.status = "SETTLED" /\ rec.bond = assets[id].bond
  BY <1>2 DEF AssetRecord, Statuses
<1>4. assets[id].notionalMinted \in Nat /\ bond \in Nat
  BY <1>2, MaxUnitsAssumption DEF AssetRecord
<1>5. fee \in Nat
  <2>1. params.settleFeeRate \in Int /\ ValidFeeRate(params.settleFeeRate)
    BY InputAssumption DEF Inv, TypeOK, Validate
  <2> QED BY <1>4, <2>1, FeeType
<1> HIDE DEF fee, bond
<1>6. /\ issuer \in Holders /\ FeeCollector \in Holders /\ ModuleAddress \in Holders
      /\ Pool \in Holders /\ issuer \notin {ModuleAddress, FeeCollector, Pool}
      /\ ModuleAddress # FeeCollector /\ Pool # ModuleAddress /\ Pool # FeeCollector
  BY RwaAssumption
<1>7. /\ mid \in [Holders -> Amount] /\ Weight(mid, Holders) = Weight(coins, Holders)
      /\ mid[ModuleAddress] = coins[ModuleAddress] /\ mid[Pool] = coins[Pool]
  <2>1. mid \in [Holders -> Amount] /\ Weight(mid, Holders) = Weight(coins, Holders)
    BY <1>1, <1>5, <1>6, MovedType
  <2>2. mid[ModuleAddress] = coins[ModuleAddress] /\ mid[Pool] = coins[Pool]
    BY <1>6 DEF Moved
  <2> QED BY <2>1, <2>2
<1> HIDE DEF mid
<1>8. coins' \in [Holders -> Amount] /\ Weight(coins', Holders) = Weight(coins, Holders)
  BY <1>1, <1>4, <1>6, <1>7, MovedType
<1>9. coins'[ModuleAddress] = coins[ModuleAddress] - bond /\ coins'[Pool] = coins[Pool]
  BY <1>1, <1>6, <1>7 DEF Moved
<1>10. /\ paid \in [Holders -> Amount]
       /\ Weight(paid, Holders) = Weight(tokens[id], Holders) - assets[id].notionalMinted
  BY <1>1, <1>4, <1>6, DebitedType
<1> HIDE DEF paid
<1>11. Supply(id) = assets[id].notionalMinted
  BY <1>1 DEF Inv, SupplyTracksNotional, Redeemed
<1>12. tokens' \in [Assets -> [Holders -> Amount]]
  BY <1>1, <1>10 DEF Inv, TypeOK, Amount
<1>13. Weight(paid, Holders) = 0
  BY <1>4, <1>10, <1>11 DEF Supply
<1>14. Supply(id)' = 0 /\ \A a \in Assets \ {id} : Supply(a)' = Supply(a)
  BY <1>1, <1>13 DEF Supply, Inv, TypeOK
<1> QED BY <1>1, <1>3, <1>8, <1>9, <1>12, <1>14 DEF bond

\* Settling keeps the invariant.
LEMMA SettleInv ==
  ASSUME Inv, NEW issuer \in Accounts, NEW id \in Assets, SettleRWA(issuer, id)
  PROVE  Inv'
<1> DEFINE rec == [assets[id] EXCEPT !.status = "SETTLED"]
<1>1. /\ id \in DOMAIN assets /\ assets[id].status = "ACTIVE"
      /\ assets' = [assets EXCEPT ![id] = rec]
      /\ rec \in AssetRecord /\ rec.status = "SETTLED" /\ rec.bond = assets[id].bond
      /\ coins' \in [Holders -> Amount]
      /\ Weight(coins', Holders) = Weight(coins, Holders)
      /\ coins'[ModuleAddress] = coins[ModuleAddress] - assets[id].bond
      /\ tokens' \in [Assets -> [Holders -> Amount]]
      /\ Supply(id)' = 0 /\ \A a \in Assets \ {id} : Supply(a)' = Supply(a)
      /\ UNCHANGED <<params, allowlist, denylist, priced, donated>>
  BY SettleFacts
<1> HIDE DEF rec
<1>2. TypeOK'
  <2>1. IsStore(assets', Assets, AssetRecord)
    BY <1>1, UpdateType DEF Inv, TypeOK
  <2> QED BY <1>1, <2>1 DEF Inv, TypeOK, Amount
<1>3. BondsEscrowed'
  BY <1>1, SettledEscrow
<1>4. SupplyTracksNotional' /\ SupplyBounded'
  <2>1. DOMAIN assets' = DOMAIN assets /\ assets'[id] = rec
    BY <1>1 DEF Inv, TypeOK, IsStore
  <2>2. \A a \in Assets \ {id} : Redeemed(a)' = Redeemed(a) /\ assets'[a] = assets[a]
    BY <1>1, <2>1 DEF Redeemed
  <2>3. assets[id].bond > 0
    BY <1>1 DEF Inv, BondsEscrowed, Live
  <2>4. Redeemed(id)'
    BY <1>1, <2>1, <2>3 DEF Redeemed
  <2> QED BY <1>1, <2>1, <2>2, <2>4, RwaAssumption
          DEF Inv, SupplyTracksNotional, SupplyBounded
<1> QED BY <1>1, <1>2, <1>3, <1>4 DEF Inv, CoinsConserved

\* What a slash does: the bond goes to the pool, the record forgets it.
LEMMA SlashFacts ==
  ASSUME Inv, NEW id \in Assets, SlashBond(id)
  PROVE  LET rec == [assets[id] EXCEPT !.status = "SETTLED", !.bond = 0] IN
         /\ id \in DOMAIN assets /\ assets[id].status = "ACTIVE"
         /\ assets' = [assets EXCEPT ![id] = rec]
         /\ rec \in AssetRecord /\ rec.status = "SETTLED" /\ rec.bond = 0
         /\ rec.notionalMinted = assets[id].notionalMinted
         /\ coins' \in [Holders -> Amount]
         /\ Weight(coins', Holders) = Weight(coins, Holders)
         /\ coins'[ModuleAddress] = coins[ModuleAddress] - assets[id].bond
         /\ coins'[Pool] = coins[Pool] + assets[id].bond
         /\ UNCHANGED <<params, allowlist, denylist, tokens, priced, donated>>
<1> DEFINE rec == [assets[id] EXCEPT !.status = "SETTLED", !.bond = 0]
<1>1. /\ id \in DOMAIN assets /\ assets[id].status = "ACTIVE"
      /\ coins[ModuleAddress] >= assets[id].bond
      /\ coins' = Moved(coins, ModuleAddress, Pool, assets[id].bond)
      /\ assets' = [assets EXCEPT ![id] = rec]
      /\ UNCHANGED <<params, allowlist, denylist, tokens, priced, donated>>
  BY DEF SlashBond, SlashableStatuses
<1>2. assets[id] \in AssetRecord
  BY <1>1, InvFacts
<1>3. /\ rec \in AssetRecord /\ rec.status = "SETTLED" /\ rec.bond = 0
      /\ rec.notionalMinted = assets[id].notionalMinted
  <2>1. 0 \in 0 .. MaxUnits /\ "SETTLED" \in Statuses
    BY MaxUnitsAssumption DEF Statuses
  <2> QED BY <1>2, <2>1 DEF AssetRecord
<1>4. assets[id].bond \in Nat
  BY <1>2, MaxUnitsAssumption DEF AssetRecord
<1>5. ModuleAddress \in Holders /\ Pool \in Holders /\ ModuleAddress # Pool
  BY RwaAssumption, InvFacts
<1>6. coins' \in [Holders -> Amount] /\ Weight(coins', Holders) = Weight(coins, Holders)
  BY <1>1, <1>4, <1>5, InvFacts, MovedType
<1>7. /\ coins'[ModuleAddress] = coins[ModuleAddress] - assets[id].bond
      /\ coins'[Pool] = coins[Pool] + assets[id].bond
  BY <1>1, <1>5 DEF Moved
<1> QED BY <1>1, <1>3, <1>6, <1>7

\* Slashing keeps the invariant; the tokens stay outstanding.
LEMMA SlashInv ==
  ASSUME Inv, NEW id \in Assets, SlashBond(id)
  PROVE  Inv'
<1> DEFINE rec == [assets[id] EXCEPT !.status = "SETTLED", !.bond = 0]
<1>1. /\ id \in DOMAIN assets /\ assets[id].status = "ACTIVE"
      /\ assets' = [assets EXCEPT ![id] = rec]
      /\ rec \in AssetRecord /\ rec.status = "SETTLED" /\ rec.bond = 0
      /\ rec.notionalMinted = assets[id].notionalMinted
      /\ coins' \in [Holders -> Amount]
      /\ Weight(coins', Holders) = Weight(coins, Holders)
      /\ coins'[ModuleAddress] = coins[ModuleAddress] - assets[id].bond
      /\ UNCHANGED <<params, allowlist, denylist, tokens, priced, donated>>
  BY SlashFacts
<1> HIDE DEF rec
<1>2. TypeOK'
  <2>1. IsStore(assets', Assets, AssetRecord)
    BY <1>1, UpdateType DEF Inv, TypeOK
  <2> QED BY <1>1, <2>1 DEF Inv, TypeOK, Amount
<1>3. BondsEscrowed'
  BY <1>1, SettledEscrow
<1>4. SupplyTracksNotional' /\ SupplyBounded'
  <2>1. DOMAIN assets' = DOMAIN assets /\ assets'[id] = rec
    BY <1>1 DEF Inv, TypeOK, IsStore
  <2>2. \A a \in Assets : Supply(a)' = Supply(a)
    BY <1>1 DEF Supply
  <2>3. \A a \in DOMAIN assets : Redeemed(a)' = Redeemed(a)
                                 /\ assets'[a].notionalMinted = assets[a].notionalMinted
    BY <1>1, <2>1 DEF Redeemed
  <2> QED BY <2>1, <2>2, <2>3 DEF Inv, SupplyTracksNotional, SupplyBounded, Redeemed
<1> QED BY <1>1, <1>2, <1>3, <1>4 DEF Inv, CoinsConserved

----------------------------------------------------------------------------
\* Every message, governance decision and price update keeps the invariant.
LEMMA NextInv == Inv /\ [Next]_vars => Inv'
<1> SUFFICES ASSUME Inv, [Next]_vars PROVE Inv'
  OBVIOUS
<1> DEFINE Same == UNCHANGED <<assets, coins, tokens, donated>>
<1>1. ASSUME Same, TypeOK' PROVE Inv'
  <2>1. BondsEscrowed'
    BY <1>1 DEF Inv, BondsEscrowed, LiveBonds, Live
  <2>2. SupplyTracksNotional' /\ SupplyBounded'
    BY <1>1 DEF Inv, SupplyTracksNotional, SupplyBounded, Redeemed, Supply
  <2> QED BY <1>1, <2>1, <2>2 DEF Inv, CoinsConserved
<1>2. ASSUME NEW issuer \in Accounts, NEW id \in Assets, NEW pair \in Pairs,
             NEW bond \in Amounts, RegisterAsset(issuer, id, pair, bond)
      PROVE  Inv'
  BY <1>2, RegisterInv
<1>3. ASSUME NEW issuer \in Accounts, NEW id \in Assets,
             AttestAsset(issuer, id) \/ SettleRWA(issuer, id)
      PROVE  Inv'
  BY <1>3, AttestInv, SettleInv
<1>4. ASSUME NEW issuer \in Accounts, NEW id \in Assets, NEW notional \in Amounts,
             MintRWA(issuer, id, notional)
      PROVE  Inv'
  BY <1>4, MintInv
<1>5. ASSUME NEW sender \in Accounts, NEW recipient \in Holders, NEW id \in Assets,
             NEW amount \in Amounts,
             \/ TransferRWA(sender, recipient, id, amount)
             \/ BankSendTokens(sender, recipient, id, amount)
      PROVE  Inv'
  BY <1>5, SendInv DEF TransferRWA, BankSendTokens
<1>6. ASSUME NEW sender \in Accounts, NEW recipient \in Holders, NEW amount \in Amounts,
             BankSendCoins(sender, recipient, amount)
      PROVE  Inv'
  BY <1>6, CoinsInv
<1>7. ASSUME NEW issuer \in Accounts, NEW id \in Assets, NEW r \in Restrictions,
             UpdateRestrictions(issuer, id, r)
      PROVE  Inv'
  BY <1>7, RestrictInv
<1>8. ASSUME NEW id \in Assets, SlashBond(id) PROVE Inv'
  BY <1>8, SlashInv
<1>9. ASSUME NEW p \in ParamChoices, UpdateParams(p) PROVE Inv'
  <2>1. Same /\ TypeOK'
    BY <1>9 DEF UpdateParams, SetParams, Inv, TypeOK
  <2> QED BY <1>1, <2>1
<1>10. CASE OraclePrices
  <2>1. Same /\ TypeOK'
    BY <1>10 DEF OraclePrices, Inv, TypeOK
  <2> QED BY <1>1, <2>1
<1>11. CASE UNCHANGED vars
  <2>1. Same /\ TypeOK'
    BY <1>11 DEF vars, Inv, TypeOK
  <2> QED BY <1>1, <2>1
<1> QED BY <1>2, <1>3, <1>4, <1>5, <1>6, <1>7, <1>8, <1>9, <1>10, <1>11 DEF Next

\* The inductive invariant.
LEMMA Invariance == Spec => []Inv
<1>1. Init => Inv
  BY InitInv
<1>2. Inv /\ [Next]_vars => Inv'
  BY NextInv
<1> QED BY <1>1, <1>2, PTL DEF Spec

\* The type invariant of x/rwa: records, lists and balances stay well formed,
\* and no balance outgrows what a math.Int holds.
THEOREM TypeCorrect == Spec => []TypeOK
<1>1. Inv => TypeOK
  BY DEF Inv
<1> QED BY <1>1, Invariance, PTL

\* The escrow is exact, for any number of assets and issuers: what BondInvariant
\* checks at run time never fails.
THEOREM EscrowCorrect == Spec => []BondsEscrowed
<1>1. Inv => BondsEscrowed
  BY DEF Inv
<1> QED BY <1>1, Invariance, PTL

\* The supply of every token is the notional in its record, which is what
\* DenomInvariant relies on.
THEOREM SupplyCorrect == Spec => []SupplyTracksNotional
<1>1. Inv => SupplyTracksNotional
  BY DEF Inv
<1> QED BY <1>1, Invariance, PTL

\* No issuer has its bond back while somebody holds a token of the asset.
THEOREM RedeemedCorrect == Spec => []RedeemedInFull
<1>1. Inv => RedeemedInFull
  <2> SUFFICES ASSUME Inv, NEW id \in Assets, NEW h \in Holders, Redeemed(id)
               PROVE  tokens[id][h] = 0
    BY DEF RedeemedInFull
  <2>1. Weight(tokens[id], Holders) = 0
    BY DEF Inv, SupplyTracksNotional, Supply
  <2>2. tokens[id][h] \in 0 .. MaxUnits
    BY DEF Inv, TypeOK
  <2>3. tokens[id][h] <= Weight(tokens[id], Holders)
    BY <2>2, HoldersFinite, WeightMember
  <2> QED BY <2>1, <2>2, <2>3, MaxUnitsAssumption
<1> QED BY <1>1, Invariance, PTL

----------------------------------------------------------------------------
\* A transfer leaves the tokens of barred holders alone, unless it goes to the
\* module account.
LEMMA SendFrozen ==
  ASSUME Inv, NEW from \in Accounts, NEW to \in Holders, NEW id \in Assets,
         NEW amount \in Amounts, SendTokens(id, from, to, amount),
         NEW a \in Assets, NEW h \in Holders, Barred(a, h),
         tokens'[a][h] # tokens[a][h]
  PROVE  tokens'[a][ModuleAddress] > tokens[a][ModuleAddress]
<1>1. /\ tokens' = [tokens EXCEPT ![id] = Moved(tokens[id], from, to, amount)]
      /\ amount > 0 /\ amount \in Nat /\ CheckTransferAllowed(id, from, to)
  BY RwaAssumption DEF SendTokens
<1>2. a = id
  BY <1>1 DEF Inv, TypeOK
<1>3. tokens'[id] = Moved(tokens[id], from, to, amount)
  BY <1>1 DEF Inv, TypeOK
<1>4. from # to /\ h \in {from, to}
  BY <1>2, <1>3 DEF Moved
<1>5. to = ModuleAddress
  BY <1>1, <1>2, <1>4, RwaAssumption DEF Barred, CheckTransferAllowed
<1>6. tokens'[id][ModuleAddress] = tokens[id][ModuleAddress] + amount
  BY <1>3, <1>4, <1>5, InvFacts DEF Moved
<1>7. tokens[id][ModuleAddress] \in Nat
  BY InvFacts, MaxUnitsAssumption DEF Amount
<1> QED BY <1>1, <1>2, <1>6, <1>7

\* The lists bind every path by which tokens change hands.
THEOREM FrozenCorrect == Spec => BarredHoldersFrozen
<1> DEFINE Ok(a, h) ==
             \/ tokens'[a][ModuleAddress] > tokens[a][ModuleAddress]
             \/ IsIssuer(a, h) /\ Weight(tokens'[a], Holders) # Supply(a)
           A == \A id \in Assets, h \in Holders :
                  Barred(id, h) /\ tokens'[id][h] # tokens[id][h] =>
                     \/ tokens'[id][ModuleAddress] > tokens[id][ModuleAddress]
                     \/ IsIssuer(id, h) /\ Weight(tokens'[id], Holders) # Supply(id)
<1>1. Inv /\ [Next]_vars => [A]_vars
  <2> SUFFICES ASSUME Inv, [Next]_vars, NEW a \in Assets, NEW h \in Holders,
                      Barred(a, h), tokens'[a][h] # tokens[a][h]
               PROVE  Ok(a, h)
    OBVIOUS
  <2>1. ASSUME NEW sender \in Accounts, NEW recipient \in Holders, NEW id \in Assets,
               NEW amount \in Amounts,
               \/ TransferRWA(sender, recipient, id, amount)
               \/ BankSendTokens(sender, recipient, id, amount)
        PROVE  Ok(a, h)
    BY <2>1, SendFrozen DEF TransferRWA, BankSendTokens
  <2>2. ASSUME NEW issuer \in Accounts, NEW id \in Assets, NEW notional \in Amounts,
               MintRWA(issuer, id, notional)
        PROVE  Ok(a, h)
    <3>1. /\ tokens' = [tokens EXCEPT ![id] = Credited(tokens[id], issuer, notional)]
          /\ notional > 0 /\ notional \in Nat /\ IsIssuer(id, issuer)
          /\ Supply(id) + notional <= MaxSupply
      BY <2>2, RwaAssumption DEF MintRWA
    <3>2. a = id /\ h = issuer
      BY <3>1, InvFacts DEF Inv, TypeOK, Credited
    <3>3. Weight(tokens[id], Holders) + notional <= MaxUnits
      BY <3>1, InvFacts, RwaAssumption, MaxUnitsAssumption DEF Supply
    <3>4. Weight(Credited(tokens[id], issuer, notional), Holders) = Supply(id) + notional
      BY <3>1, <3>3, InvFacts, CreditedType DEF Supply
    <3>5. tokens'[id] = Credited(tokens[id], issuer, notional)
      BY <3>1 DEF Inv, TypeOK
    <3>6. Weight(tokens'[id], Holders) # Supply(id)
      BY <3>1, <3>4, <3>5, InvFacts
    <3> QED BY <3>1, <3>2, <3>6
  <2>3. ASSUME NEW issuer \in Accounts, NEW id \in Assets, SettleRWA(issuer, id)
        PROVE  Ok(a, h)
    <3>1. /\ tokens' = [tokens EXCEPT ![id] = Debited(tokens[id], issuer, assets[id].notionalMinted)]
          /\ IsIssuer(id, issuer) /\ assets[id].status = "ACTIVE"
      BY <2>3 DEF SettleRWA, Surrendered
    <3>2. a = id /\ h = issuer
      BY <3>1, InvFacts DEF Inv, TypeOK, Debited
    <3>3. Weight(tokens'[id], Holders) = 0
      BY <2>3, SettleFacts DEF Supply
    <3>4. Supply(id) # 0
      <4>1. tokens[id][h] <= Supply(id) /\ tokens[id][h] \in Nat /\ Supply(id) \in Nat
        BY InvFacts, HoldersFinite, WeightMember, MaxUnitsAssumption DEF Supply, Amount
      <4>2. tokens'[id][h] <= Weight(tokens'[id], Holders) /\ tokens'[id][h] \in Nat
        <5>1. tokens' \in [Assets -> [Holders -> Amount]]
          BY <2>3, SettleFacts
        <5> QED BY <5>1, HoldersFinite, WeightMember, MaxUnitsAssumption DEF Amount
      <4> QED BY <3>2, <3>3, <4>1, <4>2
    <3> QED BY <3>1, <3>2, <3>3, <3>4
  <2>4. \/ tokens' = tokens
        \/ \E sender \in Accounts, recipient \in Holders, id \in Assets, amount \in Amounts :
              \/ TransferRWA(sender, recipient, id, amount)
              \/ BankSendTokens(sender, recipient, id, amount)
        \/ \E issuer \in Accounts, id \in Assets, notional \in Amounts :
              MintRWA(issuer, id, notional)
        \/ \E issuer \in Accounts, id \in Assets : SettleRWA(issuer, id)
    BY DEF Next, vars, RegisterAsset, AttestAsset, BankSendCoins, UpdateRestrictions,
           SlashBond, UpdateParams, OraclePrices
  <2> QED BY <2>1, <2>2, <2>3, <2>4
<1> QED BY <1>1, Invariance, PTL DEF Spec, BarredHoldersFrozen

----------------------------------------------------------------------------
\* What the abstract state is in terms of the records.
LEMMA AbstractFacts ==
  ASSUME Inv
  PROVE  /\ coins[ModuleAddress] - donated = Weight(LiveBonds, Assets)
         /\ \A a \in Assets :
              /\ Supply(a) = IF a \in DOMAIN assets /\ ~ Redeemed(a)
                             THEN assets[a].notionalMinted ELSE 0
              /\ Live(a) => assets[a].bond > 0
BY InvFacts DEF Inv, BondsEscrowed, SupplyTracksNotional, TypeOK

\* A step that leaves the records and the pool alone is a stuttering step.
LEMMA SameRecords ==
  ASSUME Inv, Inv', assets' = assets, coins'[Pool] = coins[Pool]
  PROVE  UNCHANGED Lifecycle!vars
<1>1. LiveBonds' = LiveBonds
  BY DEF LiveBonds, Live
<1>2. \A a \in Assets : Stage(a)' = Stage(a) /\ Redeemed(a)' = Redeemed(a)
  BY DEF Stage, Redeemed
<1>3. \A a \in Assets : Supply(a)' = Supply(a)
  <2>1. \A a \in Assets : Supply(a)' = IF a \in DOMAIN assets' /\ ~ Redeemed(a)'
                                       THEN assets'[a].notionalMinted ELSE 0
    BY DEF Inv, SupplyTracksNotional
  <2> QED BY <1>2, <2>1, AbstractFacts
<1>4. coins'[ModuleAddress] - donated' = coins[ModuleAddress] - donated
  <2>1. coins'[ModuleAddress] = Weight(LiveBonds, Assets) + donated' /\ donated' \in Nat
    BY <1>1 DEF Inv, BondsEscrowed, TypeOK
  <2>2. Weight(LiveBonds, Assets) \in Nat
    BY InvFacts
  <2>3. coins'[ModuleAddress] - donated' = Weight(LiveBonds, Assets)
    BY <2>1, <2>2
  <2> QED BY <2>3, AbstractFacts
<1> QED BY <1>1, <1>2, <1>3, <1>4 DEF Lifecycle!vars

\* The stage and the bond in escrow that a record stands for.
StageOf(rec) ==
    IF rec.status # "SETTLED" THEN rec.status
    ELSE IF rec.bond > 0 THEN "RETURNED" ELSE "FORFEITED"
HeldOf(rec) == IF rec.status # "SETTLED" THEN rec.bond ELSE 0

\* A step that changes the record of one asset changes the stage and the bond
\* of that asset only.
LEMMA OneRecord ==
  ASSUME NEW id \in Assets, NEW rec,
         \A a \in Assets \ {id} :
            /\ (a \in DOMAIN assets') = (a \in DOMAIN assets)
            /\ a \in DOMAIN assets => assets'[a] = assets[a],
         id \in DOMAIN assets', assets'[id] = rec
  PROVE  /\ [a \in Assets |-> Stage(a)'] =
               [[a \in Assets |-> Stage(a)] EXCEPT ![id] = StageOf(rec)]
         /\ LiveBonds' = [LiveBonds EXCEPT ![id] = HeldOf(rec)]
<1>1. \A a \in Assets \ {id} : Stage(a)' = Stage(a)
  BY DEF Stage
<1>2. Stage(id)' = StageOf(rec)
  BY DEF Stage, StageOf
<1>3. \A a \in Assets \ {id} : LiveBonds'[a] = LiveBonds[a]
  BY DEF LiveBonds, Live
<1>4. LiveBonds'[id] = HeldOf(rec)
  BY DEF LiveBonds, Live, HeldOf
<1>5. LiveBonds = [a \in Assets |-> LiveBonds[a]] /\ LiveBonds' = [a \in Assets |-> LiveBonds'[a]]
  BY DEF LiveBonds
<1>6. LiveBonds' = [LiveBonds EXCEPT ![id] = HeldOf(rec)]
  BY <1>3, <1>4, <1>5
<1> QED BY <1>1, <1>2, <1>6

\* Registering is Register.
LEMMA RegisterRefines ==
  ASSUME Inv, NEW issuer \in Accounts, NEW id \in Assets, NEW pair \in Pairs,
         NEW bond \in Amounts, RegisterAsset(issuer, id, pair, bond)
  PROVE  Lifecycle!Register(id, bond)
<1> DEFINE rec == [issuer |-> issuer, pair |-> pair, status |-> "DRAFT",
                   bond |-> bond, notionalMinted |-> 0, allowAll |-> TRUE]
<1>1. /\ id \notin DOMAIN assets /\ bond > 0
      /\ coins' = Moved(coins, issuer, ModuleAddress, bond)
      /\ assets' = Put(assets, id, rec)
      /\ UNCHANGED <<tokens, donated>>
  BY DEF RegisterAsset
<1>2. /\ \A a \in Assets \ {id} :
            /\ (a \in DOMAIN assets') = (a \in DOMAIN assets)
            /\ a \in DOMAIN assets => assets'[a] = assets[a]
      /\ id \in DOMAIN assets' /\ assets'[id] = rec
  BY <1>1 DEF Put
<1>3. /\ [a \in Assets |-> Stage(a)'] = [[a \in Assets |-> Stage(a)] EXCEPT ![id] = "DRAFT"]
      /\ LiveBonds' = [LiveBonds EXCEPT ![id] = bond]
  <2>1. StageOf(rec) = "DRAFT" /\ HeldOf(rec) = bond
    BY DEF StageOf, HeldOf
  <2> HIDE DEF rec
  <2> QED BY <1>2, <2>1, OneRecord
<1>4. Stage(id) = "NONE"
  BY <1>1 DEF Stage
<1>5. coins'[Pool] = coins[Pool]
  BY <1>1, InvFacts, RwaAssumption DEF Moved
<1>6. coins'[ModuleAddress] - donated' = coins[ModuleAddress] - donated + bond
  <2>1. coins'[ModuleAddress] = coins[ModuleAddress] + bond /\ donated' = donated
    BY <1>1, InvFacts, RwaAssumption DEF Moved
  <2>2. coins[ModuleAddress] \in Nat /\ donated \in Nat /\ bond \in Nat
    BY InvFacts, RwaAssumption, MaxUnitsAssumption DEF Inv, TypeOK, Amount
  <2> QED BY <2>1, <2>2
<1>7. \A a \in Assets : Supply(a)' = Supply(a)
  BY <1>1 DEF Supply
<1> QED BY <1>1, <1>3, <1>4, <1>5, <1>6, <1>7 DEF Lifecycle!Register

\* The same for a step that overwrites a record.
LEMMA OneUpdate ==
  ASSUME Inv, NEW id \in Assets, id \in DOMAIN assets, NEW rec,
         assets' = [assets EXCEPT ![id] = rec]
  PROVE  /\ [a \in Assets |-> Stage(a)'] =
               [[a \in Assets |-> Stage(a)] EXCEPT ![id] = StageOf(rec)]
         /\ LiveBonds' = [LiveBonds EXCEPT ![id] = HeldOf(rec)]
<1>1. /\ \A a \in Assets \ {id} :
            /\ (a \in DOMAIN assets') = (a \in DOMAIN assets)
            /\ a \in DOMAIN assets => assets'[a] = assets[a]
      /\ id \in DOMAIN assets' /\ assets'[id] = rec
  BY DEF Inv, TypeOK, IsStore
<1> QED BY <1>1, OneRecord

\* A record that keeps its bond and stays unsettled keeps the bond in escrow.
LEMMA SameBond ==
  ASSUME NEW id \in Assets, id \in DOMAIN assets, assets[id].status # "SETTLED"
  PROVE  [LiveBonds EXCEPT ![id] = assets[id].bond] = LiveBonds
<1>1. LiveBonds[id] = assets[id].bond
  BY DEF LiveBonds, Live
<1>2. LiveBonds = [a \in Assets |-> LiveBonds[a]]
  BY DEF LiveBonds
<1> QED BY <1>1, <1>2

\* Attesting is Attest.
LEMMA AttestRefines ==
  ASSUME Inv, NEW issuer \in Accounts, NEW id \in Assets, AttestAsset(issuer, id)
  PROVE  Lifecycle!Attest(id)
<1> DEFINE rec == [assets[id] EXCEPT !.status = "ATTESTED"]
<1>1. /\ id \in DOMAIN assets /\ assets[id].status = "DRAFT"
      /\ assets' = [assets EXCEPT ![id] = rec]
      /\ UNCHANGED <<coins, tokens, donated>>
  BY DEF AttestAsset, IsIssuer
<1>2. rec.bond = assets[id].bond /\ rec.status = "ATTESTED"
  BY <1>1, InvFacts DEF AssetRecord
<1> HIDE DEF rec
<1>3. /\ [a \in Assets |-> Stage(a)'] = [[a \in Assets |-> Stage(a)] EXCEPT ![id] = "ATTESTED"]
      /\ LiveBonds' = LiveBonds
  <2>1. StageOf(rec) = "ATTESTED" /\ HeldOf(rec) = assets[id].bond
    BY <1>1, <1>2 DEF StageOf, HeldOf
  <2>2. /\ [a \in Assets |-> Stage(a)'] = [[a \in Assets |-> Stage(a)] EXCEPT ![id] = StageOf(rec)]
        /\ LiveBonds' = [LiveBonds EXCEPT ![id] = HeldOf(rec)]
    BY <1>1, OneUpdate
  <2> QED BY <1>1, <2>1, <2>2, SameBond
<1>4. Stage(id) = "DRAFT"
  BY <1>1 DEF Stage
<1>5. \A a \in Assets : Supply(a)' = Supply(a)
  BY <1>1 DEF Supply
<1> QED BY <1>1, <1>3, <1>4, <1>5 DEF Lifecycle!Attest

\* Minting is Mint: the fee touches neither the escrow nor the pool.
LEMMA MintRefines ==
  ASSUME Inv, NEW issuer \in Accounts, NEW id \in Assets, NEW notional \in Amounts,
         MintRWA(issuer, id, notional)
  PROVE  Lifecycle!Mint(id, notional)
<1> DEFINE rec == MintedRecord(assets[id], notional)
           fee == ComputeFee(notional, params.mintFeeRate)
<1>1. /\ id \in DOMAIN assets /\ assets[id].status \in {"ATTESTED", "ACTIVE"}
      /\ notional > 0 /\ notional \in Nat
      /\ Supply(id) + notional <= MaxSupply
      /\ coins' = Moved(coins, issuer, FeeCollector, fee)
      /\ tokens' = [tokens EXCEPT ![id] = Credited(tokens[id], issuer, notional)]
      /\ assets' = [assets EXCEPT ![id] = rec]
      /\ donated' = donated
  BY RwaAssumption DEF MintRWA, IsIssuer
<1>2. rec.bond = assets[id].bond /\ rec.status = "ACTIVE"
  <2>1. assets[id] \in AssetRecord
    BY <1>1, InvFacts
  <2> QED BY <1>1, <2>1, MintedRecordType
<1> HIDE DEF rec, fee
<1>3. /\ [a \in Assets |-> Stage(a)'] = [[a \in Assets |-> Stage(a)] EXCEPT ![id] = "ACTIVE"]
      /\ LiveBonds' = LiveBonds
  <2>1. StageOf(rec) = "ACTIVE" /\ HeldOf(rec) = assets[id].bond
    BY <1>1, <1>2 DEF StageOf, HeldOf
  <2>2. /\ [a \in Assets |-> Stage(a)'] = [[a \in Assets |-> Stage(a)] EXCEPT ![id] = StageOf(rec)]
        /\ LiveBonds' = [LiveBonds EXCEPT ![id] = HeldOf(rec)]
    BY <1>1, OneUpdate
  <2> QED BY <1>1, <2>1, <2>2, SameBond
<1>4. Stage(id) \in {"ATTESTED", "ACTIVE"}
  BY <1>1 DEF Stage
<1>5. coins'[ModuleAddress] = coins[ModuleAddress] /\ coins'[Pool] = coins[Pool]
  BY <1>1, InvFacts, RwaAssumption DEF Moved
<1>6. Supply(id)' = Supply(id) + notional
  <2>1. Weight(tokens[id], Holders) + notional <= MaxUnits
    BY <1>1, InvFacts, RwaAssumption, MaxUnitsAssumption DEF Supply
  <2>2. Weight(Credited(tokens[id], issuer, notional), Holders) = Supply(id) + notional
    BY <1>1, <2>1, InvFacts, CreditedType DEF Supply
  <2> QED BY <1>1, <2>2 DEF Supply, Inv, TypeOK
<1>7. \A a \in Assets \ {id} : Supply(a)' = Supply(a)
  BY <1>1 DEF Supply, Inv, TypeOK
<1>8. [a \in Assets |-> Supply(a)'] =
         [[a \in Assets |-> Supply(a)] EXCEPT ![id] = Supply(id) + notional]
  BY <1>6, <1>7
<1> QED BY <1>1, <1>3, <1>4, <1>5, <1>8 DEF Lifecycle!Mint

\* Settling is Return.
LEMMA SettleRefines ==
  ASSUME Inv, NEW issuer \in Accounts, NEW id \in Assets, SettleRWA(issuer, id)
  PROVE  Lifecycle!Return(id)
<1> DEFINE rec == [assets[id] EXCEPT !.status = "SETTLED"]
<1>1. /\ id \in DOMAIN assets /\ assets[id].status = "ACTIVE"
      /\ assets' = [assets EXCEPT ![id] = rec]
      /\ rec.status = "SETTLED" /\ rec.bond = assets[id].bond
      /\ coins'[ModuleAddress] = coins[ModuleAddress] - assets[id].bond
      /\ coins'[Pool] = coins[Pool]
      /\ Supply(id)' = 0 /\ \A a \in Assets \ {id} : Supply(a)' = Supply(a)
      /\ donated' = donated
  BY SettleFacts
<1> HIDE DEF rec
<1>2. LiveBonds[id] = assets[id].bond /\ assets[id].bond > 0
  BY <1>1 DEF Inv, BondsEscrowed, LiveBonds, Live
<1>3. /\ [a \in Assets |-> Stage(a)'] = [[a \in Assets |-> Stage(a)] EXCEPT ![id] = "RETURNED"]
      /\ LiveBonds' = [LiveBonds EXCEPT ![id] = 0]
  <2>1. StageOf(rec) = "RETURNED" /\ HeldOf(rec) = 0
    BY <1>1, <1>2 DEF StageOf, HeldOf
  <2>2. /\ [a \in Assets |-> Stage(a)'] = [[a \in Assets |-> Stage(a)] EXCEPT ![id] = StageOf(rec)]
        /\ LiveBonds' = [LiveBonds EXCEPT ![id] = HeldOf(rec)]
    BY <1>1, OneUpdate
  <2> QED BY <1>1, <2>1, <2>2
<1>4. Stage(id) = "ACTIVE"
  BY <1>1 DEF Stage
<1>5. coins'[ModuleAddress] - donated' = coins[ModuleAddress] - donated - LiveBonds[id]
  <2>1. coins[ModuleAddress] \in Int /\ donated \in Int /\ assets[id].bond \in Int
    BY <1>1, InvFacts, MaxUnitsAssumption DEF Inv, TypeOK, Amount, AssetRecord
  <2> QED BY <1>1, <1>2, <2>1
<1>6. [a \in Assets |-> Supply(a)'] = [[a \in Assets |-> Supply(a)] EXCEPT ![id] = 0]
  BY <1>1
<1> QED BY <1>1, <1>3, <1>4, <1>5, <1>6 DEF Lifecycle!Return

\* Slashing is Forfeit.
LEMMA SlashRefines ==
  ASSUME Inv, NEW id \in Assets, SlashBond(id)
  PROVE  Lifecycle!Forfeit(id)
<1> DEFINE rec == [assets[id] EXCEPT !.status = "SETTLED", !.bond = 0]
<1>1. /\ id \in DOMAIN assets /\ assets[id].status = "ACTIVE"
      /\ assets' = [assets EXCEPT ![id] = rec]
      /\ rec.status = "SETTLED" /\ rec.bond = 0
      /\ coins'[ModuleAddress] = coins[ModuleAddress] - assets[id].bond
      /\ coins'[Pool] = coins[Pool] + assets[id].bond
      /\ UNCHANGED <<tokens, donated>>
  BY SlashFacts
<1> HIDE DEF rec
<1>2. LiveBonds[id] = assets[id].bond
  BY <1>1 DEF LiveBonds, Live
<1>3. /\ [a \in Assets |-> Stage(a)'] = [[a \in Assets |-> Stage(a)] EXCEPT ![id] = "FORFEITED"]
      /\ LiveBonds' = [LiveBonds EXCEPT ![id] = 0]
  <2>1. StageOf(rec) = "FORFEITED" /\ HeldOf(rec) = 0
    BY <1>1 DEF StageOf, HeldOf
  <2>2. /\ [a \in Assets |-> Stage(a)'] = [[a \in Assets |-> Stage(a)] EXCEPT ![id] = StageOf(rec)]
        /\ LiveBonds' = [LiveBonds EXCEPT ![id] = HeldOf(rec)]
    BY <1>1, OneUpdate
  <2> QED BY <1>1, <2>1, <2>2
<1>4. Stage(id) = "ACTIVE"
  BY <1>1 DEF Stage
<1>5. /\ coins'[ModuleAddress] - donated' = coins[ModuleAddress] - donated - LiveBonds[id]
      /\ coins'[Pool] - GenesisCoins[Pool] = coins[Pool] - GenesisCoins[Pool] + LiveBonds[id]
  <2>1. coins[ModuleAddress] \in Int /\ donated \in Int /\ assets[id].bond \in Int
    BY <1>1, InvFacts, MaxUnitsAssumption DEF Inv, TypeOK, Amount, AssetRecord
  <2>2. coins[Pool] \in Int /\ GenesisCoins[Pool] \in Int
    BY InvFacts, GenesisAssumption, MaxUnitsAssumption DEF Amount
  <2> QED BY <1>1, <1>2, <2>1, <2>2
<1>6. \A a \in Assets : Supply(a)' = Supply(a)
  BY <1>1 DEF Supply
<1> QED BY <1>1, <1>3, <1>4, <1>5, <1>6 DEF Lifecycle!Forfeit

\* Changing the restrictions is a stuttering step.
LEMMA RestrictRefines ==
  ASSUME Inv, NEW issuer \in Accounts, NEW id \in Assets, NEW r \in Restrictions,
         UpdateRestrictions(issuer, id, r)
  PROVE  UNCHANGED Lifecycle!vars
<1> DEFINE rec == [assets[id] EXCEPT !.allowAll = r.allowAll]
<1>1. /\ id \in DOMAIN assets /\ assets[id].status # "SETTLED"
      /\ assets' = [assets EXCEPT ![id] = rec]
      /\ UNCHANGED <<coins, tokens, donated>>
  BY DEF UpdateRestrictions, IsIssuer
<1>2. rec.bond = assets[id].bond /\ rec.status = assets[id].status
  BY <1>1, InvFacts DEF AssetRecord
<1> HIDE DEF rec
<1>3. /\ [a \in Assets |-> Stage(a)'] =
            [[a \in Assets |-> Stage(a)] EXCEPT ![id] = assets[id].status]
      /\ LiveBonds' = LiveBonds
  <2>1. StageOf(rec) = assets[id].status /\ HeldOf(rec) = assets[id].bond
    BY <1>1, <1>2 DEF StageOf, HeldOf
  <2>2. /\ [a \in Assets |-> Stage(a)'] = [[a \in Assets |-> Stage(a)] EXCEPT ![id] = StageOf(rec)]
        /\ LiveBonds' = [LiveBonds EXCEPT ![id] = HeldOf(rec)]
    BY <1>1, OneUpdate
  <2> QED BY <1>1, <2>1, <2>2, SameBond
<1>4. [a \in Assets |-> Stage(a)'] = [a \in Assets |-> Stage(a)]
  <2>1. Stage(id) = assets[id].status
    BY <1>1 DEF Stage
  <2> QED BY <1>3, <2>1
<1>5. \A a \in Assets : Supply(a)' = Supply(a)
  BY <1>1 DEF Supply
<1> QED BY <1>1, <1>3, <1>4, <1>5 DEF Lifecycle!vars

\* The genesis state maps to the initial state of the lifecycle.
LEMMA InitRefines == Init => Lifecycle!Init
<1> SUFFICES ASSUME Init PROVE Lifecycle!Init
  OBVIOUS
<1>1. DOMAIN assets = {}
  BY DEF Init, EmptyStore
<1>2. \A a \in Assets : Stage(a) = "NONE" /\ LiveBonds[a] = 0
  BY <1>1 DEF Stage, LiveBonds, Live
<1>3. LiveBonds = [a \in Assets |-> 0]
  BY <1>1 DEF LiveBonds, Live
<1>4. \A a \in Assets : Supply(a) = 0
  BY WeightZero DEF Init, Supply
<1>5. coins[ModuleAddress] - donated = 0 /\ coins[Pool] - GenesisCoins[Pool] = 0
  <2>1. GenesisCoins[Pool] \in Int
    BY GenesisAssumption, MaxUnitsAssumption DEF Holders
  <2> QED BY <2>1, GenesisAssumption DEF Init
<1> QED BY <1>2, <1>3, <1>4, <1>5 DEF Lifecycle!Init

\* Every step of x/rwa is a step of the lifecycle or leaves it alone.
LEMMA NextRefines == Inv /\ Inv' /\ [Next]_vars => [Lifecycle!Next]_(Lifecycle!vars)
<1> SUFFICES ASSUME Inv, Inv', [Next]_vars PROVE Lifecycle!Next \/ UNCHANGED Lifecycle!vars
  OBVIOUS
<1>1. ASSUME NEW issuer \in Accounts, NEW id \in Assets, NEW pair \in Pairs,
             NEW bond \in Amounts, RegisterAsset(issuer, id, pair, bond)
      PROVE  Lifecycle!Next
  BY <1>1, RegisterRefines DEF Lifecycle!Next
<1>2. ASSUME NEW issuer \in Accounts, NEW id \in Assets,
             AttestAsset(issuer, id) \/ SettleRWA(issuer, id)
      PROVE  Lifecycle!Next
  BY <1>2, AttestRefines, SettleRefines DEF Lifecycle!Next
<1>3. ASSUME NEW issuer \in Accounts, NEW id \in Assets, NEW notional \in Amounts,
             MintRWA(issuer, id, notional)
      PROVE  Lifecycle!Next
  BY <1>3, MintRefines DEF Lifecycle!Next
<1>4. ASSUME NEW sender \in Accounts, NEW recipient \in Holders, NEW id \in Assets,
             NEW amount \in Amounts,
             \/ TransferRWA(sender, recipient, id, amount)
             \/ BankSendTokens(sender, recipient, id, amount)
      PROVE  UNCHANGED Lifecycle!vars
  BY <1>4, SameRecords DEF TransferRWA, BankSendTokens
<1>5. ASSUME NEW sender \in Accounts, NEW recipient \in Holders, NEW amount \in Amounts,
             BankSendCoins(sender, recipient, amount)
      PROVE  UNCHANGED Lifecycle!vars
  <2>1. coins'[Pool] = coins[Pool]
    BY <1>5, InvFacts, RwaAssumption DEF BankSendCoins, Moved, NotBlocked
  <2> QED BY <1>5, <2>1, SameRecords DEF BankSendCoins
<1>6. ASSUME NEW issuer \in Accounts, NEW id \in Assets, NEW r \in Restrictions,
             UpdateRestrictions(issuer, id, r)
      PROVE  UNCHANGED Lifecycle!vars
  BY <1>6, RestrictRefines
<1>7. ASSUME NEW id \in Assets, SlashBond(id) PROVE Lifecycle!Next
  BY <1>7, SlashRefines DEF Lifecycle!Next
<1>8. ASSUME NEW p \in ParamChoices, UpdateParams(p) PROVE UNCHANGED Lifecycle!vars
  BY <1>8, SameRecords DEF UpdateParams
<1>9. CASE OraclePrices
  BY <1>9, SameRecords DEF OraclePrices
<1>10. CASE UNCHANGED vars
  BY <1>10, SameRecords DEF vars
<1> QED BY <1>1, <1>2, <1>3, <1>4, <1>5, <1>6, <1>7, <1>8, <1>9, <1>10 DEF Next

\* x/rwa implements the asset lifecycle, for any number of assets, accounts and
\* restrictions: a bond leaves escrow once and in full, back to the issuer only
\* with no token outstanding, else to the community pool.
THEOREM LifecycleImplemented == Spec => ImplementsLifecycle
<1>1. Init => Lifecycle!Init
  BY InitRefines
<1>2. Inv /\ Inv' /\ [Next]_vars => [Lifecycle!Next]_(Lifecycle!vars)
  BY NextRefines
<1> QED BY <1>1, <1>2, Invariance, PTL DEF Spec, ImplementsLifecycle, Lifecycle!Spec
=============================================================================
