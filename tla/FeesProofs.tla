----------------------------- MODULE FeesProofs -----------------------------
(***************************************************************************)
(* Proofs about x/fees for every supply, precision and set of parameters.  *)
(*                                                                         *)
(* BurnedWithinRatio is not inductive: between two blocks it says nothing  *)
(* about the fees that are still in the collector.  The strengthening      *)
(* Charged says that while transactions run, what was ever burned is       *)
(* covered by the fees that have left the collector, those that a          *)
(* zero-height restart left in it counted twice.                           *)
(***************************************************************************)
EXTENDS Fees, TLAPS

\* No valid choice of parameters burns more than r.
Bounds(r) == \A p \in ParamChoices : Validate(p) => p.burnRatio <= r

\* All that the EndBlocker charged or has yet to charge.
Charges == paid + recharged

Charged ==
    /\ collector <= Charges
    /\ phase = "deliver" =>
          \A r \in 0 .. Prec :
             Bounds(r) => burned * Prec <= (Charges - collector) * r

Inv == TypeOK /\ SupplyAccounted /\ Charged /\ BurnedWithinRatio

----------------------------------------------------------------------------
\* Multiplication by a natural number keeps the order.
LEMMA TimesMonotone ==
  ASSUME NEW a \in Nat, NEW b \in Nat, a <= b, NEW r \in Nat
  PROVE  a * r <= b * r /\ a * r \in Nat /\ b * r \in Nat
<1>1. PICK d \in Nat : b = a + d
  <2>1. b - a \in Nat /\ b = a + (b - a)
    OBVIOUS
  <2> QED BY <2>1
<1>2. b * r = a * r + d * r
  BY <1>1
<1>3. a * r \in Nat /\ d * r \in Nat
  OBVIOUS
<1> QED BY <1>2, <1>3

\* Products of naturals are naturals.
LEMMA TimesNat ==
  ASSUME NEW a \in Nat, NEW r \in Nat
  PROVE  a * r \in Nat
OBVIOUS

\* A bound by the fees that left the collector is one by all fees.
LEMMA RestWithinWhole ==
  ASSUME NEW gone \in Nat, NEW whole \in Nat, NEW left \in Nat, left <= whole,
         NEW r \in Nat, gone * Prec <= (whole - left) * r
  PROVE  gone * Prec <= whole * r
<1>1. whole - left \in Nat /\ whole - left <= whole
  OBVIOUS
<1>2. /\ (whole - left) * r <= whole * r
      /\ (whole - left) * r \in Nat /\ whole * r \in Nat
  BY <1>1, TimesMonotone
<1>3. gone * Prec \in Nat
  BY FeesAssumption, TimesNat
<1> QED BY <1>2, <1>3

\* The amount burned is at most the collector's balance, and its exact share
\* or less: the bank calls of the EndBlocker have the coins they need.
LEMMA BurnAmountBounds ==
  ASSUME NEW balance \in Nat, NEW ratio \in 0 .. Prec
  PROVE  /\ BurnAmount(balance, ratio) \in Nat
         /\ BurnAmount(balance, ratio) <= balance
         /\ BurnAmount(balance, ratio) * Prec <= balance * ratio
<1> DEFINE x == balance * ratio
           q == x \div Prec
<1>1. Prec \in Nat /\ Prec > 0 /\ ratio \in Nat /\ ratio <= Prec
  BY FeesAssumption
<1>2. x \in Nat /\ x <= balance * Prec
  BY <1>1
<1> HIDE DEF x
<1>3. q \in Nat /\ q * Prec <= x
  BY <1>1, <1>2
<1> HIDE DEF q
<1>4. q <= balance
  <2>1. q * Prec <= balance * Prec
    BY <1>1, <1>2, <1>3
  <2>2. SUFFICES ASSUME q >= balance + 1 PROVE FALSE
    BY <1>3
  <2>3. q * Prec >= (balance + 1) * Prec
    BY <1>1, <1>3, <2>2
  <2>4. (balance + 1) * Prec = balance * Prec + Prec
    BY <1>1
  <2> QED BY <1>1, <1>3, <2>1, <2>3, <2>4
<1>5. BurnAmount(balance, ratio) = q
  BY DEF BurnAmount, q, x
<1> QED BY <1>3, <1>4, <1>5 DEF x

\* The genesis state.
LEMMA InitInv == Init => Inv
<1> SUFFICES ASSUME Init PROVE Inv
  OBVIOUS
<1>1. TypeOK
  BY FeesAssumption DEF Init, TypeOK, Supply
<1>2. SupplyAccounted
  BY FeesAssumption DEF Init, SupplyAccounted, Supply
<1>3. Charged /\ BurnedWithinRatio
  BY FeesAssumption DEF Init, Charged, Charges, BurnedWithinRatio
<1> QED BY <1>1, <1>2, <1>3 DEF Inv

\* A step within a block that burns nothing and leaves alone the fees that left
\* the collector keeps the bounds.
LEMMA SameCharge ==
  ASSUME Inv, TypeOK', phase = "deliver", burned' = burned,
         collector' <= Charges', Charges' - collector' = Charges - collector
  PROVE  Charged' /\ BurnedWithinRatio'
<1>1. ASSUME NEW r \in 0 .. Prec, Bounds(r)
      PROVE  burned' * Prec <= (Charges' - collector') * r
  BY <1>1 DEF Inv, Charged
<1>2. ASSUME NEW r \in 0 .. Prec, Bounds(r)
      PROVE  burned' * Prec <= Charges' * r
  <2>1. Charges' \in Nat /\ collector' \in Nat /\ burned' \in Nat
    BY DEF TypeOK, Charges
  <2>2. burned' * Prec <= (Charges' - collector') * r
    BY <1>1, <1>2
  <2>3. r \in Nat
    BY <1>2
  <2> QED BY <2>1, <2>2, <2>3, RestWithinWhole
<1> QED BY <1>1, <1>2 DEF Charged, BurnedWithinRatio, Bounds, Charges

\* Burning at the end of a block.
LEMMA EndBlockerInv == Inv /\ EndBlocker => Inv'
<1> SUFFICES ASSUME Inv, EndBlocker PROVE Inv'
  OBVIOUS
<1> DEFINE burn == BurnAmount(collector, params.burnRatio)
<1>1. /\ phase = "deliver" /\ phase' = "commit"
      /\ UNCHANGED <<params, genesisSupply, accounts, locked, feesAccount,
                     distribution, paid, recharged, otherBurned>>
  BY DEF EndBlocker
<1>2. /\ collector \in Nat /\ Charges \in Nat /\ burned \in Nat /\ cumulativeBurned \in Nat
      /\ collector <= Charges /\ params.burnRatio \in 0 .. Prec
  BY FeesParamAssumption DEF Inv, TypeOK, Charged, Charges, Validate, InUnitInterval
<1>3. burn \in Nat /\ burn <= collector /\ burn * Prec <= collector * params.burnRatio
  BY <1>2, BurnAmountBounds
<1>4. /\ collector' = collector - burn
      /\ cumulativeBurned' = cumulativeBurned + burn /\ burned' = burned + burn
  <2>1. burn = 0 => UNCHANGED <<collector, cumulativeBurned, burned>>
    BY DEF EndBlocker
  <2>2. burn # 0 => /\ collector' = collector - burn
                    /\ cumulativeBurned' = cumulativeBurned + burn /\ burned' = burned + burn
    BY DEF EndBlocker, AddCumulativeBurned
  <2> HIDE DEF burn
  <2> QED BY <1>2, <2>1, <2>2
<1> HIDE DEF burn
<1>5. TypeOK'
  BY <1>1, <1>2, <1>3, <1>4 DEF Inv, TypeOK
<1>6. SupplyAccounted'
  BY <1>1, <1>2, <1>3, <1>4 DEF Inv, TypeOK, SupplyAccounted, Supply
<1>c. Charges' = Charges
  BY <1>1 DEF Charges
<1>7. Charged'
  BY <1>1, <1>2, <1>3, <1>4, <1>c DEF Charged
<1>8. ASSUME NEW r \in 0 .. Prec, Bounds(r)
      PROVE  burned' * Prec <= Charges' * r
  <2>1. params.burnRatio <= r /\ r \in Nat
    BY <1>8 DEF Inv, TypeOK, Bounds
  <2>2. burned * Prec <= (Charges - collector) * r
    BY <1>1, <1>8 DEF Inv, Charged
  <2>3. collector * params.burnRatio <= collector * r
    BY <1>2, <2>1
  <2>4. (Charges - collector) * r + collector * r = Charges * r
    BY <1>2, <2>1
  <2>5. (burned + burn) * Prec = burned * Prec + burn * Prec
    BY <1>2, <1>3, FeesAssumption
  <2> DEFINE a == burned * Prec
             b == burn * Prec
             c == collector * params.burnRatio
             d == collector * r
             e == (Charges - collector) * r
  <2>6. {a, b, c, d, e} \subseteq Int
    BY <1>2, <1>3, <2>1, FeesAssumption
  <2>7. a <= e /\ b <= c /\ c <= d
    BY <1>3, <2>2, <2>3
  <2> HIDE DEF a, b, c, d, e
  <2>8. a + b <= e + d
    BY <2>6, <2>7
  <2> QED BY <1>c, <1>4, <2>4, <2>5, <2>8 DEF a, b, d, e
<1>9. BurnedWithinRatio'
  BY <1>8 DEF BurnedWithinRatio, Bounds, Charges
<1> QED BY <1>5, <1>6, <1>7, <1>9 DEF Inv

\* Sweeping the collector.
LEMMA BeginBlockInv == Inv /\ BeginBlock => Inv'
<1> SUFFICES ASSUME Inv, BeginBlock PROVE Inv'
  OBVIOUS
<1>1. TypeOK'
  BY DEF Inv, TypeOK, BeginBlock, Sweep, history
<1>2. SupplyAccounted'
  BY DEF Inv, TypeOK, SupplyAccounted, Supply, BeginBlock, Sweep, history
<1>3. BurnedWithinRatio'
  BY DEF Inv, BurnedWithinRatio, BeginBlock, history
<1>4. Charges' - collector' = Charges' /\ collector' = 0 /\ Charges' \in Nat
  BY <1>1 DEF TypeOK, Charges, BeginBlock, Sweep
<1>5. Charged'
  BY <1>3, <1>4 DEF BurnedWithinRatio, Charged, Charges, Bounds
<1> QED BY <1>1, <1>2, <1>3, <1>5 DEF Inv

\* Both kinds of restart keep the types and the accounting: the baseline moves
\* with the supply.
LEMMA RestartAccounted ==
  ASSUME Inv, ExportAndRestart \/ ZeroHeightRestart
  PROVE  TypeOK' /\ SupplyAccounted'
<1>1. /\ phase' \in {"commit", "deliver"} /\ genesisSupply' = Supply
      /\ cumulativeBurned' = 0 /\ otherBurned' = 0
      /\ recharged' \in {recharged, recharged + collector}
      /\ UNCHANGED <<params, locked, collector, feesAccount, paid, burned>>
  BY DEF ExportAndRestart, ZeroHeightRestart, InitGenesis, balances, Inv, TypeOK
<1>2. /\ accounts' \in Nat /\ distribution' \in Nat
      /\ accounts' + distribution' = accounts + distribution
  BY DEF ExportAndRestart, ZeroHeightRestart, balances, Inv, TypeOK
<1>3. TypeOK'
  BY <1>1, <1>2 DEF Inv, TypeOK, Supply
<1>4. SupplyAccounted'
  BY <1>1, <1>2 DEF Inv, TypeOK, SupplyAccounted, Supply
<1> QED BY <1>3, <1>4

\* A chain restarted where it stopped has burned and charged what it had.
LEMMA ExportInv == Inv /\ ExportAndRestart => Inv'
<1> SUFFICES ASSUME Inv, ExportAndRestart PROVE Inv'
  OBVIOUS
<1>1. TypeOK' /\ SupplyAccounted'
  BY RestartAccounted
<1>2. phase' = "commit" /\ UNCHANGED <<collector, paid, recharged, burned>>
  BY DEF ExportAndRestart, balances
<1>3. Charged' /\ BurnedWithinRatio'
  BY <1>2 DEF Inv, Charged, Charges, BurnedWithinRatio
<1> QED BY <1>1, <1>3 DEF Inv

\* A zero-height restart counts the collector's coins as charged again, so that
\* those that have left it are all that were charged before.
LEMMA ZeroHeightInv == Inv /\ ZeroHeightRestart => Inv'
<1> SUFFICES ASSUME Inv, ZeroHeightRestart PROVE Inv'
  OBVIOUS
<1>1. TypeOK' /\ SupplyAccounted'
  BY RestartAccounted
<1>2. UNCHANGED <<collector, paid, burned>> /\ recharged' = recharged + collector
  BY DEF ZeroHeightRestart
<1>3. Charges \in Nat /\ collector \in Nat /\ burned \in Nat
  BY DEF Inv, TypeOK, Charges
<1>4. Charges' = Charges + collector
  BY <1>2 DEF Charges, Inv, TypeOK
<1>5. Charges' - collector' = Charges /\ collector' <= Charges'
  BY <1>2, <1>3, <1>4
<1>6. ASSUME NEW r \in 0 .. Prec, Bounds(r)
      PROVE  /\ burned' * Prec <= (Charges' - collector') * r
             /\ burned' * Prec <= Charges' * r
  <2>1. burned * Prec <= Charges * r
    BY <1>6 DEF Inv, BurnedWithinRatio, Bounds, Charges
  <2>2. burned' * Prec <= (Charges' - collector') * r
    BY <1>2, <1>5, <2>1
  <2>3. r \in Nat /\ Charges' \in Nat /\ collector' \in Nat /\ burned' \in Nat
    BY <1>2, <1>3, <1>4
  <2> QED BY <1>5, <2>2, <2>3, RestWithinWhole
<1>7. Charged' /\ BurnedWithinRatio'
  BY <1>5, <1>6 DEF Charged, BurnedWithinRatio, Bounds, Charges
<1> QED BY <1>1, <1>7 DEF Inv

\* Every step keeps the invariant.
LEMMA NextInv == Inv /\ [Next]_vars => Inv'
<1> SUFFICES ASSUME Inv, [Next]_vars PROVE Inv'
  OBVIOUS
<1> USE FeesAssumption
<1>1. ASSUME NEW amount \in Amounts,
             \/ PayFee(amount) \/ SendToFees(amount) \/ WithdrawRewards(amount)
             \/ Lock(amount) \/ Unlock(amount) \/ BurnLocked(amount)
      PROVE  Inv'
  <2> USE DEF history, PayFee, SendToFees, WithdrawRewards, Lock, Unlock, BurnLocked
  <2>1. TypeOK'
    BY <1>1 DEF Inv, TypeOK
  <2>2. SupplyAccounted'
    BY <1>1 DEF Inv, TypeOK, SupplyAccounted, Supply
  <2>3. /\ phase = "deliver" /\ burned' = burned
        /\ collector' <= Charges' /\ Charges' - collector' = Charges - collector
    BY <1>1 DEF Inv, TypeOK, Charged, Charges
  <2>4. Charged' /\ BurnedWithinRatio'
    BY <2>1, <2>3, SameCharge
  <2> QED BY <2>1, <2>2, <2>4 DEF Inv
<1>2. ASSUME NEW p \in ParamChoices, UpdateParams(p) PROVE Inv'
  BY <1>2 DEF Inv, TypeOK, SupplyAccounted, Supply, Charged, Charges, BurnedWithinRatio,
              UpdateParams, SetParams, balances, history
<1>3. CASE UNCHANGED vars
  BY <1>3 DEF Inv, TypeOK, SupplyAccounted, Supply, Charged, Charges, BurnedWithinRatio,
              vars, balances, history
<1> QED BY <1>1, <1>2, <1>3, EndBlockerInv, BeginBlockInv, ExportInv, ZeroHeightInv DEF Next

\* The inductive invariant.
LEMMA Invariance == Spec => []Inv
<1>1. Init => Inv
  BY InitInv
<1>2. Inv /\ [Next]_vars => Inv'
  BY NextInv
<1> QED BY <1>1, <1>2, PTL DEF Spec

\* No bank call of the EndBlocker can leave a balance negative, and hence none
\* of them can fail after an earlier one succeeded.
THEOREM BalancesCorrect == Spec => []TypeOK
<1>1. Inv => TypeOK
  BY DEF Inv
<1> QED BY <1>1, Invariance, PTL

\* No inflation, and an exact counter of the burned fees, whatever else burns
\* uvtx and however often the chain is restarted.
THEOREM SupplyCorrect == Spec => []SupplyAccounted
<1>1. Inv => SupplyAccounted
  BY DEF Inv
<1> QED BY <1>1, Invariance, PTL

\* Over the whole behaviour, restarts included, x/fees burns no more than the
\* largest ratio of governance of the fees paid, those that a zero-height
\* restart left in the collector counted a second time.
THEOREM BurnCorrect == Spec => []BurnedWithinRatio
<1>1. Inv => BurnedWithinRatio
  BY DEF Inv
<1> QED BY <1>1, Invariance, PTL
=============================================================================
