--------------------------- MODULE AssetLifecycle ---------------------------
(***************************************************************************)
(* What x/rwa promises about an asset and its bond, without accounts,      *)
(* balances, fees, parameters or restrictions.                             *)
(*                                                                         *)
(* An asset goes DRAFT, ATTESTED, ACTIVE and ends RETURNED (settled by its *)
(* issuer) or FORFEITED (slashed by governance).  Its bond is in escrow    *)
(* until then and leaves it once, in full: to the issuer only when no      *)
(* token is left outstanding, otherwise to the community pool.             *)
(***************************************************************************)
EXTENDS Integers

CONSTANTS Assets, Amounts

VARIABLES
    stage,        \* of each asset; "NONE" before it is registered
    held,         \* the bond in escrow for each asset
    outstanding,  \* tokens of each asset in circulation
    escrow,       \* uvtx in escrow altogether
    forfeited     \* uvtx that went to the community pool

vars == <<stage, held, outstanding, escrow, forfeited>>

Init ==
    /\ stage = [id \in Assets |-> "NONE"]
    /\ held = [id \in Assets |-> 0]
    /\ outstanding = [id \in Assets |-> 0]
    /\ escrow = 0
    /\ forfeited = 0

Register(id, bond) ==
    /\ stage[id] = "NONE" /\ bond > 0
    /\ stage' = [stage EXCEPT ![id] = "DRAFT"]
    /\ held' = [held EXCEPT ![id] = bond]
    /\ escrow' = escrow + bond
    /\ UNCHANGED <<outstanding, forfeited>>

Attest(id) ==
    /\ stage[id] = "DRAFT"
    /\ stage' = [stage EXCEPT ![id] = "ATTESTED"]
    /\ UNCHANGED <<held, outstanding, escrow, forfeited>>

Mint(id, notional) ==
    /\ stage[id] \in {"ATTESTED", "ACTIVE"} /\ notional > 0
    /\ stage' = [stage EXCEPT ![id] = "ACTIVE"]
    /\ outstanding' = [outstanding EXCEPT ![id] = outstanding[id] + notional]
    /\ UNCHANGED <<held, escrow, forfeited>>

Return(id) ==
    /\ stage[id] = "ACTIVE"
    /\ stage' = [stage EXCEPT ![id] = "RETURNED"]
    /\ held' = [held EXCEPT ![id] = 0]
    /\ outstanding' = [outstanding EXCEPT ![id] = 0]
    /\ escrow' = escrow - held[id]
    /\ UNCHANGED forfeited

Forfeit(id) ==
    /\ stage[id] = "ACTIVE"
    /\ stage' = [stage EXCEPT ![id] = "FORFEITED"]
    /\ held' = [held EXCEPT ![id] = 0]
    /\ escrow' = escrow - held[id]
    /\ forfeited' = forfeited + held[id]
    /\ UNCHANGED outstanding

Next ==
    \E id \in Assets :
       \/ \E bond \in Amounts : Register(id, bond)
       \/ Attest(id)
       \/ \E notional \in Amounts : Mint(id, notional)
       \/ Return(id)
       \/ Forfeit(id)

Spec == Init /\ [][Next]_vars
=============================================================================
