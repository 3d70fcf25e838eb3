------------------------------- MODULE MCRwa -------------------------------
(***************************************************************************)
(* Values of the constants of Rwa for model checking.                      *)
(***************************************************************************)
EXTENDS Rwa, TLC

CONSTANTS i1, i2, h1, rwa, collector, pool, A, B, pA

RwaParam(min, mint, settle) ==
    [minIssuerBond |-> min, mintFeeRate |-> mint, settleFeeRate |-> settle]

\* Escrow: two issuers, two assets, bonds of one and two coins, and a fee of
\* half a coin per token, so that a fee rounds down to zero and an issuer can
\* run out of coins.  One choice is rejected.
EscrowCoins == i1 :> 3 @@ i2 :> 1 @@ rwa :> 0 @@ collector :> 0 @@ pool :> 0
AssetSymmetry == Permutations({A, B})
EscrowParams == {RwaParam(1, 1, 1), RwaParam(1, 2, 0)}

\* Genesis: governance raises the minimum bond.
GenesisParams == {RwaParam(1, 1, 1), RwaParam(2, 1, 1)}

\* Restrictions: an issuer and two holders of one asset; messages that put
\* somebody on a list, take somebody off it, and close the asset.
RestrictionCoins == i1 :> 1 @@ i2 :> 0 @@ h1 :> 0 @@ rwa :> 0 @@ collector :> 0 @@ pool :> 0
RestrictionParams == {RwaParam(1, 0, 0), RwaParam(2, 0, 0)}

Change(addA, delA, addD, delD, all) ==
    [addAllow |-> addA, delAllow |-> delA, addDeny |-> addD, delDeny |-> delD,
     allowAll |-> all]

RestrictionChanges ==
    {Change({i1, i2}, {}, {}, {}, FALSE), Change({h1}, {i2}, {}, {}, FALSE),
     Change({}, {}, {h1}, {}, TRUE), Change({i2}, {}, {i1}, {h1}, TRUE),
     Change({}, {}, {collector}, {i1}, TRUE)}
=============================================================================
