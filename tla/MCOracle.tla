------------------------------ MODULE MCOracle ------------------------------
(***************************************************************************)
(* Values of the constants of Oracle for model checking.  Decimals have    *)
(* three digits; no parameter below lies on a ratio that rounding at three *)
(* digits and at eighteen would decide differently.                        *)
(***************************************************************************)
EXTENDS Oracle, TLC

CONSTANTS v1, v2, v3, a1, a2, f1, pA, pB

MCOperAcc2 == v1 :> a1 @@ v2 :> a2
MCOperAcc3 == v1 :> a1 @@ v2 :> a2 @@ v3 :> f1

Param(window, size, pairs) ==
    [voteWindow |-> window, missWindowSize |-> size, missThreshold |-> 400,
     outlierThreshold |-> 50, quorumFraction |-> 600, acceptList |-> pairs]

\* Genesis: one pair, one price, both validators come and go.
DelegationParams == {Param(1, 2, <<pA>>)}
DelegationPowers == {v1 :> 1 @@ v2 :> 1, v1 :> 0 @@ v2 :> 1}

\* Aggregation: three validators, one with most of the power, or the two others
\* with the same after it left; three prices of which the
\* outer ones are outliers to each other.
AggregationParams == {Param(2, 2, <<pA>>)}
AggregationPowers == {v1 :> 3 @@ v2 :> 1 @@ v3 :> 1, v1 :> 0 @@ v2 :> 1 @@ v3 :> 1}

\* Governance: windows of one and two blocks, a second pair listed, the list
\* reordered, the miss window shortened; one choice repeats a pair and is
\* rejected.
GovernanceParams == {Param(1, 3, <<pA>>), Param(2, 2, <<pA>>), Param(1, 2, <<pA, pB>>),
                     Param(1, 2, <<pB, pA>>), Param(1, 2, <<pA, pA>>)}

\* Misses: a validator enough for the quorum alone and one that is not, which
\* leaves and joins the bonded set.
MissPowers == {v1 :> 2 @@ v2 :> 1, v1 :> 2 @@ v2 :> 0}
=============================================================================
