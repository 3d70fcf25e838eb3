------------------------------- MODULE MCFees -------------------------------
(***************************************************************************)
(* Values of the constants of Fees for model checking: a ratio is a number *)
(* of tenths.  Ratios of nothing, 4/10 and 7/10 can be in force; two       *)
(* choices are rejected.                                                   *)
(***************************************************************************)
EXTENDS Fees

FeesParam(burn, distr) == [burnRatio |-> burn, distributionRatio |-> distr]

SplitParams == {FeesParam(0, 10), FeesParam(4, 6), FeesParam(7, 3),
                FeesParam(8, 8), FeesParam(11, -1)}
SplitGenesis == [accounts |-> 6, locked |-> 2]
=============================================================================
