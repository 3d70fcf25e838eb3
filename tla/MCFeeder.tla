------------------------------ MODULE MCFeeder ------------------------------
(***************************************************************************)
(* Values of the constants of Feeder for model checking.                   *)
(***************************************************************************)
EXTENDS Feeder, TLC

CONSTANTS btc, vtx

\* The example configurations: BTC:USD has two sources, VTX:USD the static one.
MCSources == btc :> 2 @@ vtx :> 1

Param(window, pairs) == [voteWindow |-> window, accept |-> pairs]

\* Governance de-lists a pair and shortens the window, or the reverse.
MCParams == {Param(2, {btc, vtx}), Param(1, {btc})}
=============================================================================
