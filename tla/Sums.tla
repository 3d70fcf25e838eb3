-------------------------------- MODULE Sums --------------------------------
(***************************************************************************)
(* Sums of voting powers, of token amounts and of durations.               *)
(*                                                                         *)
(* Whoever has weight w[x] owns the units <<x, 1>> .. <<x, w[x]>>, and the *)
(* sum over a set is the number of units it owns: facts about sums become  *)
(* facts about the cardinality of finite sets.                             *)
(***************************************************************************)
EXTENDS Integers, FiniteSets

\* The largest number of units one member of a set may own: consensus powers
\* are int64, and math.Int panics above 2^256 - 1.
CONSTANT MaxUnits

ASSUME MaxUnitsAssumption == MaxUnits \in Nat \ {0}

Units(w, S) == UNION {{x} \X ((1 .. w[x]) \cap (1 .. MaxUnits)) : x \in S}
Weight(w, S) == Cardinality(Units(w, S))
=============================================================================
