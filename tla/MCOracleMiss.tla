---------------------------- MODULE MCOracleMiss ----------------------------
(***************************************************************************)
(* OracleHistory with the constants of MCOracle.                           *)
(***************************************************************************)
EXTENDS MCOracle, OracleHistory
=============================================================================
