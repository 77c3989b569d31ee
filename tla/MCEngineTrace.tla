--------------------------- MODULE MCEngineTrace ---------------------------
(***************************************************************************)
(* EngineTrace on the contract, the inputs and the clock of MCEngine.      *)
(***************************************************************************)
EXTENDS MCEngine, EngineTrace
=============================================================================
