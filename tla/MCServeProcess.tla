--------------------------- MODULE MCServeProcess ---------------------------
(***************************************************************************)
(* ServeProcess; its bounds are numbers.                                   *)
(***************************************************************************)
EXTENDS ServeProcess
=============================================================================
