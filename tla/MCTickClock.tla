----------------------------- MODULE MCTickClock -----------------------------
(***************************************************************************)
(* TickClock with one pack, which stands for any one of the bank's.        *)
(***************************************************************************)
EXTENDS TickClock

CONSTANT p1

MCPacks == {p1}
==============================================================================
