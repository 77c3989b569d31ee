------------------------------ MODULE MCLinks ------------------------------
(***************************************************************************)
(* The inverter's link: RegisterLink with two registers of two values, at  *)
(* two sites, a dongle shared with services that use other function codes  *)
(* and one that must be asked for its serial, and FrameReception below it. *)
(* They share no variable, so their steps commute and no property sees     *)
(* both of them: one of them moves, the other stays in one of its initial  *)
(* states.                                                                 *)
(***************************************************************************)
EXTENDS RegisterLink, MCFrameReception

CONSTANTS a, b

MCAddrs == {a, b}
MCSites == {[configured |-> TRUE, foreign |-> {"other"}], [configured |-> FALSE, foreign |-> {}]}

VARIABLE moving     \* the component that moves

linksVars == <<moving, vars, receiveVars>>

LinksInit ==
  /\ moving \in {"registers", "frames"}
  /\ Init /\ ReceptionInit
  /\ moving = "frames" => ~site.configured /\ regs = CHOOSE r \in [Addrs -> Values] : TRUE
  /\ moving = "registers" => connSerial

LinksNext ==
  /\ UNCHANGED moving
  /\ \/ moving = "registers" /\ Next /\ UNCHANGED receiveVars
     \/ moving = "frames" /\ ReceptionNext /\ UNCHANGED vars

\* The fairness of LiveSpec, when RegisterLink moves.
Fairly(A) == moving = "registers" /\ A

LinksSpec ==
  /\ LinksInit /\ [][LinksNext]_linksVars
  /\ WF_vars(Fairly(Client)) /\ WF_vars(Fairly(Serve))
=============================================================================
