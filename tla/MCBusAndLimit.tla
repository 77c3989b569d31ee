---------------------------- MODULE MCBusAndLimit ----------------------------
(***************************************************************************)
(* What conditioning is told of the packs by and what it does to the       *)
(* inverters: PackMonitor with addresses 0 and 1 and one address of a pack *)
(* that is not a candidate, and ChargeTransaction as in                    *)
(* MCChargeTransaction.  They share no variable, so their steps commute    *)
(* and no property sees both: one of them moves, the other stays in one of *)
(* its initial states.                                                     *)
(***************************************************************************)
EXTENDS PackMonitor, MCChargeTransaction

MCCandidates == <<0, 1>>

VARIABLE moving     \* the component that moves

busVars == <<moving, monitorVars, vars>>

BusInit ==
  /\ moving \in {"bus", "limit"}
  /\ MonitorInit /\ Init
  /\ moving = "bus" => reg[0].cap = CHOOSE c \in OwnerCaps : TRUE

BusNext ==
  /\ UNCHANGED moving
  /\ \/ moving = "bus" /\ MonitorNext /\ UNCHANGED vars
     \/ moving = "limit" /\ Next /\ UNCHANGED monitorVars

\* The fairness of MonitorLiveSpec, of the bus when it moves.
Fairly(A) == moving = "bus" /\ A

BusSpec ==
  /\ BusInit /\ [][BusNext]_busVars
  /\ WF_monitorVars(Fairly(Loop)) /\ SF_monitorVars(Fairly(ReadNothing))

\* The addresses that nobody else polls are polled for ever, whatever the bus
\* and the settings queue are like (monitor.go:190-245).
PolledForever == []<>(moving = "bus" => probeState = "awaitZero")
=============================================================================
