------------------------------ MODULE MCService ------------------------------
(***************************************************************************)
(* What the service shows of the inverters and tells its clients, and the  *)
(* process around it: UnitSnapshots for three units, SnapshotFanout with   *)
(* two subscribers and enough polls to overfill a channel, MqttPublisher   *)
(* with one command and ServeProcess with two requests.                    *)
(*                                                                         *)
(* They share no variable, so their steps commute and no property sees two *)
(* of them: one of them moves, the others stay in one of their initial     *)
(* states; the publisher and the process stay at their ends, where nothing *)
(* moves them and fairness asks for nothing.  A command is retained at     *)
(* first; the behaviours in which it is not delivered are those without    *)
(* one.                                                                    *)
(***************************************************************************)
EXTENDS UnitSnapshots, SnapshotFanout, MqttPublisher, ServeProcess

CONSTANTS a, b, c1

MCClients      == {a, b}
MCMqttCommands == {c1}

VARIABLE moving     \* the component that moves

serviceVars == <<moving, vars, fanoutVars, mqttVars, procVars>>

ServeOver     == AtRest /\ phase = "exited" /\ session = NoSession
PublisherOver == /\ Untouched /\ wiring = "gone" /\ stopping = TRUE
                 /\ ~retainedCommand
                 /\ \A c \in MqttCommands : cmd[c].topic = "switch"

ServiceInit ==
  /\ moving \in {"snapshots", "clients", "publisher", "process"}
  /\ Init /\ FanoutInit
  /\ IF moving = "publisher" THEN PublisherInit /\ retainedCommand ELSE PublisherOver
  /\ IF moving = "process" THEN ServeInit ELSE ServeOver
  /\ moving # "snapshots" => \A u \in Units : up[u] /\ stored = CHOOSE s \in Settings : TRUE

ServiceNext ==
  /\ UNCHANGED moving
  /\ \/ /\ moving = "snapshots" /\ Next
        /\ UNCHANGED <<fanoutVars, mqttVars, procVars>>
     \/ /\ moving = "clients" /\ FanoutNext
        /\ UNCHANGED <<vars, mqttVars, procVars>>
     \/ /\ moving = "publisher" /\ PublisherNext
        /\ UNCHANGED <<vars, fanoutVars, procVars>>
     \/ /\ moving = "process" /\ ServeNext
        /\ UNCHANGED <<vars, fanoutVars, mqttVars>>

\* The fairness of FairSpec, of the snapshots when they move.
Fairly(A) == moving = "snapshots" /\ A

ServiceSpec ==
  /\ ServiceInit /\ [][ServiceNext]_serviceVars
  /\ WF_vars(Fairly(Poll)) /\ WF_vars(Fairly(Refresh)) /\ WF_vars(Fairly(Return))
  /\ PublisherFairness /\ ServeFairness
==============================================================================
